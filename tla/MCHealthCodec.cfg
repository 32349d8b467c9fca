SPECIFICATION Spec
CONSTANTS
    Fields <- SomeFields
    Statuses <- SomeStatuses
    Services <- SomeServices
    MaxFields = 2
INVARIANTS
    DecodesWholeFields
    RoundTrip
