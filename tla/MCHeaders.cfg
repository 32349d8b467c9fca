SPECIFICATION Spec
CONSTANTS
    CallerKeys <- SomeCallerKeys
    ExtraKeys <- SomeExtraKeys
    Chains <- SomeChains
    BearerDrafts <- SomeDrafts
    MaxAttempts = 2
    MaxTime = 4
INVARIANTS
    OneCredential
    IdentityIsSent
PROPERTY TokenIsFresh
