SPECIFICATION Spec
CONSTANTS
    Endpoints <- SomeEndpoints
    Timeouts = {0, 5}
    Sizes = {0, 16}
    KeepAlives <- SomeKeepAlives
    MtlsDrafts <- SomeMtls
    Balancers <- SomeBalancers
    Channels <- SomeChannels
    MaxCalls = 3
INVARIANTS
    LastWordCounts
    PlaintextIsAllowed
    IdentityNeedsTls
    PoolIsServed
