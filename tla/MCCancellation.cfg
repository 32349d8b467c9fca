SPECIFICATION Spec
CONSTANTS
    c1 = c1
    c2 = c2
    Callers <- TwoCallers
    Bound <- OneBound
    Backends <- TwoBackends
    LostErrors <- LostSample
    PeerErrors <- PeerSample
    LocalErrors <- LocalSample
INVARIANTS
    SoundIsServed
    FaultsBounded
PROPERTIES
    CancelledIsFinal
    SignalEndsWaits
    EndpointRules
