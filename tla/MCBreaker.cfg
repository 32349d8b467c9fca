SPECIFICATION FairSpec
CONSTANTS
    t1 = t1
    t2 = t2
    t3 = t3
    Tasks <- ThreeTasks
    Enabled = TRUE
    FailureThreshold = 2
    CoolDown = 1
    HalfOpenProbeCount = 2
INVARIANTS
    TypeOK
    CountersBelowLimits
    CountsConsecutive
PROPERTIES
    
    AtomicUnlessStale
    RecoveryAdmits
