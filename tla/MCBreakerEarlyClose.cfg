SPECIFICATION FairSpec
CONSTANTS
    t1 = t1
    t2 = t2
    t3 = t3
    Tasks <- TwoTasks
    Enabled = TRUE
    FailureThreshold = 2
    CoolDown = 1
    HalfOpenProbeCount = 1
PROPERTY StaysOpen
