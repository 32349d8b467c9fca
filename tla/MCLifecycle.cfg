SPECIFICATION Spec
CONSTANTS
    o1 = o1
    o2 = o2
    Observers <- TwoObservers
    MaxEvents = 6
SYMMETRY ObserverSymmetry
INVARIANTS
    RepliesToldTruly
    OpenedOnce
    CancelledOnlyIfUnended
    StreamEndIsTold
