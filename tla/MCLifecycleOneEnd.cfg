SPECIFICATION Spec
CONSTANTS
    o1 = o1
    o2 = o2
    Observers <- TwoObservers
    MaxEvents = 3
SYMMETRY ObserverSymmetry
INVARIANT OneTerminalEvent
