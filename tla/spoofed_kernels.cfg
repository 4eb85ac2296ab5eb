SPECIFICATION Spec
CONSTANTS
    Kernels = {k1, k2, k3, k4, k5}
    Goroutines = {g1, g2}
    Components = {c1}
INVARIANTS IInv NeverPanics
PROPERTIES HalfOfTheListStays RefreshEnds ImplementsFeed
