SPECIFICATION FairSpec
CONSTANTS
    Subscribers = {s1, s2}
    Counters = {l1, l2}
    MaxMessages = 2
    MaxBuffer = 1
INVARIANTS IInv NeverPanics LenAloneCounts
PROPERTIES CallsReturn ImplementsBroadcasting
CHECK_DEADLOCK FALSE
