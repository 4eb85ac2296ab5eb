SPECIFICATION Spec
CONSTANTS
    Interval = 4
    MaxRefresh = 3
    Horizon = 12
INVARIANTS IInv RefreshesKeepComing
