SPECIFICATION Spec
CONSTANTS
    Interval = 4
    MaxRefresh = 3
    Horizon = 12
PROPERTIES SkipsOnlyAfterManual
