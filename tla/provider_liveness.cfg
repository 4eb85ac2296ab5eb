SPECIFICATION FairSpec
CONSTANTS
    Keys = {k1}
    Values = {v1}
    Absent = Absent
    Components = {list, nodes}
    Hooked = {list}
    Exported = {nodes}
    Triggers = {loop}
    Pollers = {loop}
    NoOne = NoOne
PROPERTIES RefreshEnds MountedGetsUpToDate DismountedIsForgotten
