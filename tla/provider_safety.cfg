SPECIFICATION Spec
CONSTANTS
    Keys = {k1, k2}
    Values = {v1, v2}
    Absent = Absent
    Components = {list, nodes}
    Hooked = {list}
    Exported = {nodes}
    Triggers = {loop}
    Pollers = {loop}
    NoOne = NoOne
SYMMETRY Symmetry
INVARIANTS IInv MapIsLatestAnswer MountedStaySubscribed
PROPERTIES DeliversLatest ImplementsFeed
