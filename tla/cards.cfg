SPECIFICATION Spec
CONSTANT Items = {1, 2}
INVARIANTS IInv PanicNeedsShorterList
PROPERTIES ExpansionSurvives DisplayCatchesUp
CHECK_DEADLOCK FALSE
