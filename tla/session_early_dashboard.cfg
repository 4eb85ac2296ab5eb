SPECIFICATION Spec
CONSTANTS
    Clicks = {first}
INVARIANTS PhaseThreeIsConnected
CHECK_DEADLOCK FALSE
