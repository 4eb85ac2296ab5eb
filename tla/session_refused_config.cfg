SPECIFICATION FairSpec
CONSTANTS
    Clicks = {first}
PROPERTIES RefusalIsReported
CHECK_DEADLOCK FALSE
