SPECIFICATION FairSpec
CONSTANTS
    Capacity = 1
    MaxChanges = 3
    MaxPresses = 2
PROPERTY CtrlCStops
CHECK_DEADLOCK FALSE
