SPECIFICATION CLSpec
CONSTANTS
    Nodes = {n1}
    Absent = Absent
    MaxCalls = 4
INVARIANT WaitersWoken
CHECK_DEADLOCK FALSE
