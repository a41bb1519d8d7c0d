SPECIFICATION CLFairSpec
CONSTANTS
    Nodes = {n1, n2}
    Absent = Absent
    MaxCalls = 3
INVARIANT CLTypeOK
PROPERTIES
    RunReturns
    ChangesAreBalanced
CHECK_DEADLOCK FALSE
