SPECIFICATION SLFairSpec
CONSTANTS
    s1 = s1
    s2 = s2
    c = c
    None = None
    Instances = {s1, s2, c}
    Services = {s1, s2}
    Preinstalled = {c}
    OfflineTTL = {s1}
    ItemID <- MCItemID
    Versions = {1, 2}
    Requests <- MCRequests
    MaxCalls = 2
INVARIANTS
    SLTypeOK
    RunsKnown
    StoredIsInstalled
PROPERTIES
    CallsEnd
    OfflineStops
CHECK_DEADLOCK FALSE
