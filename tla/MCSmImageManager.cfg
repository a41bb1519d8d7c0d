SPECIFICATION SMSpec
CONSTANTS
    b1 = b1
    c1 = c1
    a1 = a1
    a2 = a2
    t1 = t1
    t2 = t2
    NoThread = NoThread
    Installers = {t1, t2}
    Items = {a1, a2, b1, c1}
    Threads <- MCThreads
    ItemID <- MCItemID
    Parts <- MCParts
    Layers = {"layer", "relayer"}
    DiffID <- MCDiffID
    MaxOutdated = 1
    MaxVersions = 1
    MaxStored = 2
    MaxCalls = 3
INVARIANTS
    SMTypeOK
    CountCoversSpaces
    LayerInstallExclusive
    StoreBounded
PROPERTY LayersUnlessDisturbed
CHECK_DEADLOCK FALSE
SYMMETRY MCSymmetry
