SPECIFICATION ImageManagerSpec
CONSTANTS
    Callers = {c1, c2}
    Pairs <- MCPairs
SYMMETRY Symmetry
INVARIANTS
    ImageManagerTypeOK
    MutualExclusion
    NoLostWakeup
    OneVersionInstalled
    ReportedIsDownloaded
    InstalledIsIntact
    InstallConverges
