SPECIFICATION FairSpec
CONSTANTS
    Parts <- MCParts
    ConfigPart = "config"
    ConnectThread = "connect"
INVARIANTS
    TypeOK
    QuietMeansReported
    DeltaIsScheduled
PROPERTY DeltaIsSent
