SPECIFICATION Spec
CONSTANTS
    Parts <- MCParts
    ConfigPart = "config"
    ConnectThread = "connect"
INVARIANT ConnectIsAnswered
