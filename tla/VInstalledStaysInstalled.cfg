SPECIFICATION ImageManagerSpec
CONSTANTS
    Callers = {c1}
    Pairs <- MCPairs
SYMMETRY Symmetry
PROPERTY InstalledStaysInstalled
