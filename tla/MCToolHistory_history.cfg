SPECIFICATION Spec
CONSTANTS
    Names = {"x", "y", "z"}
    Paths <- MCPaths
    FirstTrees <- MCTrees
    Letters = {"a"}
    Nothing = Nothing
    Directory = Directory
    MaxDepth = 2
    MaxLength = 1
    MaxOutside = 1
INVARIANTS
    TypeOK
    NeverStuck
PROPERTIES
    MovesAlongTheLine
    StaysLocal
CHECK_DEADLOCK FALSE
