SPECIFICATION Spec
CONSTANTS
    Chars = {"a", " ", "nl"}
    Pieces <- MCPieces
    Origins = {"normal", "reasoning"}
    Windows <- MCWindows
    MaxInput = 3
    MaxText = 7
INVARIANTS
    LinesAreTheText
    ReasoningHidden
PROPERTIES
    NewestInView
CHECK_DEADLOCK FALSE
