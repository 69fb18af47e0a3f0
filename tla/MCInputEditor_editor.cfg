SPECIFICATION Spec
CONSTANTS
    Chars = {"a", " ", "/", "@"}
    Commands <- MCCommands
    Files <- MCFiles
    Columns = {4, 6, 7}
    Rows = 10
    MaxVisible = 2
    MaxText = 5
INVARIANTS
    TypeOK
    ShownAsTyped
    ListFitsLine
    HighlightDrawn
PROPERTIES
    OneText
CHECK_DEADLOCK FALSE
