SPECIFICATION FairSpec
CONSTANTS
    Child = Child
    Others = {other}
    PipeSize <- MCPipeSize
    BufferSize = 2
    MaxOutput = 1
    MaxInput = 2
    Inputs = {0, 2}
    MaxTries = 1
INVARIANTS
    CutIsFlagged
    NothingCutShort
    CleanReturn
PROPERTIES
    EndsWhenQuiet
CHECK_DEADLOCK FALSE
