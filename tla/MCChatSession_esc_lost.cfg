SPECIFICATION Spec
CONSTANTS
    NoFile = NoFile
    Files = {f1}
    ReadResults = {"full"}
    CommandsUsed = {}
    ToolsCallMax = 1
    MaxCalls = 1
    MaxMessages = 3
INVARIANTS
    EscapeNotLost
CHECK_DEADLOCK FALSE
