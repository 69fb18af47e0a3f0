SPECIFICATION FairSpec
CONSTANTS
    NoFile = NoFile
    Files = {f1}
    ReadResults = {"full", "text"}
    CommandsUsed = {}
    ToolsCallMax = 2
    MaxCalls = 2
    MaxMessages = 7
INVARIANTS
    TypeOK
    ThreadSlotFree
    RunningCoversWork
    BodyWellFormed
    RoundsBounded
    InterruptRestoresDialogue
PROPERTIES
    CancelEndsQuery
CHECK_DEADLOCK FALSE
