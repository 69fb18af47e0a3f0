SPECIFICATION Spec
CONSTANTS
    NoFile = NoFile
    Files = {f1}
    ReadResults = {"full"}
    CommandsUsed = {"clear", "compress", "rules", "dump", "restore", "log", "model"}
    ToolsCallMax = 1
    MaxCalls = 1
    MaxMessages = 4
INVARIANTS
    SystemPromptFirst
    AutosaveIsCurrent
PROPERTIES
    WorkerOwnsDialogue
CHECK_DEADLOCK FALSE
