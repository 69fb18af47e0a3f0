SPECIFICATION FairSpec
CONSTANTS
    NoName = NoName
    Newline = Newline
    LineLength = 2
    Replies <- MCReplies
    CallLength <- MCCallLength
INVARIANTS
    CallsAreTheServers
PROPERTIES
    WholeLinesInOrder
    InterruptEndsTransfer
CHECK_DEADLOCK FALSE
