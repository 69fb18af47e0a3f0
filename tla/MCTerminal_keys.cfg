SPECIFICATION FairSpec
CONSTANTS
    Keys = {"y", "enter", "wide", "esc", "left", "del"}
    MaxTyped = 3
    MaxResizes = 2
    MaxEofs = 2
INVARIANTS
    KeysArriveAsTyped
    SizeNotForgotten
PROPERTIES
    ClosedInputEndsLoop
CHECK_DEADLOCK FALSE
