SPECIFICATION FairSpec
CONSTANTS
    MaxBoxes = 3
INVARIANTS
    NoLostWakeup
    ConsentIsFresh
PROPERTIES
    BoxCloses
CHECK_DEADLOCK FALSE
