SPECIFICATION Spec
CHECK_DEADLOCK FALSE
CONSTANTS
    N = 3
    MaxSpurious = 2
INVARIANTS
    OwnThread
    DestroyedWhenDone
    NeverStuck
PROPERTIES
    ProgramEnds
