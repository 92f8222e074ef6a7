SPECIFICATION Spec
CONSTANTS
    Sock = 3
    MaxFd = 5
    Talkers <- AllTalk
    IntSize = 4
    PipeKills = TRUE
    MaxAsk = 3
    BufMax = 3
INVARIANTS
    OnlyTheGonePurged
    NoRequestSkipped
    RepliesMatchAlone
    NoCallForgotten
    OnlyFullSocketsBlock
PROPERTIES
    PurgedOnce
    CallsReturn
    GoneArePurged
CHECK_DEADLOCK FALSE
