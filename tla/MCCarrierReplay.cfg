SPECIFICATION Spec
CONSTANTS
    Sock = 3
    MaxFd = 5
    Talkers <- AllTalk
    IntSize = 4
    PipeKills = TRUE
    MaxAsk = 2
    BufMax = 12
INVARIANTS
    RepliesMatch
CHECK_DEADLOCK FALSE
