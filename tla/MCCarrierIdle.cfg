SPECIFICATION Spec
CONSTANTS
    Sock = 3
    MaxFd = 17
    Talkers = {4}
    IntSize = 4
    PipeKills = TRUE
    MaxAsk = 1
    BufMax = 30
INVARIANTS
    OnlyTheGonePurged
CHECK_DEADLOCK FALSE
