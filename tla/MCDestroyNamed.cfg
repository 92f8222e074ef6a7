SPECIFICATION Spec
CONSTANTS
    Scale = 4
    SysUtil = 4
    PrioMin <- PoolMin
    PrioMax <- PoolMax
    cpunum = 1
    Pids = {p1, p2}
    Tids = {}
    MaxRsv = 3
    Params <- OneParam
    Estimates <- NoEstimate
PROPERTIES
    DestroyEndsTheNamed
