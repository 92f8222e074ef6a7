SPECIFICATION Spec
CONSTANTS
    Scale = 4
    SysUtil = 4
    PrioMin <- PoolMin
    PrioMax <- PoolMax
    cpunum = 2
    Pids = {p1, p2}
    Tids = {}
    MaxRsv = 3
    Params <- Estimated
    Estimates <- SomeEstimates
INVARIANTS
    PluginAccounting
    NeverOvercommitted
PROPERTIES
    LedgersMoveTogether
    ImplementsAdmission
SYMMETRY PidSymmetry
