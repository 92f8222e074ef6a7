SPECIFICATION Spec
CONSTANTS
    Scale = 4
    SysUtil = 4
    PrioMin <- PoolMin
    PrioMax <- PoolMax
    cpunum = 2
    Pids = {p1, p2}
    Tids = {}
    MaxRsv = 3
    Params <- Declared
    Estimates <- NoEstimate
INVARIANTS
    LedgersAgree
    NoCpuOverloaded
    PrioInPool
    SsrmAdmitsByMisreading
PROPERTIES
    RefreshRepairsPrios
SYMMETRY PidSymmetry
