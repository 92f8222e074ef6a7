SPECIFICATION Spec
CONSTANTS
    Scale = 4
    SysUtil = 4
    PrioMin <- PoolMin
    PrioMax <- PoolMax
    cpunum = 1
    Pids = {p1, p2}
    Tids = {7}
    MaxRsv = 3
    Params <- OneParam
    Estimates <- NoEstimate
INVARIANTS
    DaemonKeepsPolicy
PROPERTIES
    StrayOnlyByFailedDetach
    OrphanLostItsReservation
    DeleteTerminates
