SPECIFICATION Spec
CHECK_DEADLOCK FALSE
CONSTANTS
    MsPerSec = 4
    NsPerMs = 3
    Word = 16
    EstPeriod = 3
    EstWcet = 2
    Scale = 12
    Configs <- SomeConfigs
    Starts = {0, 38}
    Skews <- SomeSkews
    Garbage = {0, 9}
    Overheads = {0, 1, 5}
    Delays = {0, 5}
    MaxAct = 3
    MaxOps = 3
INVARIANTS
    PeriodTracks
    WcetWithinOne
    OnSchedule
    LedgerFinite
    TornUnderstates
    EdfAttrHonest
