SPECIFICATION Spec
CONSTANTS
    Daemons = {d1, d2}
    Orig = 95
    Unlimited = Unlimited
    RtPeriod = 100
    Lines = 3
    Files <- SomeFiles
    None = None
INVARIANTS
    CleanRoundTrip
    WholeFileLoads
PROPERTIES
    LossNeedsFault
