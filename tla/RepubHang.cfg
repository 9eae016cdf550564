SPECIFICATION FairSpec
CONSTANTS
    Caller = {c, d}
    Run = Run
    Env = {}
    MaxVal = 2
    None = None
CHECK_DEADLOCK FALSE
PROPERTIES
    WaitReturns
