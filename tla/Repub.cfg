SPECIFICATION FairSpec
CONSTANTS
    Caller = {c, d}
    Run = Run
    Env = {"fail", "close"}
    MaxVal = 2
    None = None
CHECK_DEADLOCK FALSE
INVARIANTS
    UpdatePending
PROPERTIES
    OrderUntilClose
    WaitPublished
    UpdatePublished
