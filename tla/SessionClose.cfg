SPECIFICATION Spec
CONSTANTS
    k = k
    l = l
    m = m
    Key = {k, l, m}
    Caller = {c, d}
    Receiver = {r}
    Requests <- Overlapping
    Limit = 1
    InterestSize = 1
    MaxQueue = 2
    Env = {"stray", "cancel", "close"}
    None = None
CHECK_DEADLOCK FALSE
SYMMETRY
    SessionSymmetry
INVARIANTS
    WantedCovered
    AwaitedTracked
