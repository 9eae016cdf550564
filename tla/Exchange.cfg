SPECIFICATION SuiteSpec
CONSTANTS
    Units = {"wants", "queue", "search", "reprovide", "blocks", "filestore"}
    Peer = {"p1", "p2"}
    Key = {"k"}
    Session = {"s", "t"}
    Env = {"disconnect", "fail"}
    MaxEvents = 5
    Nil = Nil
    PqKey = {"k1", "k2"}
    PqNoKey = NoKey
    NewCap = 1
    KeysCap = 1
    ProvideMax = 1
    MaxAccepted = 4
    Keys <- CallKeys
    PrKey = {"k1", "k2"}
    Request = {"r1", "r2"}
    Impatient = {"r1"}
    Rebroadcast = "rebroadcast"
    FindCap = 1
    RbIdle = "idle"
    RbStopped = "stopped"
    RKey = {"k1", "k2", "k3"}
    Kids <- KidsOf
    Insecure = {"k3"}
    FirstDirect = {"k3"}
    FirstRecursive = {"k1"}
    Strategies = {"all", "pinned", "roots"}
    Caller = {"c1"}
    MaxPins = 2
CHECK_DEADLOCK FALSE
INVARIANTS
    PeersInSync
    SessionsTracked
    WorkSignalled
    NothingLost
    SearchExact
    
    BlocksSound
