SPECIFICATION SuiteFairSpec
CONSTANTS
    Units = {"engine", "wants", "session", "queue", "search", "reprovide",
             "blocks", "add", "pin", "mfs", "names", "daemon", "command",
             "sender", "ping", "peers", "identify", "listeners", "streams",
             "refs", "many", "fetch"}
    None = None
    Nil = Nil
    NoKey = NoKey
    NoRec = NoRec
    NoValue = NoValue
    NoRoot = NoRoot
    NoClient = NoClient
    Never = Never
    Nobody = Nobody
    f1 = f1
    f2 = f2
CHECK_DEADLOCK FALSE
PROPERTIES
    BlocksCome
    StorageEnds
    NetworkEnds
