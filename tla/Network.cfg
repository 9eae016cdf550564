SPECIFICATION SuiteSpec
CONSTANTS
    Units = {"engine", "query", "command", "sender", "providers", "buckets",
             "identify", "observed", "nat", "ping", "peers", "filters",
             "listeners", "streams"}
    Never = Never
    Nobody = Nobody
    Peer = {p, q}
    Key = {k, l}
    Env = {"full", "connect"}
    Workers = 2
    MaxEvents = 4
    None = None
SYMMETRY EngineSymmetry
CHECK_DEADLOCK FALSE
INVARIANTS
    ActiveExact
    RequestsExact
    WantedHasTask
    PopFindsTask
    QueriesSound
    DhtKept
    HostSound
    CommandsHonest
