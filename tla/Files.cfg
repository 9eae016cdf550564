SPECIFICATION SuiteSpec
CONSTANTS
    Units = {"fetch", "traverse", "refs", "many", "file", "directory", "pb",
             "object", "tar", "path", "edit", "gateway"}
    GNode = {"a", "b", "c", "d", "e"}
    GKids <- FetchKids
    GRoot = "a"
    Fetcher = {"f1", "f2"}
    Lost = {{}, {"b", "d"}}
    NoNode = "none"
CHECK_DEADLOCK FALSE
INVARIANTS
    FetchedExactly
    WalksSound
    
    NodesSound
    
