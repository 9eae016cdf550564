SPECIFICATION SuiteSpec
CONSTANTS
    Units = {"add", "pin", "mfs", "names", "repo", "daemon", "push",
             "blacklist"}
    f1 = f1
    f2 = f2
    f3 = f3
    NoRoot = NoRoot
    NoClient = NoClient
    NoKey = NoKey
    NoRec = NoRec
    NoValue = NoValue
    Nobody = Nobody
CHECK_DEADLOCK FALSE
INVARIANTS
    AddKeeps
    
    FilesKept
    NamesKept
    

    
