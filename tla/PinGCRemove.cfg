SPECIFICATION Spec
CONSTANTS
    r = r
    m = m
    l = l
    Block = {r, m}
    Links <- MCPairLinks
    Target = {r, m}
    Client = {c1, c2}
    NoClient = NoClient
    NoBlock = NoBlock
    NoState = NoState
    Ops = {"pinAdd", "pinRm", "gc", "blockRm", "repoRm"}
INVARIANTS
    PinnedPresent
PROPERTIES
    KeepsPromise
SYMMETRY
    ClientSymmetry
