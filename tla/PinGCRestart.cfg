SPECIFICATION Spec
CONSTANTS
    r = r
    m = m
    l = l
    Block = {r, m, l}
    Links <- MCLinks
    Target = {r, m}
    Client = {c1, c2}
    NoClient = NoClient
    NoBlock = NoBlock
    NoState = NoState
    Ops = {"pinAdd", "gc", "files", "put", "crash"}
INVARIANTS FlushedPresent DurablePinned
SYMMETRY ClientSymmetry
