SPECIFICATION Spec
CONSTANTS
    r = r
    m = m
    l = l
    Block = {r, m, l}
    Links <- MCLinks
    Target = {r, m}
    Client = {c1}
    NoClient = NoClient
    NoBlock = NoBlock
    NoState = NoState
    Ops = {"pinAdd", "pinRm", "clear", "pinUpdate", "gc", "blockRm", "repoRm", "files", "put", "crash", "pinProgress"}
INVARIANTS PinStateLoadable
SYMMETRY ClientSymmetry
