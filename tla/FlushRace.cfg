SPECIFICATION Spec
CONSTANTS
    r = r
    m = m
    l = l
    Block = {r, m, l}
    Links <- MCLinks
    Target = {r}
    Client = {c1, c2}
    NoClient = NoClient
    NoBlock = NoBlock
    NoState = NoState
    Ops = {"pinAdd", "pinRm", "gc"}
INVARIANTS PinStateLoadable
SYMMETRY ClientSymmetry
