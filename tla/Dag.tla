-------------------------------- MODULE Dag --------------------------------
(***************************************************************************)
(* The merkle dag.  A block is named by the hash of its content, so what a *)
(* name links to never changes: Links is a constant, and the only thing    *)
(* that varies is which blocks the local blockstore holds.                 *)
(***************************************************************************)
EXTENDS FiniteSets

CONSTANTS
    Block,          \* the names (cids) of the data blocks
    Links           \* Links[b]: the blocks that block b links to

ASSUME LinksAssumption == Links \in [Block -> SUBSET Block]

(***************************************************************************)
(* dag.EnumerateChildren as gc.Descendants calls it, with the visit        *)
(* function of a set that already holds seen: every root is added and its  *)
(* links are followed whatever seen says; any other block is added, and    *)
(* its links followed, only the first time it is met.  getLinks yields no  *)
(* links for a block the store does not hold (the callers count the error  *)
(* and go on).  The result is the least set that contains seen and roots   *)
(* and is closed under the links the walk follows.                         *)
(***************************************************************************)
WalkClosed(S, store, seen, roots) ==
    /\ seen \cup roots \subseteq S
    /\ \A b \in (S \ seen) \cup roots : b \in store => Links[b] \subseteq S

Descendants(store, seen, roots) ==
    {b \in Block : \A S \in SUBSET Block :
                       WalkClosed(S, store, seen, roots) => b \in S}

\* The blocks whose links the walk asks for.
Walked(store, seen, roots) ==
    (Descendants(store, seen, roots) \ seen) \cup roots

\* A strict walk fails when it meets a block the store does not hold.
WalkFails(store, seen, roots) ==
    ~(Walked(store, seen, roots) \subseteq store)

(***************************************************************************)
(* The graph below a block, the block included: what a recursive pin keeps *)
(* (mdag.FetchGraph fetches it, pin verify walks it).                      *)
(***************************************************************************)
Graph == [b \in Block |-> Descendants(Block, {}, {b})]

GraphOf(S) == UNION {Graph[b] : b \in S}

============================================================================
