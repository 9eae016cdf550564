------------------------------ MODULE PinStore ------------------------------
(***************************************************************************)
(* What pinning promises, without locks, commands or steps inside them.    *)
(* Blocks come at any time.  A root is pinned recursively only when all of *)
(* its graph is there, and a block goes only when no pin keeps it.         *)
(***************************************************************************)
EXTENDS Dag

VARIABLES
    blocks,         \* the blocks held
    rec,            \* the recursive pins
    dir             \* the direct pins

pinStoreVars == <<blocks, rec, dir>>

Kept == GraphOf(rec) \cup dir

Init ==
    /\ blocks = {}
    /\ rec = {}
    /\ dir = {}

Arrive ==
    /\ blocks' \in SUBSET Block
    /\ blocks \subseteq blocks'
    /\ UNCHANGED <<rec, dir>>

PinGraph(b) ==
    /\ Graph[b] \subseteq blocks
    /\ rec' = rec \cup {b}
    /\ UNCHANGED <<blocks, dir>>

PinBlock(b) ==
    /\ dir' = dir \cup {b}
    /\ blocks' = blocks \cup {b}
    /\ UNCHANGED rec

UnpinGraph(b) ==
    /\ rec' = rec \ {b}
    /\ UNCHANGED <<blocks, dir>>

\* A block that is to be pinned recursively loses its direct pin first, and
\* may arrive in the same step.
UnpinBlock(b) ==
    /\ dir' = dir \ {b}
    /\ blocks' \in {blocks, blocks \cup {b}}
    /\ UNCHANGED rec

Remove(b) ==
    /\ b \notin Kept
    /\ blocks' = blocks \ {b}
    /\ UNCHANGED <<rec, dir>>

Next ==
    \/ Arrive
    \/ \E b \in Block : \/ PinGraph(b) \/ PinBlock(b) \/ Remove(b)
                        \/ UnpinGraph(b) \/ UnpinBlock(b)

Spec == Init /\ [][Next]_pinStoreVars
============================================================================
