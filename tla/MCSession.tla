----------------------------- MODULE MCSession -----------------------------
(***************************************************************************)
(* The instances of Session that are model-checked.                        *)
(***************************************************************************)
EXTENDS Session

CONSTANTS k, l, m

\* Calls that overlap, as two walks of one DAG do.
Overlapping == {<<k, l>>, <<m, l>>}

SessionSymmetry == Permutations(Caller) \cup Permutations(Receiver)
============================================================================
