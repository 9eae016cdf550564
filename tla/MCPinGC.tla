------------------------------ MODULE MCPinGC ------------------------------
(***************************************************************************)
(* Instances of PinGC.  In the chain r links to m and m to l, so that a    *)
(* command can name a root, and an inner block that the root's pin covers. *)
(* The pair has a root r and the block m it links to.                      *)
(***************************************************************************)
EXTENDS PinGC, TLC

CONSTANTS r, m, l

ClientSymmetry == Permutations(Client)

MCLinks == (r :> {m}) @@ (m :> {l}) @@ (l :> {})

MCPairLinks == (r :> {m}) @@ (m :> {})
============================================================================
