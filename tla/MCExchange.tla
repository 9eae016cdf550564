----------------------------- MODULE MCExchange -----------------------------
(***************************************************************************)
(* The instances of the parts that ask for blocks and announce them: the   *)
(* want manager (WantManager), the queue of keys to provide, the search    *)
(* for providers and the reprovider (Providing), and the block service and *)
(* the filestore (Blocks).                                                 *)
(*                                                                         *)
(* The parts do not share state.  Each behaviour runs one of them, chosen  *)
(* at its start.  WantManager and Providing, which this module extends,    *)
(* stay in an initial state when they are not run; the variables of the    *)
(* others are out of use.                                                  *)
(***************************************************************************)
EXTENDS WantManager, Providing, TLC

CONSTANTS Units

VARIABLES unit,
          bstore, exchange, checkFirst, putter, getter, remover, announced,
          unsaid, deaths,
          allow, main, refs, files, put, lister, readable, poisoned, edits,
          deletes

\* Two calls of GetBlocks that want the same key; k2 is below k1, k3 is refused.
CallKeys == ("r1" :> <<"k1", "k2">>) @@ ("r2" :> <<"k1">>)
KidsOf == ("k1" :> {"k2"}) @@ ("k2" :> {}) @@ ("k3" :> {})

\* Blocks put twice, got from a peer, removed; u is refused.
PutsOf == ("p1" :> {<<"x", "y">>}) @@ ("p2" :> {<<"x">>})
OptionOf(v, f, m) == [via |-> v, format |-> f, mhtype |-> m]

\* A file of two chunks and a URL, and what is put from them or without them.
FirstOf == ("f" :> <<"c1", "c2">>) @@ ("u" :> <<"c2">>)
RefOp(c, p, i) == [chunk |-> c, path |-> p, at |-> i]
RefsOf == ("p1" :> {RefOp("c1", "f", 1), RefOp("c2", "f", 2)})
       @@ ("p2" :> {RefOp("c1", "none", 0), RefOp("c2", "u", 1)})

B == INSTANCE Blocks WITH
    Unsafe <- {"u"}, Remote <- {"y", "u"}, Pinned <- {"p"},
    BPutter <- {"p1", "p2"}, PutLists <- PutsOf, GetLists <- {<<"u", "y">>},
    RmLists <- {<<"x">>, <<"p">>},
    PutOpts <- {OptionOf("api", "unset", "sha3"), OptionOf("cmd", "v0", "sha3")},
    MaxDeaths <- 1, Chunk <- {"c1", "c2"}, File <- {"f"}, Url <- {"u"},
    FirstFiles <- FirstOf, NewContents <- {<<>>, <<"c2">>},
    Configs <- {{"urls"}, {"files"}}, Putter <- {"p1", "p2"},
    PutOps <- RefsOf, MaxFileEdits <- 1, MaxDeletes <- 1

BlocksVars == <<bstore, exchange, checkFirst, putter, getter, remover,
                announced, unsaid, deaths>>
FilestoreVars == <<allow, main, refs, files, put, lister, readable, poisoned,
                   edits, deletes>>

\* The variables of a part that is not the one being run.
BlocksIdle ==
    /\ bstore = 0 /\ exchange = 0 /\ checkFirst = 0 /\ putter = 0
    /\ getter = 0 /\ remover = 0 /\ announced = 0 /\ unsaid = 0 /\ deaths = 0
FilestoreIdle ==
    /\ allow = 0 /\ main = 0 /\ refs = 0 /\ files = 0 /\ put = 0
    /\ lister = 0 /\ readable = 0 /\ poisoned = 0 /\ edits = 0 /\ deletes = 0

\* One part is run at a time; the others keep still.
SuiteInit ==
    /\ unit \in Units
    /\ Init
    /\ PqInit
    /\ PrInit
    /\ IF unit = "reprovide" THEN RpInit ELSE (RpInit /\ strat = "all")
    /\ IF unit = "blocks" THEN B!BkInit ELSE BlocksIdle
    /\ IF unit = "filestore" THEN B!FsInit ELSE FilestoreIdle

Rest(u) ==
    /\ UNCHANGED unit
    /\ IF u \in {"wants"} THEN TRUE ELSE UNCHANGED vars
    /\ IF u \in {"queue"} THEN TRUE ELSE UNCHANGED pqVars
    /\ IF u \in {"search"} THEN TRUE ELSE UNCHANGED prVars
    /\ IF u \in {"reprovide"} THEN TRUE ELSE UNCHANGED rpvars
    /\ IF u = "blocks" THEN TRUE ELSE UNCHANGED BlocksVars
    /\ IF u = "filestore" THEN TRUE ELSE UNCHANGED FilestoreVars

WantsStep == unit = "wants" /\ Next /\ Rest("wants")
QueueStep == unit = "queue" /\ PqNext /\ Rest("queue")
SearchStep == unit = "search" /\ PrNext /\ Rest("search")
ReprovideStep == unit = "reprovide" /\ RpNext /\ Rest("reprovide")
BlocksStep == unit = "blocks" /\ B!BkNext /\ Rest("blocks")
FilestoreStep == unit = "filestore" /\ B!FsNext /\ Rest("filestore")

SuiteNext ==
    \/ WantsStep \/ QueueStep \/ SearchStep \/ ReprovideStep \/ BlocksStep
    \/ FilestoreStep

suiteVars == <<unit, vars, pqVars, prVars, rpvars, BlocksVars, FilestoreVars>>

SuiteSpec == SuiteInit /\ [][SuiteNext]_suiteVars

-----------------------------------------------------------------------------
\* A block that is stored is announced, whatever is removed, refused or ended
\* in between; a block that AddBlock reported is there until it is removed;
\* GetBlocks passes on what it was asked for and checked, each once; block rm
\* reports what it could not remove, and block put gives the CID its options
\* name.  A reference the filestore took can be read until its file changes,
\* what is read is what was put, and a listing that overlaps no change shows
\* every block.  Each conjunct is explained, with its exceptions, where it is
\* defined.
BlocksSound ==
    /\ unit = "blocks" =>
           /\ B!StoredAnnounced /\ B!AddKept /\ B!GotExact /\ B!RmReported
           /\ B!VersionSound
    /\ unit = "filestore" =>
           /\ B!PutReadable /\ B!GetSound /\ B!ListComplete
=============================================================================
