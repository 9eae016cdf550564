---------------------------- MODULE PinCommands -----------------------------
(***************************************************************************)
(* The commands on pins (core/commands/pin.go, core/coreapi/pin.go,        *)
(* core/corerepo/pinning.go): what 'pin ls' and 'pin verify' say of the    *)
(* pins and the blocks, and 'pin add', which with --progress pins in a     *)
(* goroutine while the command, which holds the PinLock, reports.          *)
(***************************************************************************)
EXTENDS Naturals, Sequences, FiniteSets, SequencesExt

CONSTANTS PcKey,        \* blocks
          PcLinks,      \* the links of each block
          PcUnsafe,     \* blocks whose hash function verifcid refuses
          PcRoots,      \* blocks that are pinned and unpinned
          PcFirst,      \* sets of recursive pins an earlier version has left
          PcLossy       \* blocks the disk may lose

VARIABLES pblocks,      \* the blockstore
          prec, pdirect,\* the recursive and the direct pins
          padd,         \* 'pin add': the command, its goroutine and what they agreed on
          pclient,      \* "reads" or "gone": the client of 'pin add', and its context
          pgc,          \* the collector: "idle", or "marked" with the marked set
          swept,        \* history: blocks a collection took
          orphan        \* history: the goroutine outlived its command

pcvars == <<pblocks, prec, pdirect, padd, pclient, pgc, swept, orphan>>

RECURSIVE Tree(_)
Tree(k) == {k} \cup UNION {Tree(PcLinks[k][i]) : i \in 1..Len(PcLinks[k])}
Below(k) == UNION {Tree(PcLinks[k][i]) : i \in 1..Len(PcLinks[k])}

\* getLinks: the blockservice refuses an unsafe hash.
HasLinks(k) == k \in pblocks /\ k \notin PcUnsafe

-----------------------------------------------------------------------------
(* pin ls                                                                  *)

\* merkledag.EnumerateChildren, with the visited set.
RECURSIVE EnumerateChildren(_, _)
EnumerateChildren(k, r) ==
    LET visit(s, c) == IF c \in s.set \/ ~s.ok THEN s
                       ELSE EnumerateChildren(c, [s EXCEPT !.set = @ \cup {c}])
    IN  IF HasLinks(k) THEN FoldLeft(visit, r, PcLinks[k]) ELSE [r EXCEPT !.ok = FALSE]

Indirect == LET enter(k, r) == IF r.ok THEN EnumerateChildren(k, r) ELSE r
            IN  FoldSet(enter, [ok |-> TRUE, set |-> {}], prec)

\* pinLsAll: the later type wins.  An error is an empty list that is not ok.
Types(t) == IF t = "all" THEN {"direct", "indirect", "recursive"} ELSE {t}
TypeSwapped(k, t) == IF k \in Indirect.set /\ "indirect" \in Types(t) THEN "indirect"
                     ELSE IF k \in prec /\ "recursive" \in Types(t) THEN "recursive" ELSE "direct"
TypeOf(k, t) == IF k \in prec /\ "recursive" \in Types(t) THEN "recursive"
                ELSE IF k \in Indirect.set /\ "indirect" \in Types(t) THEN "indirect" ELSE "direct"
pinLsAll(t) ==
    LET keys == UNION {CASE s = "direct" -> pdirect [] s = "recursive" -> prec [] OTHER -> Indirect.set
                       : s \in Types(t)}
    IN  [ok |-> "indirect" \notin Types(t) \/ Indirect.ok, keys |-> [k \in keys |-> TypeOf(k, t)]]

\* hasChild: "yes", "no" or "err", with the blocks it has visited.
RECURSIVE HasChild(_, _, _)
HasChild(k, c, r) ==
    LET step(s, l) == IF s.has # "no" THEN s
                      ELSE IF l = c THEN [s EXCEPT !.has = "yes"]
                      ELSE IF l \in s.set THEN s
                      ELSE HasChild(l, c, [s EXCEPT !.set = @ \cup {l}])
    IN  IF HasLinks(k) THEN FoldLeft(step, r, PcLinks[k]) ELSE [r EXCEPT !.has = "err"]

\* isPinnedWithType, which walks the recursive pins in the order of a map.
isPinnedWithType(k, t, order) ==
    LET walk(s, root) == IF s.has # "no" THEN s ELSE HasChild(root, k, s)
    IN  CASE t \in {"recursive", "all"} /\ k \in prec -> "recursive"
          [] t \in {"direct", "all"} /\ k \in pdirect -> "direct"
          [] t \in {"recursive", "direct"} -> "no"
          [] OTHER -> LET has == FoldLeft(walk, [has |-> "no", set |-> {}], order).has
                      IN IF has = "yes" THEN "indirect" ELSE has

\* pinLsKeys fails when one of the keys is not pinned.
pinLsKeys(keys, t, order) ==
    LET said == [k \in keys |-> isPinnedWithType(k, t, order)]
    IN  [ok |-> \A k \in keys : said[k] \notin {"no", "err"}, keys |-> said]

-----------------------------------------------------------------------------
(* pin verify                                                              *)

\* checkPin, with the statuses `visited` holds: the bad nodes of each key.
BadBelowFirst(visited, k) == IF PcLinks[k] = <<>> THEN {} ELSE visited[PcLinks[k][1]]
BadBelow(visited, k) == UNION {visited[PcLinks[k][i]] : i \in 1..Len(PcLinks[k])}
RECURSIVE CheckPin(_, _)
CheckPin(visited, k) ==
    IF k \in DOMAIN visited THEN visited
    ELSE IF ~HasLinks(k) THEN [x \in DOMAIN visited \cup {k} |-> IF x = k THEN {k} ELSE visited[x]]
    ELSE LET below == FoldLeft(CheckPin, visited, PcLinks[k])
         IN [x \in DOMAIN below \cup {k} |-> IF x = k THEN BadBelow(below, k) ELSE below[x]]

Visited == LET check(k, visited) == CheckPin(visited, k) IN FoldSet(check, <<>>, prec)

\* Verify of the API sends every status, pinVerify the broken ones unless asked.
ApiVerify == {<<k, Visited[k]>> : k \in prec}
pinVerify(includeOk) == {s \in ApiVerify : s[2] # {} \/ includeOk}

-----------------------------------------------------------------------------
(* pin add, pin rm, and the collector                                      *)

NoAdd == [loop |-> "idle", work |-> "idle", key |-> "none", recursive |-> TRUE, progress |-> FALSE]

PcInit ==
    /\ pblocks = PcKey /\ prec \in PcFirst /\ pdirect = {} /\ padd = NoAdd /\ pclient = "reads"
    /\ pgc = [pc |-> "idle", marked |-> {}]
    /\ swept = {} /\ orphan = FALSE

PinLockedNot == FALSE
PinLocked == padd.loop \in {"select", "send", "last"}
InLoop(pc) == padd' = [padd EXCEPT !.loop = pc]

\* The command takes the PinLock and starts the work.
Add(k, recursive, progress) ==
    /\ padd.loop = "idle" /\ padd.work = "idle" /\ pgc.pc = "idle"
    /\ padd' = [loop |-> "select", work |-> "resolve", key |-> k, recursive |-> recursive,
                progress |-> progress]
    /\ UNCHANGED <<pblocks, prec, pdirect, pclient, pgc, swept, orphan>>

\* corerepo.Pin, under the pinner's lock: the root is stored and taken off the direct
\* pins; the blocks are fetched, unless the context ends it; nothing is fetched for a
\* root that is pinned already, and its direct pin is refused.
Wanted == IF padd.recursive THEN Tree(padd.key) ELSE {padd.key}
FetchBlocks ==
    /\ padd.work = "resolve"
    /\ pdirect' = IF padd.recursive /\ padd.key \notin prec THEN pdirect \ {padd.key} ELSE pdirect
    /\ \E end \in {"fetched", "failed", "pinned"} :
          /\ end = "fetched" => padd.key \notin prec /\ PcUnsafe \cap Wanted = {}
          /\ end = "failed" => pclient = "gone" \/ PcUnsafe \cap Wanted # {}
                                              \/ (padd.key \in prec /\ ~padd.recursive)
          /\ end = "pinned" => padd.key \in prec /\ padd.recursive
          /\ padd' = [padd EXCEPT !.work = end]
          /\ LET stored == IF end = "fetched" THEN Wanted ELSE {padd.key}
             IN pblocks' = pblocks \cup stored /\ swept' = swept \ stored
    /\ UNCHANGED <<prec, pclient, pgc, orphan>>
Register ==
    /\ padd.work = "fetched"
    /\ IF padd.recursive THEN prec' = prec \cup {padd.key} /\ UNCHANGED pdirect
       ELSE pdirect' = pdirect \cup {padd.key} /\ UNCHANGED prec
    /\ padd' = [padd EXCEPT !.work = "pinned"]
    /\ UNCHANGED <<pblocks, pclient, pgc, swept, orphan>>
Locked == padd.work = "fetched"

\* The loop of the command: the result, a tick, the context.
AfterSuccess == IF padd.work = "pinned" THEN (IF padd.progress THEN "last" ELSE "returned") ELSE "select"
AfterResult == IF padd.work = "pinned" /\ padd.progress THEN "last" ELSE "returned"
Result ==
    /\ padd.loop = "select" /\ padd.work \in {"pinned", "failed"}
    /\ InLoop(AfterResult)
    /\ UNCHANGED <<pblocks, prec, pdirect, pclient, pgc, swept, orphan>>
Tick ==
    /\ padd.loop = "select" /\ padd.progress
    /\ InLoop("send")
    /\ UNCHANGED <<pblocks, prec, pdirect, pclient, pgc, swept, orphan>>
SeesDone == padd.progress /\ pclient = "gone"
ContextDone ==
    /\ padd.loop = "select" /\ SeesDone
    /\ InLoop("returned") /\ orphan' = (orphan \/ padd.work \in {"resolve", "fetched"})
    /\ UNCHANGED <<pblocks, prec, pdirect, pclient, pgc, swept>>
\* out <- ...: the client takes it.
ClientReads ==
    /\ pclient = "reads" /\ padd.loop \in {"send", "last"}
    /\ InLoop(IF padd.loop = "send" THEN "select" ELSE "returned")
    /\ UNCHANGED <<pblocks, prec, pdirect, pclient, pgc, swept, orphan>>
ClientLeaves ==
    /\ pclient = "reads" /\ padd.loop # "idle"
    /\ pclient' = "gone"
    /\ UNCHANGED <<pblocks, prec, pdirect, padd, pgc, swept, orphan>>
\* The command and its goroutine have ended; the next one has a client of its own.
AddEnded ==
    /\ padd.loop = "returned" /\ padd.work \in {"pinned", "failed"}
    /\ padd' = NoAdd /\ pclient' = "reads"
    /\ UNCHANGED <<pblocks, prec, pdirect, pgc, swept, orphan>>

\* pin rm
Unpin(k, recursive) ==
    /\ ~Locked
    /\ IF recursive THEN k \in prec /\ prec' = prec \ {k} /\ UNCHANGED pdirect
       ELSE k \in pdirect /\ pdirect' = pdirect \ {k} /\ UNCHANGED prec
    /\ UNCHANGED <<pblocks, padd, pclient, pgc, swept, orphan>>

\* A collection, under the GCLock: the pins are read, and what is not below them swept.
Mark ==
    /\ pgc.pc = "idle" /\ ~PinLocked
    /\ pgc' = [pc |-> "marked", marked |-> pdirect \cup UNION {Tree(k) : k \in prec}]
    /\ UNCHANGED <<pblocks, prec, pdirect, padd, pclient, swept, orphan>>
Sweep ==
    /\ pgc.pc = "marked"
    /\ pblocks' = pblocks \cap pgc.marked /\ swept' = swept \cup (pblocks \ pgc.marked)
    /\ pgc' = [pc |-> "idle", marked |-> {}]
    /\ UNCHANGED <<prec, pdirect, padd, pclient, orphan>>

LoseBlock(k) ==
    /\ pblocks' = pblocks \ {k}
    /\ UNCHANGED <<prec, pdirect, padd, pclient, pgc, swept, orphan>>

Loop == Result \/ Tick \/ ContextDone
Work == FetchBlocks \/ Register
PcNext ==
    \/ \E k \in PcRoots, recursive, progress \in BOOLEAN : Add(k, recursive, progress)
    \/ \E k \in PcRoots, recursive \in BOOLEAN : Unpin(k, recursive)
    \/ \E k \in PcLossy : LoseBlock(k)
    \/ Loop \/ Work \/ ClientReads \/ ClientLeaves \/ AddEnded \/ Mark \/ Sweep
PcSpec == PcInit /\ [][PcNext]_pcvars

\* The command, its goroutine and the client run; of the ready cases of a select
\* each is taken in the end.
PcFairSpec == PcSpec /\ WF_pcvars(Work) /\ SF_pcvars(Result) /\ SF_pcvars(ContextDone)
                     /\ WF_pcvars(ClientReads) /\ WF_pcvars(AddEnded)

-----------------------------------------------------------------------------
(* Properties                                                              *)

\* 'pin ls' and 'pin ls <key>' agree, for every type and in whatever order the pins
\* are walked: the list holds a key exactly when the question about it is answered,
\* and with the same type; except that of a block pinned directly and by an ancestor
\* the list of all says "indirect" and the answer "direct".
LsAgrees ==
    \A t \in {"all", "direct", "indirect", "recursive"} : pinLsAll(t).ok =>
        \A k \in PcKey, order \in SetToSeqs(prec) :
            LET said == pinLsKeys({k}, t, order)
                listed == pinLsAll(t).keys
            IN  /\ said.ok <=> k \in DOMAIN listed
                /\ said.ok => \/ said.keys[k] = listed[k]
                              \/ t = "all" /\ k \in pdirect /\ said.keys[k] = "direct"

\* 'pin verify' reports a pin as complete exactly when every block below it can be
\* read, and otherwise names every block where the walk stops, also below a node that
\* another pin shares.
RECURSIVE Stopped(_)
Stopped(k) == IF ~HasLinks(k) THEN {k} ELSE UNION {Stopped(PcLinks[k][i]) : i \in 1..Len(PcLinks[k])}
VerifyExact ==
    /\ \A s \in ApiVerify : s[2] = Stopped(s[1])
    /\ {s[1] : s \in pinVerify(FALSE)} = {k \in prec : ~(Tree(k) \subseteq pblocks \ PcUnsafe)}

\* What 'pin add' has pinned is not collected under its hands: the PinLock covers the
\* time from the fetch to the pin.  The exception is 'pin add --progress' whose client
\* leaves: the command gives the lock back while its goroutine goes on to pin.
PinHeld == ~orphan => \A k \in prec : swept \cap Tree(k) = {}
\* ... which the code does not guarantee without it.
PinHeldAlways == \A k \in prec : swept \cap Tree(k) = {}

\* 'pin add' gives the PinLock back, unless its client leaves while it is sending.
PinLockFreed == PinLocked ~> (~PinLocked \/ (pclient = "gone" /\ padd.loop \in {"send", "last"}))

=============================================================================
