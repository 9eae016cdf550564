---------------------------- MODULE PinGCProofs ----------------------------
(***************************************************************************)
(* Proofs about PinGC, for every dag, every set of clients and every set   *)
(* of commands that a theorem admits.                                      *)
(***************************************************************************)
EXTENDS PinGC, TLAPS

(***************************************************************************)
(* The walk over the dag.                                                  *)
(***************************************************************************)

\* What a walk returns is a set of blocks.
LEMMA DescendantsType ==
    ASSUME NEW st, NEW seen, NEW roots
    PROVE  Descendants(st, seen, roots) \subseteq Block
BY Zenon DEF Descendants

\* The blocks a walk returns are closed under the links it follows.
LEMMA DescendantsClosed ==
    ASSUME NEW st, NEW seen \in SUBSET Block, NEW roots \in SUBSET Block
    PROVE  WalkClosed(Descendants(st, seen, roots), st, seen, roots)
<1> DEFINE D == Descendants(st, seen, roots)
<1>1. seen \cup roots \subseteq D
    BY Zenon DEF Descendants, WalkClosed
<1>2. ASSUME NEW b \in (D \ seen) \cup roots, b \in st, NEW x \in Links[b]
      PROVE  x \in D
    <2>1. b \in Block /\ x \in Block
        BY Zenon, <1>2, DescendantsType, LinksAssumption
    <2>2. ASSUME NEW S \in SUBSET Block, WalkClosed(S, st, seen, roots)
          PROVE  x \in S
        <3>1. b \in (S \ seen) \cup roots
            BY Zenon, <1>2, <2>2 DEF Descendants
        <3> QED
            BY Zenon, <1>2, <2>2, <3>1 DEF WalkClosed
    <2> QED
        BY Zenon, <2>1, <2>2 DEF Descendants
<1> QED
    BY Zenon, <1>1, <1>2 DEF WalkClosed

\* A walk returns at least what had been seen before.
LEMMA DescendantsGrow ==
    ASSUME NEW st, NEW seen \in SUBSET Block, NEW roots
    PROVE  seen \subseteq Descendants(st, seen, roots)
BY Zenon DEF Descendants, WalkClosed

\* A set of blocks that is closed under all links and holds b holds the
\* graph below b.
LEMMA GraphLeast ==
    ASSUME NEW b \in Block, NEW S \in SUBSET Block, b \in S,
           \A x \in S : Links[x] \subseteq S
    PROVE  Graph[b] \subseteq S
<1>1. WalkClosed(S, Block, {}, {b})
    BY Zenon DEF WalkClosed
<1> QED
    BY Zenon, <1>1 DEF Graph, Descendants

\* The graph below a block is a set of blocks, and holds the block.
LEMMA GraphType ==
    ASSUME NEW b \in Block
    PROVE  /\ Graph[b] \subseteq Block
           /\ b \in Graph[b]
BY Zenon DEF Graph, Descendants, WalkClosed

\* A strict walk that does not fail marks the graphs of all its roots.
LEMMA MarkComplete ==
    ASSUME NEW st, NEW roots \in SUBSET Block,
           ~WalkFails(st, {}, roots)
    PROVE  GraphOf(roots) \subseteq Descendants(st, {}, roots)
<1> DEFINE D == Descendants(st, {}, roots)
<1>1. WalkClosed(D, st, {}, roots)
    BY Zenon, DescendantsClosed
<1>2. D \subseteq st
    BY Zenon DEF WalkFails, Walked
<1>3. \A x \in D : Links[x] \subseteq D
    BY Zenon, <1>1, <1>2 DEF WalkClosed
<1>4. roots \subseteq D /\ D \in SUBSET Block
    BY Zenon, <1>1, DescendantsType DEF WalkClosed
<1>5. \A b \in roots : Graph[b] \subseteq D
    BY Zenon, <1>3, <1>4, GraphLeast
<1> QED
    BY Zenon, <1>5 DEF GraphOf

(***************************************************************************)
(* Type correctness.  The block a fetching command works on is a block.    *)
(***************************************************************************)
WorksOnBlock == {"fetch", "fetched", "update", "updated", "filesAdded", "delete"}

JobsTyped ==
    \A c \in Client : /\ pc[c] \in WorksOnBlock => job[c].blk \in Block
                      /\ pc[c] \in {"update", "updated"} => job[c].to \in Block

TypeInv == TypeOK /\ JobsTyped

\* Marking sets the set and the errors of one job.
LEMMA MarkType ==
    ASSUME job \in [Client -> Job], NEW c \in Client,
           NEW STATE marked, marked \in SUBSET Block,
           NEW STATE errs, errs \in SUBSET Options,
           job' = [job EXCEPT ![c] = [job[c] EXCEPT !.set = marked,
                                                    !.opts = @ \cup errs]]
    PROVE  job' \in [Client -> Job]
<1> DEFINE new == [job[c] EXCEPT !.set = marked, !.opts = @ \cup errs]
<1>1. job[c] \in Job
    OBVIOUS
<1>2. new \in Job
    BY ZenonT(30), <1>1 DEF Job
<1>3. job' = [job EXCEPT ![c] = new]
    OBVIOUS
<1> HIDE DEF new
<1> QED
    BY <1>2, <1>3

\* TypeInv is inductive.
LEMMA TypeInvStep == TypeInv /\ [Next]_vars => TypeInv'
<1> SUFFICES ASSUME TypeInv, [Next]_vars PROVE TypeInv'
    OBVIOUS
<1> USE ConstAssumption, ClientAssumption
    DEF TypeInv, TypeOK, JobsTyped, WorksOnBlock, Job, NoJob, Options, AllOps,
         LockTypeOK, PC, Goto, blockVars, pinVars, lockVars
<1>1. ASSUME NEW c \in Client, PinAdd(c) PROVE TypeInv'
    <2>1. PICK op \in PinOps, opts \in SUBSET {"recursive"} :
              Start(c, op, "pin", [NoJob EXCEPT !.op = op, !.opts = opts])
        BY Zenon, <1>1 DEF PinAdd
    <2>2. op \in AllOps
        BY Zenon DEF PinOps
    <2>3. job' \in [Client -> Job]
        BY ZenonT(30), <2>1, <2>2 DEF Start
    <2> QED
        BY <1>1, <2>1, <2>3 DEF PinAdd, Start, PinLock
<1>2. ASSUME NEW c \in Client, PinRm(c) PROVE TypeInv'
    <2>1. PICK opts \in SUBSET {"recursive"} :
              Start(c, "pinRm", "unpin",
                    [NoJob EXCEPT !.op = "pinRm", !.opts = opts])
        BY Zenon, <1>2 DEF PinRm
    <2>2. job' \in [Client -> Job]
        BY Zenon, <2>1 DEF Start
    <2> QED
        BY <1>2, <2>1, <2>2 DEF PinRm, Start
<1>3. ASSUME NEW c \in Client, PinUpdate(c) PROVE TypeInv'
    <2>1. PICK from \in Target \cap recursePin, to \in Target,
               opts \in SUBSET {"unpin"} :
              Start(c, "pinUpdate", "update",
                    [NoJob EXCEPT !.op = "pinUpdate", !.blk = from,
                                  !.to = to, !.opts = opts])
        BY Zenon, <1>3 DEF PinUpdate
    <2>2. job' \in [Client -> Job]
        BY Zenon, <2>1 DEF Start
    <2> QED
        BY <1>3, <2>1, <2>2 DEF PinUpdate, Start
<1>4. ASSUME NEW c \in Client, GarbageCollect(c) PROVE TypeInv'
    BY ZenonT(60), <1>4 DEF GarbageCollect, Start, GCLockRequest
<1>5. ASSUME NEW c \in Client, BlockRm(c) PROVE TypeInv'
    <2>1. PICK S \in (SUBSET Target) \ {{}} :
              Start(c, "blockRm", "rmLock",
                    [NoJob EXCEPT !.op = "blockRm", !.set = S])
        BY Zenon, <1>5 DEF BlockRm
    <2>2. job' \in [Client -> Job]
        BY Zenon, <2>1 DEF Start
    <2> QED
        BY <1>5, <2>1, <2>2 DEF BlockRm, Start, GCLockRequest
<1>6. ASSUME NEW c \in Client, RepoRm(c) PROVE TypeInv'
    <2>1. PICK S \in (SUBSET Target) \ {{}}, opts \in SUBSET {"recursive"} :
              Start(c, "repoRm", "removeLock",
                    [NoJob EXCEPT !.op = "repoRm", !.set = S,
                                  !.opts = opts \cup {"checkPined"}])
        BY Zenon, <1>6 DEF RepoRm
    <2>2. job' \in [Client -> Job]
        BY Zenon, <2>1 DEF Start
    <2> QED
        BY <1>6, <2>1, <2>2 DEF RepoRm, Start, GCLockRequest
<1>7. ASSUME NEW c \in Client, FilesAdd(c) PROVE TypeInv'
    <2>1. PICK b \in Target :
              /\ Start(c, "files", "filesAdded",
                       [NoJob EXCEPT !.op = "files", !.blk = b])
              /\ store' = store \cup Graph[b]
        BY Zenon, <1>7 DEF FilesAdd
    <2>2. job' \in [Client -> Job]
        BY Zenon, <2>1 DEF Start
    <2> QED
        BY <1>7, <2>1, <2>2, GraphType DEF FilesAdd, Start
<1>8. ASSUME NEW c \in Client, GCLocked(c) PROVE TypeInv'
    BY <1>8 DEF GCLocked, GCLock
<1>9. ASSUME NEW c \in Client, RmLocked(c) PROVE TypeInv'
    BY <1>9 DEF RmLocked, GCLock
<1>10. ASSUME NEW c \in Client, RemoveLocked(c) PROVE TypeInv'
    BY <1>10, DescendantsType DEF RemoveLocked, GCLock
<1>11. ASSUME NEW c \in Client, FetchGraph(c) PROVE TypeInv'
    BY <1>11, GraphType DEF FetchGraph
<1>12. ASSUME NEW c \in Client, FetchGraphFails(c) PROVE TypeInv'
    BY <1>12, GraphType DEF FetchGraphFails
<1>13. ASSUME NEW c \in Client, PinRecursiveDone(c) PROVE TypeInv'
    BY SMTT(30), <1>13 DEF PinRecursiveDone
<1>14. ASSUME NEW c \in Client, FlushPut(c) PROVE TypeInv'
    <2>1. /\ pc' \in [Client -> PC]
          /\ job' \in [Client -> Job]
          /\ \A d \in Client : /\ pc'[d] \in WorksOnBlock => pc'[d] = pc[d]
                               /\ pc'[d] \in WorksOnBlock => job'[d] = job[d]
        <3>1. AfterFlush(c, TRUE)
            BY Zenon, <1>14 DEF FlushPut
        <3>2. CASE Goto(c, "unlock") /\ UNCHANGED job
            BY <3>2
        <3>3. CASE Return(c)
            BY <3>3 DEF Return
        <3>4. CASE Goto(c, "clear") /\ job' = [job EXCEPT ![c].op = "clear"]
            <4>1. job \in [Client -> Job] /\ [job[c] EXCEPT !.op = "clear"] \in Job
                OBVIOUS
            <4>2. job' \in [Client -> Job]
                BY <3>4, <4>1
            <4> QED
                BY <3>4, <4>2
        <3> QED
            BY Zenon, <3>1, <3>2, <3>3, <3>4 DEF AfterFlush
    <2> QED
        BY Zenon, <1>14, <2>1 DEF FlushPut, DropGarbage, Pins, PinState
<1>15. ASSUME NEW c \in Client, FlushFails(c) PROVE TypeInv'
    <2>1. /\ pc' \in [Client -> PC]
          /\ job' \in [Client -> Job]
          /\ \A d \in Client : /\ pc'[d] \in WorksOnBlock => pc'[d] = pc[d]
                               /\ pc'[d] \in WorksOnBlock => job'[d] = job[d]
        BY <1>15 DEF FlushFails, AfterFlush, Return
    <2> QED
        BY Zenon, <1>15, <2>1 DEF FlushFails, DropGarbage, PinState
<1>16. ASSUME NEW c \in Client, PinAddReturn(c) PROVE TypeInv'
    BY <1>16 DEF PinAddReturn, Return, PinUnlock
<1>17. ASSUME NEW c \in Client, DiffEnumerate(c) PROVE TypeInv'
    BY <1>17, GraphType DEF DiffEnumerate
<1>18. ASSUME NEW c \in Client, DiffEnumerateFails(c) PROVE TypeInv'
    BY <1>18, GraphType DEF DiffEnumerateFails, Return
<1>19. ASSUME NEW c \in Client, PinUpdateDone(c) PROVE TypeInv'
    BY <1>19 DEF PinUpdateDone, Return
<1>20. ASSUME NEW c \in Client, MarkRecursive(c) PROVE TypeInv'
    <2> DEFINE marked == Descendants(store, {}, recursePin)
               errs == IF WalkFails(store, {}, recursePin) THEN {"errors"} ELSE {}
    <2>1. marked \in SUBSET Block /\ errs \in SUBSET Options
        BY Zenon, DescendantsType
    <2>2. job' = [job EXCEPT ![c] = [job[c] EXCEPT !.set = marked,
                                                  !.opts = @ \cup errs]]
        BY Zenon, <1>20 DEF MarkRecursive, Mark
    <2>3. job \in [Client -> Job]
        OBVIOUS
    <2> HIDE DEF marked, errs
    <2>4. job' \in [Client -> Job]
        BY Zenon, <2>1, <2>2, <2>3, MarkType
    <2> QED
        BY <1>20, <2>1, <2>4 DEF MarkRecursive, Mark, marked, errs
<1>21. ASSUME NEW c \in Client, MarkBestEffort(c) PROVE TypeInv'
    <2> DEFINE marked == Descendants(store, job[c].set, {job[c].blk} \ {NoBlock})
               errs == {}
    <2>1. marked \in SUBSET Block /\ errs \in SUBSET Options
        BY DescendantsType
    <2>2. job' = [job EXCEPT ![c] = [job[c] EXCEPT !.set = marked,
                                                  !.opts = @ \cup errs]]
        BY Zenon, <1>21 DEF MarkBestEffort, Mark
    <2>3. job \in [Client -> Job]
        OBVIOUS
    <2> HIDE DEF marked, errs
    <2>4. job' \in [Client -> Job]
        BY Zenon, <2>1, <2>2, <2>3, MarkType
    <2> QED
        BY <1>21, <2>1, <2>4 DEF MarkBestEffort, Mark, marked, errs
<1>22. ASSUME NEW c \in Client, MarkDirect(c) PROVE TypeInv'
    <2> DEFINE marked == job[c].set \cup directPin
               errs == {}
    <2>1. marked \in SUBSET Block /\ errs \in SUBSET Options
        BY Zenon, DescendantsType
    <2>2. job' = [job EXCEPT ![c] = [job[c] EXCEPT !.set = marked,
                                                  !.opts = @ \cup errs]]
        BY Zenon, <1>22 DEF MarkDirect, Mark
    <2>3. job \in [Client -> Job]
        OBVIOUS
    <2> HIDE DEF marked, errs
    <2>4. job' \in [Client -> Job]
        BY Zenon, <2>1, <2>2, <2>3, MarkType
    <2> QED
        BY <1>22, <2>1, <2>4 DEF MarkDirect, Mark, marked, errs
<1>23. ASSUME NEW c \in Client, MarkInternal(c) PROVE TypeInv'
    BY SMTT(30), <1>23, DescendantsType DEF MarkInternal, Return, GCUnlock
<1>24. ASSUME NEW c \in Client, SweepBlock(c) PROVE TypeInv'
    BY Zenon, <1>24 DEF SweepBlock
<1>25. ASSUME NEW c \in Client, SweepPinNode(c) PROVE TypeInv'
    BY Zenon, <1>25 DEF SweepPinNode
<1>26. ASSUME NEW c \in Client, GCReturn(c) PROVE TypeInv'
    BY <1>26 DEF GCReturn, Return, GCUnlock
<1>27. ASSUME NEW c \in Client, FilterPinned(c) PROVE TypeInv'
    BY SMTT(30), <1>27 DEF FilterPinned
<1>28. ASSUME NEW c \in Client, RmBlock(c) PROVE TypeInv'
    <2>1. job' \in [Client -> Job]
        BY <1>28 DEF RmBlock
    <2> QED
        BY <1>28, <2>1 DEF RmBlock
<1>29. ASSUME NEW c \in Client, RmReturn(c) PROVE TypeInv'
    BY <1>29 DEF RmReturn, Return, GCUnlock
<1>30. ASSUME NEW c \in Client, Clear(c) PROVE TypeInv'
    BY <1>30 DEF Clear, GCLockRequest
<1>31. ASSUME NEW c \in Client, RemoveCheck(c) PROVE TypeInv'
    <2>1. PICK b \in job[c].set :
              job' = [job EXCEPT ![c] = [job[c] EXCEPT !.set = @ \ {b}, !.blk = b]]
        BY Zenon, <1>31 DEF RemoveCheck
    <2>2. b \in Block /\ job[c].set \ {b} \in SUBSET Block
        BY Zenon, <2>1
    <2>4. job' \in [Client -> Job]
        <3>1. [job[c] EXCEPT !.set = @ \ {b}, !.blk = b] \in Job
            <4>1. job[c] \in Job
                OBVIOUS
            <4> HIDE ConstAssumption, ClientAssumption
                DEF TypeInv, TypeOK, JobsTyped, WorksOnBlock, Options,
                    AllOps, LockTypeOK, PC
            <4> QED
                BY Zenon, <4>1, <2>2
        <3>2. [job EXCEPT ![c] = [job[c] EXCEPT !.set = @ \ {b}, !.blk = b]]
                  \in [Client -> Job]
            BY Zenon, <3>1
        <3> QED
            BY <2>1, <3>2, Zenon
    <2>3. pc' \in [Client -> PC] /\ \A d \in Client \ {c} : pc'[d] = pc[d]
        BY <1>31 DEF RemoveCheck
    <2> QED
        BY <1>31, <2>1, <2>2, <2>3, <2>4 DEF RemoveCheck
<1>32. ASSUME NEW c \in Client, RemoveDelete(c) PROVE TypeInv'
    BY <1>32 DEF RemoveDelete
<1>33. ASSUME NEW c \in Client, RemoveReturn(c) PROVE TypeInv'
    BY <1>33 DEF RemoveReturn, Return, GCUnlock
<1>34. ASSUME NEW c \in Client, FilesFlush(c) PROVE TypeInv'
    BY <1>34 DEF FilesFlush, Return
<1>35. ASSUME NEW c \in Client, Flush(c) PROVE TypeInv'
    BY <1>35 DEF Flush, Pins, PinState
<1>36. ASSUME NEW c \in Client, PathFails(c) PROVE TypeInv'
    BY <1>36 DEF PathFails, Return
<1>37. ASSUME NEW c \in Client, PinAddCancel(c) PROVE TypeInv'
    BY <1>37 DEF PinAddCancel, PinUnlock
<1>38. ASSUME NEW c \in Client, NEW b \in Target, PinRecursive(c, b) PROVE TypeInv'
    BY SMTT(30), <1>38 DEF PinRecursive, BetweenPaths
<1>39. ASSUME NEW c \in Client, NEW b \in Target, PinDirect(c, b) PROVE TypeInv'
    BY <1>39 DEF PinDirect, BetweenPaths
<1>40. ASSUME NEW c \in Client, NEW b \in Target, Unpin(c, b) PROVE TypeInv'
    BY <1>40 DEF Unpin
<1>41. CASE PutBlock
    BY ZenonT(30), <1>41 DEF PutBlock
<1>42. CASE Restart
    BY <1>42 DEF Restart, DropGarbage, LockReset, PinState
<1>43. CASE UNCHANGED vars
    BY Zenon, <1>43 DEF vars
<1> QED
    BY ZenonT(30), <1>1, <1>2, <1>3, <1>4, <1>5, <1>6, <1>7, <1>8, <1>9,
        <1>10, <1>11, <1>12, <1>13, <1>14, <1>15, <1>16, <1>17, <1>18, <1>19,
        <1>20, <1>21, <1>22, <1>23, <1>24, <1>25, <1>26, <1>27, <1>28, <1>29,
        <1>30, <1>31, <1>32, <1>33, <1>34, <1>35, <1>36, <1>37, <1>38, <1>39,
        <1>40, <1>41, <1>42, <1>43 DEF Next, Begin, Acquire, Continue,
        LeaveLoop

\* TypeInv holds initially, and so always.
LEMMA TypeInit == Init => TypeInv
BY DEF Init, TypeInv, TypeOK, JobsTyped, WorksOnBlock, LockInit, LockTypeOK,
       PC, Job, NoJob, Options

\* Every reachable state is well typed.
LEMMA TypeInvariant == Spec => []TypeInv
BY TypeInit, TypeInvStep, PTL DEF Spec

\* Every variable keeps its type, whatever commands the clients run.
THEOREM TypeCorrect == Spec => []TypeOK
BY TypeInvariant, PTL DEF TypeInv

-----------------------------------------------------------------------------
(***************************************************************************)
(* PinnedPresent, for the commands that keep to the lock: removals check   *)
(* the pins, and what pins holds the PinLock.                              *)
(***************************************************************************)

\* No command pins without the PinLock (pin update, pin add --progress when
\* it is cancelled) or removes without looking at the pins (pin rm --clear).
Disciplined == Ops \cap {"pinProgress", "clear", "pinUpdate"} = {}

(***************************************************************************)
(* The inductive invariant.                                                *)
(***************************************************************************)
Pinning == {"pin", "pinned", "fetch", "fetched"}

Exclusive == {"markRecursive", "markBestEffort", "markDirect", "markInternal",
              "sweep", "filterPinned", "rmBlocks", "remove", "delete"}

\* Only commands of Ops run, so that every removal checks the pins.
Admitted ==
    \A c \in Client :
        /\ job[c].op \in Ops \cup {"none"}
        /\ pc[c] \notin {"clear", "update", "updated"}
        /\ pc[c] \in {"removeLock", "remove", "delete"} => "checkPined" \in job[c].opts

\* Who pins holds the PinLock, who marks or deletes holds the GCLock.
LocksHeld ==
    /\ writer # NoClient => readers = {}
    /\ \A c \in Client :
           /\ c \in rwait => pc[c] = "pin"
           /\ pc[c] \in Pinning /\ c \notin rwait => c \in readers
           /\ pc[c] \in Exclusive => writer = c

\* The commands keep to the locks.
LEMMA LocksStep ==
    ASSUME TypeInv, Admitted, LocksHeld, Disciplined, [Next]_vars
    PROVE  Admitted' /\ LocksHeld'
<1> USE ClientAssumption
    DEF TypeInv, TypeOK, LockTypeOK, Job, NoJob, Disciplined, Admitted, LocksHeld,
        Pinning, Exclusive, Goto, blockVars, pinVars, lockVars
<1>1. ASSUME NEW c \in Client, PinAdd(c) PROVE Admitted' /\ LocksHeld'
    BY <1>1 DEF PinAdd, Start, PinOps, PinLock
<1>2. ASSUME NEW c \in Client, PinRm(c) PROVE Admitted' /\ LocksHeld'
    BY <1>2 DEF PinRm, Start
<1>3. ASSUME NEW c \in Client, PinUpdate(c) PROVE Admitted' /\ LocksHeld'
    BY Zenon, <1>3 DEF PinUpdate, Start
<1>4. ASSUME NEW c \in Client, GarbageCollect(c) PROVE Admitted' /\ LocksHeld'
    BY Zenon, <1>4 DEF GarbageCollect, Start, GCLockRequest
<1>5. ASSUME NEW c \in Client, BlockRm(c) PROVE Admitted' /\ LocksHeld'
    BY <1>5 DEF BlockRm, Start, GCLockRequest
<1>6. ASSUME NEW c \in Client, RepoRm(c) PROVE Admitted' /\ LocksHeld'
    BY <1>6 DEF RepoRm, Start, GCLockRequest
<1>7. ASSUME NEW c \in Client, FilesAdd(c) PROVE Admitted' /\ LocksHeld'
    BY <1>7 DEF FilesAdd, Start
<1>8. ASSUME NEW c \in Client, GCLocked(c) PROVE Admitted' /\ LocksHeld'
    BY Zenon, <1>8 DEF GCLocked, GCLock
<1>9. ASSUME NEW c \in Client, RmLocked(c) PROVE Admitted' /\ LocksHeld'
    BY Zenon, <1>9 DEF RmLocked, GCLock
<1>10. ASSUME NEW c \in Client, RemoveLocked(c) PROVE Admitted' /\ LocksHeld'
    BY <1>10 DEF RemoveLocked, GCLock
<1>11. ASSUME NEW c \in Client, FetchGraph(c) PROVE Admitted' /\ LocksHeld'
    BY Zenon, <1>11 DEF FetchGraph
<1>12. ASSUME NEW c \in Client, FetchGraphFails(c) PROVE Admitted' /\ LocksHeld'
    BY Zenon, <1>12 DEF FetchGraphFails
<1>13. ASSUME NEW c \in Client, PinRecursiveDone(c) PROVE Admitted' /\ LocksHeld'
    BY <1>13 DEF PinRecursiveDone
<1>14. ASSUME NEW c \in Client, FlushPut(c) PROVE Admitted' /\ LocksHeld'
    BY <1>14 DEF FlushPut, AfterFlush, Return
<1>15. ASSUME NEW c \in Client, FlushFails(c) PROVE Admitted' /\ LocksHeld'
    BY <1>15 DEF FlushFails, AfterFlush, Return
<1>16. ASSUME NEW c \in Client, PinAddReturn(c) PROVE Admitted' /\ LocksHeld'
    BY <1>16 DEF PinAddReturn, Return, PinUnlock
<1>17. ASSUME NEW c \in Client, DiffEnumerate(c) PROVE Admitted' /\ LocksHeld'
    BY Zenon, <1>17 DEF DiffEnumerate
<1>18. ASSUME NEW c \in Client, DiffEnumerateFails(c) PROVE Admitted' /\ LocksHeld'
    BY Zenon, <1>18 DEF DiffEnumerateFails, Return
<1>19. ASSUME NEW c \in Client, PinUpdateDone(c) PROVE Admitted' /\ LocksHeld'
    BY Zenon, <1>19 DEF PinUpdateDone, Return
<1>20. ASSUME NEW c \in Client, MarkRecursive(c) PROVE Admitted' /\ LocksHeld'
    BY <1>20 DEF MarkRecursive, Mark
<1>21. ASSUME NEW c \in Client, MarkBestEffort(c) PROVE Admitted' /\ LocksHeld'
    BY <1>21 DEF MarkBestEffort, Mark
<1>22. ASSUME NEW c \in Client, MarkDirect(c) PROVE Admitted' /\ LocksHeld'
    BY <1>22 DEF MarkDirect, Mark
<1>23. ASSUME NEW c \in Client, MarkInternal(c) PROVE Admitted' /\ LocksHeld'
    BY <1>23 DEF MarkInternal, Return, GCUnlock
<1>24. ASSUME NEW c \in Client, SweepBlock(c) PROVE Admitted' /\ LocksHeld'
    BY Zenon, <1>24 DEF SweepBlock
<1>25. ASSUME NEW c \in Client, SweepPinNode(c) PROVE Admitted' /\ LocksHeld'
    BY Zenon, <1>25 DEF SweepPinNode
<1>26. ASSUME NEW c \in Client, GCReturn(c) PROVE Admitted' /\ LocksHeld'
    BY Zenon, <1>26 DEF GCReturn, Return, GCUnlock
<1>27. ASSUME NEW c \in Client, FilterPinned(c) PROVE Admitted' /\ LocksHeld'
    BY <1>27 DEF FilterPinned
<1>28. ASSUME NEW c \in Client, RmBlock(c) PROVE Admitted' /\ LocksHeld'
    BY <1>28 DEF RmBlock
<1>29. ASSUME NEW c \in Client, RmReturn(c) PROVE Admitted' /\ LocksHeld'
    BY ZenonT(30), <1>29 DEF RmReturn, Return, GCUnlock
<1>30. ASSUME NEW c \in Client, Clear(c) PROVE Admitted' /\ LocksHeld'
    BY Zenon, <1>30 DEF Clear, GCLockRequest
<1>31. ASSUME NEW c \in Client, RemoveCheck(c) PROVE Admitted' /\ LocksHeld'
    BY <1>31 DEF RemoveCheck
<1>32. ASSUME NEW c \in Client, RemoveDelete(c) PROVE Admitted' /\ LocksHeld'
    BY Zenon, <1>32 DEF RemoveDelete
<1>33. ASSUME NEW c \in Client, RemoveReturn(c) PROVE Admitted' /\ LocksHeld'
    BY ZenonT(30), <1>33 DEF RemoveReturn, Return, GCUnlock
<1>34. ASSUME NEW c \in Client, FilesFlush(c) PROVE Admitted' /\ LocksHeld'
    BY ZenonT(30), <1>34 DEF FilesFlush, Return
<1>35. ASSUME NEW c \in Client, Flush(c) PROVE Admitted' /\ LocksHeld'
    BY ZenonT(30), <1>35 DEF Flush
<1>36. ASSUME NEW c \in Client, PathFails(c) PROVE Admitted' /\ LocksHeld'
    BY <1>36 DEF PathFails, BetweenPaths, Return
<1>37. ASSUME NEW c \in Client, PinAddCancel(c) PROVE Admitted' /\ LocksHeld'
    BY Zenon, <1>37 DEF PinAddCancel, PinUnlock
<1>38. ASSUME NEW c \in Client, NEW b \in Target, PinRecursive(c, b) PROVE Admitted' /\ LocksHeld'
    BY <1>38 DEF PinRecursive, BetweenPaths
<1>39. ASSUME NEW c \in Client, NEW b \in Target, PinDirect(c, b) PROVE Admitted' /\ LocksHeld'
    BY <1>39 DEF PinDirect, BetweenPaths
<1>40. ASSUME NEW c \in Client, NEW b \in Target, Unpin(c, b) PROVE Admitted' /\ LocksHeld'
    BY <1>40 DEF Unpin
<1>41. CASE PutBlock
    BY Zenon, <1>41 DEF PutBlock
<1>42. CASE Restart
    BY Zenon, <1>42 DEF Restart, LockReset
<1>43. CASE UNCHANGED vars
    BY Zenon, <1>43 DEF vars
<1> QED
    BY ZenonT(30), <1>1, <1>2, <1>3, <1>4, <1>5, <1>6, <1>7, <1>8, <1>9, <1>10,
       <1>11, <1>12, <1>13, <1>14, <1>15, <1>16, <1>17, <1>18, <1>19, <1>20,
       <1>21, <1>22, <1>23, <1>24, <1>25, <1>26, <1>27, <1>28, <1>29, <1>30,
       <1>31, <1>32, <1>33, <1>34, <1>35, <1>36, <1>37, <1>38, <1>39, <1>40,
       <1>41, <1>42, <1>43
    DEF Next, Begin, Acquire, Continue, LeaveLoop

\* A fetch that succeeded has left the whole graph in the blockstore.
FetchComplete ==
    \A c \in Client : pc[c] = "fetched" => Graph[job[c].blk] \subseteq store

\* What a collector has marked covers the pins, as far as it has come, and
\* what a remover is about to delete is not pinned.
MarkedCover ==
    \A c \in Client :
        /\ pc[c] \in {"markBestEffort", "markDirect", "markInternal"} =>
               \/ "errors" \in job[c].opts
               \/ GraphOf(recursePin) \subseteq job[c].set
        /\ pc[c] = "markInternal" => directPin \subseteq job[c].set
        /\ pc[c] = "sweep" => GraphOf(recursePin) \cup directPin \subseteq job[c].set
        /\ pc[c] = "rmBlocks" => job[c].set \cap Pinned = {}
        /\ pc[c] = "delete" => job[c].blk \notin Pinned

PinInv ==
    /\ TypeInv
    /\ Admitted
    /\ LocksHeld
    /\ FetchComplete
    /\ MarkedCover
    /\ PinnedPresent

(***************************************************************************)
(* What a set of recursive pins keeps.                                     *)
(***************************************************************************)

\* Pinning b adds the graph below b, and fewer pins keep less.
LEMMA GraphOfFacts ==
    /\ \A S, b : GraphOf(S \cup {b}) = GraphOf(S) \cup Graph[b]
    /\ \A S, T : S \subseteq T => GraphOf(S) \subseteq GraphOf(T)
BY Zenon DEF GraphOf

\* While a command is between fetch and pin, nothing is deleted.
LEMMA FetchStep ==
    ASSUME PinInv, Disciplined, [Next]_vars
    PROVE  FetchComplete'
<1> USE ClientAssumption, GraphOfFacts
    DEF PinInv, TypeInv, TypeOK, LockTypeOK, Job, NoJob, Admitted, LocksHeld,
        Pinning, Exclusive, Goto, blockVars, pinVars, lockVars, Disciplined, FetchComplete
<1>1. ASSUME NEW c \in Client, PinAdd(c) PROVE FetchComplete'
    BY <1>1 DEF PinAdd, Start, PinOps, PinLock
<1>2. ASSUME NEW c \in Client, PinRm(c) PROVE FetchComplete'
    BY <1>2 DEF PinRm, Start
<1>3. ASSUME NEW c \in Client, PinUpdate(c) PROVE FetchComplete'
    BY Zenon, <1>3 DEF PinUpdate, Start
<1>4. ASSUME NEW c \in Client, GarbageCollect(c) PROVE FetchComplete'
    BY Zenon, <1>4 DEF GarbageCollect, Start, GCLockRequest
<1>5. ASSUME NEW c \in Client, BlockRm(c) PROVE FetchComplete'
    BY <1>5 DEF BlockRm, Start, GCLockRequest
<1>6. ASSUME NEW c \in Client, RepoRm(c) PROVE FetchComplete'
    BY <1>6 DEF RepoRm, Start, GCLockRequest
<1>7. ASSUME NEW c \in Client, FilesAdd(c) PROVE FetchComplete'
    BY <1>7 DEF FilesAdd, Start
<1>8. ASSUME NEW c \in Client, GCLocked(c) PROVE FetchComplete'
    BY Zenon, <1>8 DEF GCLocked, GCLock
<1>9. ASSUME NEW c \in Client, RmLocked(c) PROVE FetchComplete'
    BY Zenon, <1>9 DEF RmLocked, GCLock
<1>10. ASSUME NEW c \in Client, RemoveLocked(c) PROVE FetchComplete'
    BY Zenon, <1>10 DEF RemoveLocked, GCLock
<1>11. ASSUME NEW c \in Client, FetchGraph(c) PROVE FetchComplete'
    BY Zenon, <1>11 DEF FetchGraph
<1>12. ASSUME NEW c \in Client, FetchGraphFails(c) PROVE FetchComplete'
    BY Zenon, <1>12 DEF FetchGraphFails
<1>13. ASSUME NEW c \in Client, PinRecursiveDone(c) PROVE FetchComplete'
    BY Zenon, <1>13 DEF PinRecursiveDone
<1>14. ASSUME NEW c \in Client, FlushPut(c) PROVE FetchComplete'
    BY <1>14 DEF FlushPut, AfterFlush, Return
<1>15. ASSUME NEW c \in Client, FlushFails(c) PROVE FetchComplete'
    BY <1>15 DEF FlushFails, AfterFlush, Return
<1>16. ASSUME NEW c \in Client, PinAddReturn(c) PROVE FetchComplete'
    BY Zenon, <1>16 DEF PinAddReturn, Return, PinUnlock
<1>17. ASSUME NEW c \in Client, DiffEnumerate(c) PROVE FetchComplete'
    BY Zenon, <1>17 DEF DiffEnumerate
<1>18. ASSUME NEW c \in Client, DiffEnumerateFails(c) PROVE FetchComplete'
    BY Zenon, <1>18 DEF DiffEnumerateFails, Return
<1>19. ASSUME NEW c \in Client, PinUpdateDone(c) PROVE FetchComplete'
    BY Zenon, <1>19 DEF PinUpdateDone, Return
<1>20. ASSUME NEW c \in Client, MarkRecursive(c) PROVE FetchComplete'
    BY Zenon, <1>20 DEF MarkRecursive, Mark
<1>21. ASSUME NEW c \in Client, MarkBestEffort(c) PROVE FetchComplete'
    BY Zenon, <1>21 DEF MarkBestEffort, Mark
<1>22. ASSUME NEW c \in Client, MarkDirect(c) PROVE FetchComplete'
    BY Zenon, <1>22 DEF MarkDirect, Mark
<1>23. ASSUME NEW c \in Client, MarkInternal(c) PROVE FetchComplete'
    BY <1>23 DEF MarkInternal, Return, GCUnlock
<1>24. ASSUME NEW c \in Client, SweepBlock(c) PROVE FetchComplete'
    BY Zenon, <1>24 DEF SweepBlock
<1>25. ASSUME NEW c \in Client, SweepPinNode(c) PROVE FetchComplete'
    BY Zenon, <1>25 DEF SweepPinNode
<1>26. ASSUME NEW c \in Client, GCReturn(c) PROVE FetchComplete'
    BY Zenon, <1>26 DEF GCReturn, Return, GCUnlock
<1>27. ASSUME NEW c \in Client, FilterPinned(c) PROVE FetchComplete'
    BY Zenon, <1>27 DEF FilterPinned
<1>28. ASSUME NEW c \in Client, RmBlock(c) PROVE FetchComplete'
    BY Zenon, <1>28 DEF RmBlock
<1>29. ASSUME NEW c \in Client, RmReturn(c) PROVE FetchComplete'
    BY Zenon, <1>29 DEF RmReturn, Return, GCUnlock
<1>30. ASSUME NEW c \in Client, Clear(c) PROVE FetchComplete'
    BY Zenon, <1>30 DEF Clear, GCLockRequest
<1>31. ASSUME NEW c \in Client, RemoveCheck(c) PROVE FetchComplete'
    BY <1>31 DEF RemoveCheck
<1>32. ASSUME NEW c \in Client, RemoveDelete(c) PROVE FetchComplete'
    BY Zenon, <1>32 DEF RemoveDelete
<1>33. ASSUME NEW c \in Client, RemoveReturn(c) PROVE FetchComplete'
    BY Zenon, <1>33 DEF RemoveReturn, Return, GCUnlock
<1>34. ASSUME NEW c \in Client, FilesFlush(c) PROVE FetchComplete'
    BY Zenon, <1>34 DEF FilesFlush, Return
<1>35. ASSUME NEW c \in Client, Flush(c) PROVE FetchComplete'
    BY ZenonT(30), <1>35 DEF Flush
<1>36. ASSUME NEW c \in Client, PathFails(c) PROVE FetchComplete'
    BY <1>36 DEF PathFails, BetweenPaths, Return
<1>37. ASSUME NEW c \in Client, PinAddCancel(c) PROVE FetchComplete'
    BY Zenon, <1>37 DEF PinAddCancel, PinUnlock
<1>38. ASSUME NEW c \in Client, NEW b \in Target, PinRecursive(c, b) PROVE FetchComplete'
    BY <1>38 DEF PinRecursive, BetweenPaths
<1>39. ASSUME NEW c \in Client, NEW b \in Target, PinDirect(c, b) PROVE FetchComplete'
    BY <1>39 DEF PinDirect, BetweenPaths
<1>40. ASSUME NEW c \in Client, NEW b \in Target, Unpin(c, b) PROVE FetchComplete'
    BY Zenon, <1>40 DEF Unpin
<1>41. CASE PutBlock
    BY Zenon, <1>41 DEF PutBlock
<1>42. CASE Restart
    BY Zenon, <1>42 DEF Restart, LockReset
<1>43. CASE UNCHANGED vars
    BY Zenon, <1>43 DEF vars
<1> QED
    BY ZenonT(30), <1>1, <1>2, <1>3, <1>4, <1>5, <1>6, <1>7, <1>8, <1>9, <1>10,
       <1>11, <1>12, <1>13, <1>14, <1>15, <1>16, <1>17, <1>18, <1>19, <1>20,
       <1>21, <1>22, <1>23, <1>24, <1>25, <1>26, <1>27, <1>28, <1>29, <1>30,
       <1>31, <1>32, <1>33, <1>34, <1>35, <1>36, <1>37, <1>38, <1>39, <1>40,
       <1>41, <1>42, <1>43
    DEF Next, Begin, Acquire, Continue, LeaveLoop

\* Marks and removals keep covering the pins: no pin is added meanwhile.
LEMMA CoverStep ==
    ASSUME PinInv, Disciplined, [Next]_vars
    PROVE  MarkedCover'
<1> USE ClientAssumption
    DEF PinInv, TypeInv, TypeOK, JobsTyped, WorksOnBlock, LockTypeOK, Job, NoJob,
        Admitted, LocksHeld, Pinning, Exclusive, Goto, blockVars, pinVars, lockVars,
        Disciplined, MarkedCover, Pinned
<1>1. ASSUME NEW c \in Client, PinAdd(c) PROVE MarkedCover'
    BY <1>1 DEF PinAdd, Start, PinOps, PinLock
<1>2. ASSUME NEW c \in Client, PinRm(c) PROVE MarkedCover'
    BY <1>2 DEF PinRm, Start
<1>3. ASSUME NEW c \in Client, PinUpdate(c) PROVE MarkedCover'
    BY Zenon, <1>3 DEF PinUpdate, Start
<1>4. ASSUME NEW c \in Client, GarbageCollect(c) PROVE MarkedCover'
    BY ZenonT(30), <1>4 DEF GarbageCollect, Start, GCLockRequest
<1>5. ASSUME NEW c \in Client, BlockRm(c) PROVE MarkedCover'
    BY <1>5 DEF BlockRm, Start, GCLockRequest
<1>6. ASSUME NEW c \in Client, RepoRm(c) PROVE MarkedCover'
    BY <1>6 DEF RepoRm, Start, GCLockRequest
<1>7. ASSUME NEW c \in Client, FilesAdd(c) PROVE MarkedCover'
    BY <1>7 DEF FilesAdd, Start
<1>8. ASSUME NEW c \in Client, GCLocked(c) PROVE MarkedCover'
    BY Zenon, <1>8 DEF GCLocked, GCLock
<1>9. ASSUME NEW c \in Client, RmLocked(c) PROVE MarkedCover'
    BY Zenon, <1>9 DEF RmLocked, GCLock
<1>10. ASSUME NEW c \in Client, RemoveLocked(c) PROVE MarkedCover'
    BY Zenon, <1>10 DEF RemoveLocked, GCLock
<1>11. ASSUME NEW c \in Client, FetchGraph(c) PROVE MarkedCover'
    BY Zenon, <1>11 DEF FetchGraph
<1>12. ASSUME NEW c \in Client, FetchGraphFails(c) PROVE MarkedCover'
    BY Zenon, <1>12 DEF FetchGraphFails
<1>13. ASSUME NEW c \in Client, PinRecursiveDone(c) PROVE MarkedCover'
    BY ZenonT(30), <1>13 DEF PinRecursiveDone
<1>14. ASSUME NEW c \in Client, FlushPut(c) PROVE MarkedCover'
    BY <1>14 DEF FlushPut, AfterFlush, Return
<1>15. ASSUME NEW c \in Client, FlushFails(c) PROVE MarkedCover'
    BY <1>15 DEF FlushFails, AfterFlush, Return
<1>16. ASSUME NEW c \in Client, PinAddReturn(c) PROVE MarkedCover'
    BY ZenonT(30), <1>16 DEF PinAddReturn, Return, PinUnlock
<1>17. ASSUME NEW c \in Client, DiffEnumerate(c) PROVE MarkedCover'
    BY Zenon, <1>17 DEF DiffEnumerate
<1>18. ASSUME NEW c \in Client, DiffEnumerateFails(c) PROVE MarkedCover'
    BY Zenon, <1>18 DEF DiffEnumerateFails, Return
<1>19. ASSUME NEW c \in Client, PinUpdateDone(c) PROVE MarkedCover'
    BY Zenon, <1>19 DEF PinUpdateDone, Return
<1>20. ASSUME NEW c \in Client, MarkRecursive(c) PROVE MarkedCover'
    BY <1>20, MarkComplete DEF MarkRecursive, Mark
<1>21. ASSUME NEW c \in Client, MarkBestEffort(c) PROVE MarkedCover'
    BY <1>21, DescendantsGrow DEF MarkBestEffort, Mark
<1>22. ASSUME NEW c \in Client, MarkDirect(c) PROVE MarkedCover'
    BY <1>22 DEF MarkDirect, Mark
<1>23. ASSUME NEW c \in Client, MarkInternal(c) PROVE MarkedCover'
    BY <1>23, DescendantsGrow DEF MarkInternal, Return, GCUnlock
<1>24. ASSUME NEW c \in Client, SweepBlock(c) PROVE MarkedCover'
    BY Zenon, <1>24 DEF SweepBlock
<1>25. ASSUME NEW c \in Client, SweepPinNode(c) PROVE MarkedCover'
    BY Zenon, <1>25 DEF SweepPinNode
<1>26. ASSUME NEW c \in Client, GCReturn(c) PROVE MarkedCover'
    BY ZenonT(30), <1>26 DEF GCReturn, Return, GCUnlock
<1>27. ASSUME NEW c \in Client, FilterPinned(c) PROVE MarkedCover'
    BY <1>27 DEF FilterPinned
<1>28. ASSUME NEW c \in Client, RmBlock(c) PROVE MarkedCover'
    BY <1>28 DEF RmBlock
<1>29. ASSUME NEW c \in Client, RmReturn(c) PROVE MarkedCover'
    BY ZenonT(30), <1>29 DEF RmReturn, Return, GCUnlock
<1>30. ASSUME NEW c \in Client, Clear(c) PROVE MarkedCover'
    BY Zenon, <1>30 DEF Clear, GCLockRequest
<1>31. ASSUME NEW c \in Client, RemoveCheck(c) PROVE MarkedCover'
    BY <1>31 DEF RemoveCheck
<1>32. ASSUME NEW c \in Client, RemoveDelete(c) PROVE MarkedCover'
    BY Zenon, <1>32 DEF RemoveDelete
<1>33. ASSUME NEW c \in Client, RemoveReturn(c) PROVE MarkedCover'
    BY ZenonT(30), <1>33 DEF RemoveReturn, Return, GCUnlock
<1>34. ASSUME NEW c \in Client, FilesFlush(c) PROVE MarkedCover'
    BY Zenon, <1>34 DEF FilesFlush, Return
<1>35. ASSUME NEW c \in Client, Flush(c) PROVE MarkedCover'
    BY ZenonT(30), <1>35 DEF Flush
<1>36. ASSUME NEW c \in Client, PathFails(c) PROVE MarkedCover'
    BY <1>36 DEF PathFails, BetweenPaths, Return
<1>37. ASSUME NEW c \in Client, PinAddCancel(c) PROVE MarkedCover'
    BY Zenon, <1>37 DEF PinAddCancel, PinUnlock
<1>38. ASSUME NEW c \in Client, NEW b \in Target, PinRecursive(c, b) PROVE MarkedCover'
    BY <1>38 DEF PinRecursive, BetweenPaths
<1>39. ASSUME NEW c \in Client, NEW b \in Target, PinDirect(c, b) PROVE MarkedCover'
    BY <1>39 DEF PinDirect, BetweenPaths
<1>40. ASSUME NEW c \in Client, NEW b \in Target, Unpin(c, b) PROVE MarkedCover'
    BY <1>40, GraphOfFacts DEF Unpin
<1>41. CASE PutBlock
    BY Zenon, <1>41 DEF PutBlock
<1>42. CASE Restart
    BY Zenon, <1>42 DEF Restart, LockReset
<1>43. CASE UNCHANGED vars
    BY Zenon, <1>43 DEF vars
<1> QED
    BY ZenonT(30), <1>1, <1>2, <1>3, <1>4, <1>5, <1>6, <1>7, <1>8, <1>9, <1>10,
       <1>11, <1>12, <1>13, <1>14, <1>15, <1>16, <1>17, <1>18, <1>19, <1>20,
       <1>21, <1>22, <1>23, <1>24, <1>25, <1>26, <1>27, <1>28, <1>29, <1>30,
       <1>31, <1>32, <1>33, <1>34, <1>35, <1>36, <1>37, <1>38, <1>39, <1>40,
       <1>41, <1>42, <1>43
    DEF Next, Begin, Acquire, Continue, LeaveLoop

\* No step breaks a pin; a restart needs the flushed state to be complete.
LEMMA PresentStep ==
    ASSUME PinInv, Disciplined, "crash" \notin Ops \/ FlushedPresent, [Next]_vars
    PROVE  PinnedPresent'
<1> USE ClientAssumption
    DEF PinInv, TypeInv, TypeOK, JobsTyped, WorksOnBlock, LockTypeOK, Job, NoJob,
        Admitted, LocksHeld, Pinning, Exclusive, Goto, blockVars, pinVars, lockVars,
        Disciplined, PinnedPresent
<1>1. ASSUME NEW c \in Client, PinAdd(c) PROVE PinnedPresent'
    BY Zenon, <1>1 DEF PinAdd, Start, PinOps, PinLock
<1>2. ASSUME NEW c \in Client, PinRm(c) PROVE PinnedPresent'
    BY Zenon, <1>2 DEF PinRm, Start
<1>3. ASSUME NEW c \in Client, PinUpdate(c) PROVE PinnedPresent'
    BY Zenon, <1>3 DEF PinUpdate, Start
<1>4. ASSUME NEW c \in Client, GarbageCollect(c) PROVE PinnedPresent'
    BY Zenon, <1>4 DEF GarbageCollect, Start, GCLockRequest
<1>5. ASSUME NEW c \in Client, BlockRm(c) PROVE PinnedPresent'
    BY Zenon, <1>5 DEF BlockRm, Start, GCLockRequest
<1>6. ASSUME NEW c \in Client, RepoRm(c) PROVE PinnedPresent'
    BY Zenon, <1>6 DEF RepoRm, Start, GCLockRequest
<1>7. ASSUME NEW c \in Client, FilesAdd(c) PROVE PinnedPresent'
    BY Zenon, <1>7 DEF FilesAdd, Start
<1>8. ASSUME NEW c \in Client, GCLocked(c) PROVE PinnedPresent'
    BY Zenon, <1>8 DEF GCLocked, GCLock
<1>9. ASSUME NEW c \in Client, RmLocked(c) PROVE PinnedPresent'
    BY Zenon, <1>9 DEF RmLocked, GCLock
<1>10. ASSUME NEW c \in Client, RemoveLocked(c) PROVE PinnedPresent'
    BY Zenon, <1>10 DEF RemoveLocked, GCLock
<1>11. ASSUME NEW c \in Client, FetchGraph(c) PROVE PinnedPresent'
    BY Zenon, <1>11 DEF FetchGraph
<1>12. ASSUME NEW c \in Client, FetchGraphFails(c) PROVE PinnedPresent'
    BY Zenon, <1>12 DEF FetchGraphFails
<1>13. ASSUME NEW c \in Client, PinRecursiveDone(c) PROVE PinnedPresent'
    <2>1. recursePin' = recursePin \cup {job[c].blk} /\ store' = store /\ directPin' = directPin
        BY Zenon, <1>13 DEF PinRecursiveDone
    <2>2. GraphOf(recursePin') = GraphOf(recursePin) \cup Graph[job[c].blk]
        BY Zenon, <2>1, GraphOfFacts
    <2>3. Graph[job[c].blk] \subseteq store
        BY Zenon, <1>13 DEF PinRecursiveDone, FetchComplete
    <2> QED
        BY Zenon, <2>1, <2>2, <2>3
<1>14. ASSUME NEW c \in Client, FlushPut(c) PROVE PinnedPresent'
    BY Zenon, <1>14 DEF FlushPut, AfterFlush, Return
<1>15. ASSUME NEW c \in Client, FlushFails(c) PROVE PinnedPresent'
    BY Zenon, <1>15 DEF FlushFails, AfterFlush, Return
<1>16. ASSUME NEW c \in Client, PinAddReturn(c) PROVE PinnedPresent'
    BY Zenon, <1>16 DEF PinAddReturn, Return, PinUnlock
<1>17. ASSUME NEW c \in Client, DiffEnumerate(c) PROVE PinnedPresent'
    BY Zenon, <1>17 DEF DiffEnumerate
<1>18. ASSUME NEW c \in Client, DiffEnumerateFails(c) PROVE PinnedPresent'
    BY Zenon, <1>18 DEF DiffEnumerateFails, Return
<1>19. ASSUME NEW c \in Client, PinUpdateDone(c) PROVE PinnedPresent'
    BY Zenon, <1>19 DEF PinUpdateDone, Return
<1>20. ASSUME NEW c \in Client, MarkRecursive(c) PROVE PinnedPresent'
    BY Zenon, <1>20 DEF MarkRecursive, Mark
<1>21. ASSUME NEW c \in Client, MarkBestEffort(c) PROVE PinnedPresent'
    BY Zenon, <1>21 DEF MarkBestEffort, Mark
<1>22. ASSUME NEW c \in Client, MarkDirect(c) PROVE PinnedPresent'
    BY Zenon, <1>22 DEF MarkDirect, Mark
<1>23. ASSUME NEW c \in Client, MarkInternal(c) PROVE PinnedPresent'
    BY Zenon, <1>23 DEF MarkInternal, Return, GCUnlock
<1>24. ASSUME NEW c \in Client, SweepBlock(c) PROVE PinnedPresent'
    BY Zenon, <1>24 DEF SweepBlock, MarkedCover
<1>25. ASSUME NEW c \in Client, SweepPinNode(c) PROVE PinnedPresent'
    BY Zenon, <1>25 DEF SweepPinNode
<1>26. ASSUME NEW c \in Client, GCReturn(c) PROVE PinnedPresent'
    BY Zenon, <1>26 DEF GCReturn, Return, GCUnlock
<1>27. ASSUME NEW c \in Client, FilterPinned(c) PROVE PinnedPresent'
    BY Zenon, <1>27 DEF FilterPinned
<1>28. ASSUME NEW c \in Client, RmBlock(c) PROVE PinnedPresent'
    BY <1>28 DEF RmBlock, MarkedCover, Pinned
<1>29. ASSUME NEW c \in Client, RmReturn(c) PROVE PinnedPresent'
    BY Zenon, <1>29 DEF RmReturn, Return, GCUnlock
<1>30. ASSUME NEW c \in Client, Clear(c) PROVE PinnedPresent'
    BY Zenon, <1>30 DEF Clear, GCLockRequest
<1>31. ASSUME NEW c \in Client, RemoveCheck(c) PROVE PinnedPresent'
    BY Zenon, <1>31 DEF RemoveCheck
<1>32. ASSUME NEW c \in Client, RemoveDelete(c) PROVE PinnedPresent'
    BY ZenonT(30), <1>32 DEF RemoveDelete, MarkedCover, Pinned
<1>33. ASSUME NEW c \in Client, RemoveReturn(c) PROVE PinnedPresent'
    BY Zenon, <1>33 DEF RemoveReturn, Return, GCUnlock
<1>34. ASSUME NEW c \in Client, FilesFlush(c) PROVE PinnedPresent'
    BY Zenon, <1>34 DEF FilesFlush, Return
<1>35. ASSUME NEW c \in Client, Flush(c) PROVE PinnedPresent'
    BY Zenon, <1>35 DEF Flush
<1>36. ASSUME NEW c \in Client, PathFails(c) PROVE PinnedPresent'
    BY Zenon, <1>36 DEF PathFails, BetweenPaths, Return
<1>37. ASSUME NEW c \in Client, PinAddCancel(c) PROVE PinnedPresent'
    BY Zenon, <1>37 DEF PinAddCancel, PinUnlock
<1>38. ASSUME NEW c \in Client, NEW b \in Target, PinRecursive(c, b) PROVE PinnedPresent'
    BY Zenon, <1>38 DEF PinRecursive, BetweenPaths
<1>39. ASSUME NEW c \in Client, NEW b \in Target, PinDirect(c, b) PROVE PinnedPresent'
    BY Zenon, <1>39 DEF PinDirect, BetweenPaths
<1>40. ASSUME NEW c \in Client, NEW b \in Target, Unpin(c, b) PROVE PinnedPresent'
    BY Zenon, <1>40, GraphOfFacts DEF Unpin
<1>41. CASE PutBlock
    BY Zenon, <1>41 DEF PutBlock
<1>42. CASE Restart
    BY <1>42 DEF Restart, LockReset, FlushedPresent, GraphOf
<1>43. CASE UNCHANGED vars
    BY Zenon, <1>43 DEF vars
<1> QED
    BY ZenonT(30), <1>1, <1>2, <1>3, <1>4, <1>5, <1>6, <1>7, <1>8, <1>9, <1>10,
       <1>11, <1>12, <1>13, <1>14, <1>15, <1>16, <1>17, <1>18, <1>19, <1>20,
       <1>21, <1>22, <1>23, <1>24, <1>25, <1>26, <1>27, <1>28, <1>29, <1>30,
       <1>31, <1>32, <1>33, <1>34, <1>35, <1>36, <1>37, <1>38, <1>39, <1>40,
       <1>41, <1>42, <1>43
    DEF Next, Begin, Acquire, Continue, LeaveLoop

\* PinInv is inductive.
LEMMA PinInvInit == Init => PinInv
BY TypeInit DEF PinInv, Init, Admitted, LocksHeld, LockInit, FetchComplete,
       MarkedCover, PinnedPresent, GraphOf, NoJob, Pinning, Exclusive

\* Every step of disciplined clients keeps it.
LEMMA PinInvStep ==
    ASSUME Disciplined, "crash" \notin Ops, PinInv, [Next]_vars
    PROVE  PinInv'
BY Zenon, TypeInvStep, LocksStep, FetchStep, CoverStep, PresentStep DEF PinInv

\* Collections, removals and unpinning never leave a pin without its blocks,
\* for every dag, any number of clients and any interleaving of pin add, pin
\* rm, repo gc, block rm, repo rm, files writes and block puts, as long as the
\* daemon is not restarted.
THEOREM PinsKept ==
    ASSUME Disciplined, "crash" \notin Ops
    PROVE  Spec => []PinnedPresent
<1>1. PinInv => PinnedPresent
    BY Zenon DEF PinInv
<1> QED
    BY PinInvInit, PinInvStep, <1>1, PTL DEF Spec

\* PinStore's graphs are those of the dag the commands work on.
LEMMA SameGraph ==
    /\ \A S : Promised!GraphOf(S) = GraphOf(S)
    /\ Promised!Graph = Graph
<1>1. \A st, seen, roots :
          Promised!Descendants(st, seen, roots) = Descendants(st, seen, roots)
    BY Zenon DEF Promised!Descendants, Descendants, Promised!WalkClosed, WalkClosed
<1> QED
    BY Zenon, <1>1 DEF Promised!GraphOf, GraphOf, Promised!Graph, Graph

\* Every step is one that PinStore allows, or changes neither blocks nor pins.
LEMMA PromiseStep ==
    ASSUME PinInv, Disciplined, "crash" \notin Ops, [Next]_vars
    PROVE  Promised!Next \/ UNCHANGED <<store, recursePin, directPin>>
<1> USE ClientAssumption
    DEF PinInv, TypeInv, TypeOK, JobsTyped, WorksOnBlock, LockTypeOK, Job, NoJob,
        Admitted, LocksHeld, Pinning, Exclusive, Goto, blockVars, pinVars, lockVars,
        Disciplined
<1>1. ASSUME NEW c \in Client, PinAdd(c) PROVE Promised!Next \/ UNCHANGED <<store, recursePin, directPin>>
    BY Zenon, <1>1 DEF PinAdd, Start, PinOps, PinLock
<1>2. ASSUME NEW c \in Client, PinRm(c) PROVE Promised!Next \/ UNCHANGED <<store, recursePin, directPin>>
    BY Zenon, <1>2 DEF PinRm, Start
<1>3. ASSUME NEW c \in Client, PinUpdate(c) PROVE Promised!Next \/ UNCHANGED <<store, recursePin, directPin>>
    BY Zenon, <1>3 DEF PinUpdate, Start
<1>4. ASSUME NEW c \in Client, GarbageCollect(c) PROVE Promised!Next \/ UNCHANGED <<store, recursePin, directPin>>
    BY Zenon, <1>4 DEF GarbageCollect, Start, GCLockRequest
<1>5. ASSUME NEW c \in Client, BlockRm(c) PROVE Promised!Next \/ UNCHANGED <<store, recursePin, directPin>>
    BY Zenon, <1>5 DEF BlockRm, Start, GCLockRequest
<1>6. ASSUME NEW c \in Client, RepoRm(c) PROVE Promised!Next \/ UNCHANGED <<store, recursePin, directPin>>
    BY Zenon, <1>6 DEF RepoRm, Start, GCLockRequest
<1>7. ASSUME NEW c \in Client, FilesAdd(c) PROVE Promised!Next \/ UNCHANGED <<store, recursePin, directPin>>
    <2>1. PICK b \in Target : store' = store \cup Graph[b]
        BY Zenon, <1>7 DEF FilesAdd
    <2>2. Graph[b] \subseteq Block
        BY Zenon, <2>1, ConstAssumption, GraphType
    <2> QED
        BY Zenon, <1>7, <2>1, <2>2 DEF FilesAdd, Start, Promised!Next,
            Promised!Arrive
<1>8. ASSUME NEW c \in Client, GCLocked(c) PROVE Promised!Next \/ UNCHANGED <<store, recursePin, directPin>>
    BY Zenon, <1>8 DEF GCLocked, GCLock
<1>9. ASSUME NEW c \in Client, RmLocked(c) PROVE Promised!Next \/ UNCHANGED <<store, recursePin, directPin>>
    BY Zenon, <1>9 DEF RmLocked, GCLock
<1>10. ASSUME NEW c \in Client, RemoveLocked(c) PROVE Promised!Next \/ UNCHANGED <<store, recursePin, directPin>>
    BY Zenon, <1>10 DEF RemoveLocked, GCLock
<1>11. ASSUME NEW c \in Client, FetchGraph(c) PROVE Promised!Next \/ UNCHANGED <<store, recursePin, directPin>>
    <2>1. /\ store' \in SUBSET Block /\ store \subseteq store' /\ UNCHANGED <<recursePin, directPin>>
        BY <1>11, GraphType DEF FetchGraph, WorksOnBlock
    <2> QED
        BY Zenon, <2>1 DEF Promised!Next, Promised!Arrive
<1>12. ASSUME NEW c \in Client, FetchGraphFails(c) PROVE Promised!Next \/ UNCHANGED <<store, recursePin, directPin>>
    <2>1. /\ store' \in SUBSET Block /\ store \subseteq store' /\ UNCHANGED <<recursePin, directPin>>
        BY <1>12, GraphType DEF FetchGraphFails, WorksOnBlock
    <2> QED
        BY Zenon, <2>1 DEF Promised!Next, Promised!Arrive
<1>13. ASSUME NEW c \in Client, PinRecursiveDone(c) PROVE Promised!Next \/ UNCHANGED <<store, recursePin, directPin>>
    <2>1. job[c].blk \in Block /\ Graph[job[c].blk] \subseteq store /\ recursePin' = recursePin \cup {job[c].blk} /\ UNCHANGED <<store, directPin>>
        BY Zenon, <1>13 DEF PinRecursiveDone, FetchComplete
    <2> QED
        BY Zenon, <2>1, SameGraph DEF Promised!Next, Promised!PinGraph
<1>14. ASSUME NEW c \in Client, FlushPut(c) PROVE Promised!Next \/ UNCHANGED <<store, recursePin, directPin>>
    BY Zenon, <1>14 DEF FlushPut, AfterFlush, Return
<1>15. ASSUME NEW c \in Client, FlushFails(c) PROVE Promised!Next \/ UNCHANGED <<store, recursePin, directPin>>
    BY Zenon, <1>15 DEF FlushFails, AfterFlush, Return
<1>16. ASSUME NEW c \in Client, PinAddReturn(c) PROVE Promised!Next \/ UNCHANGED <<store, recursePin, directPin>>
    BY Zenon, <1>16 DEF PinAddReturn, Return, PinUnlock
<1>17. ASSUME NEW c \in Client, DiffEnumerate(c) PROVE Promised!Next \/ UNCHANGED <<store, recursePin, directPin>>
    BY Zenon, <1>17 DEF DiffEnumerate
<1>18. ASSUME NEW c \in Client, DiffEnumerateFails(c) PROVE Promised!Next \/ UNCHANGED <<store, recursePin, directPin>>
    BY Zenon, <1>18 DEF DiffEnumerateFails, Return
<1>19. ASSUME NEW c \in Client, PinUpdateDone(c) PROVE Promised!Next \/ UNCHANGED <<store, recursePin, directPin>>
    BY Zenon, <1>19 DEF PinUpdateDone, Return
<1>20. ASSUME NEW c \in Client, MarkRecursive(c) PROVE Promised!Next \/ UNCHANGED <<store, recursePin, directPin>>
    BY Zenon, <1>20 DEF MarkRecursive, Mark
<1>21. ASSUME NEW c \in Client, MarkBestEffort(c) PROVE Promised!Next \/ UNCHANGED <<store, recursePin, directPin>>
    BY Zenon, <1>21 DEF MarkBestEffort, Mark
<1>22. ASSUME NEW c \in Client, MarkDirect(c) PROVE Promised!Next \/ UNCHANGED <<store, recursePin, directPin>>
    BY Zenon, <1>22 DEF MarkDirect, Mark
<1>23. ASSUME NEW c \in Client, MarkInternal(c) PROVE Promised!Next \/ UNCHANGED <<store, recursePin, directPin>>
    BY Zenon, <1>23 DEF MarkInternal, Return, GCUnlock
<1>24. ASSUME NEW c \in Client, SweepBlock(c) PROVE Promised!Next \/ UNCHANGED <<store, recursePin, directPin>>
    <2>1. PICK b \in store \ job[c].set : store' = store \ {b}
        BY Zenon, <1>24 DEF SweepBlock
    <2>2. b \in Block /\ b \notin GraphOf(recursePin) \cup directPin
        BY Zenon, <1>24, <2>1 DEF SweepBlock, MarkedCover, Pinned
    <2>3. UNCHANGED <<recursePin, directPin>>
        BY Zenon, <1>24 DEF SweepBlock
    <2> QED
        BY Zenon, <2>1, <2>2, <2>3, SameGraph DEF Promised!Next,
            Promised!Remove, Promised!Kept
<1>25. ASSUME NEW c \in Client, SweepPinNode(c) PROVE Promised!Next \/ UNCHANGED <<store, recursePin, directPin>>
    BY Zenon, <1>25 DEF SweepPinNode
<1>26. ASSUME NEW c \in Client, GCReturn(c) PROVE Promised!Next \/ UNCHANGED <<store, recursePin, directPin>>
    BY Zenon, <1>26 DEF GCReturn, Return, GCUnlock
<1>27. ASSUME NEW c \in Client, FilterPinned(c) PROVE Promised!Next \/ UNCHANGED <<store, recursePin, directPin>>
    BY Zenon, <1>27 DEF FilterPinned
<1>28. ASSUME NEW c \in Client, RmBlock(c) PROVE Promised!Next \/ UNCHANGED <<store, recursePin, directPin>>
    <2>1. PICK b \in job[c].set : store' = store \ {b}
        BY Zenon, <1>28 DEF RmBlock
    <2>2. b \in Block /\ b \notin GraphOf(recursePin) \cup directPin
        BY Zenon, <1>28, <2>1 DEF RmBlock, MarkedCover, Pinned
    <2>3. UNCHANGED <<recursePin, directPin>>
        BY Zenon, <1>28 DEF RmBlock
    <2> QED
        BY Zenon, <2>1, <2>2, <2>3, SameGraph DEF Promised!Next,
            Promised!Remove, Promised!Kept
<1>29. ASSUME NEW c \in Client, RmReturn(c) PROVE Promised!Next \/ UNCHANGED <<store, recursePin, directPin>>
    BY Zenon, <1>29 DEF RmReturn, Return, GCUnlock
<1>30. ASSUME NEW c \in Client, Clear(c) PROVE Promised!Next \/ UNCHANGED <<store, recursePin, directPin>>
    BY Zenon, <1>30 DEF Clear, GCLockRequest
<1>31. ASSUME NEW c \in Client, RemoveCheck(c) PROVE Promised!Next \/ UNCHANGED <<store, recursePin, directPin>>
    BY Zenon, <1>31 DEF RemoveCheck
<1>32. ASSUME NEW c \in Client, RemoveDelete(c) PROVE Promised!Next \/ UNCHANGED <<store, recursePin, directPin>>
    <2>1. job[c].blk \in Block /\ job[c].blk \notin GraphOf(recursePin) \cup directPin /\ store' = store \ {job[c].blk} /\ UNCHANGED <<recursePin, directPin>>
        BY Zenon, <1>32 DEF RemoveDelete, MarkedCover, Pinned
    <2> QED
        BY Zenon, <2>1, SameGraph DEF Promised!Next, Promised!Remove, Promised!Kept
<1>33. ASSUME NEW c \in Client, RemoveReturn(c) PROVE Promised!Next \/ UNCHANGED <<store, recursePin, directPin>>
    BY Zenon, <1>33 DEF RemoveReturn, Return, GCUnlock
<1>34. ASSUME NEW c \in Client, FilesFlush(c) PROVE Promised!Next \/ UNCHANGED <<store, recursePin, directPin>>
    BY Zenon, <1>34 DEF FilesFlush, Return
<1>35. ASSUME NEW c \in Client, Flush(c) PROVE Promised!Next \/ UNCHANGED <<store, recursePin, directPin>>
    BY Zenon, <1>35 DEF Flush
<1>36. ASSUME NEW c \in Client, PathFails(c) PROVE Promised!Next \/ UNCHANGED <<store, recursePin, directPin>>
    BY Zenon, <1>36 DEF PathFails, BetweenPaths, Return
<1>37. ASSUME NEW c \in Client, PinAddCancel(c) PROVE Promised!Next \/ UNCHANGED <<store, recursePin, directPin>>
    BY Zenon, <1>37 DEF PinAddCancel, PinUnlock
<1>38. ASSUME NEW c \in Client, NEW b \in Target, PinRecursive(c, b) PROVE Promised!Next \/ UNCHANGED <<store, recursePin, directPin>>
    <2>1. b \in Block
        BY Zenon, ConstAssumption
    <2>2. CASE b \in recursePin
        BY Zenon, <1>38, <2>1, <2>2 DEF PinRecursive, BetweenPaths,
            Promised!Next, Promised!Arrive
    <2>3. CASE b \notin recursePin
        BY Zenon, <1>38, <2>1, <2>3 DEF PinRecursive, BetweenPaths,
            Promised!Next, Promised!UnpinBlock
    <2> QED
        BY Zenon, <2>2, <2>3
<1>39. ASSUME NEW c \in Client, NEW b \in Target, PinDirect(c, b) PROVE Promised!Next \/ UNCHANGED <<store, recursePin, directPin>>
    <2>1. b \in Block
        BY Zenon, ConstAssumption
    <2>2. CASE b \in recursePin
        BY Zenon, <1>39, <2>1, <2>2 DEF PinDirect, BetweenPaths,
            Promised!Next, Promised!Arrive
    <2>3. CASE b \notin recursePin
        BY Zenon, <1>39, <2>1, <2>3 DEF PinDirect, BetweenPaths,
            Promised!Next, Promised!PinBlock
    <2> QED
        BY Zenon, <2>2, <2>3
<1>40. ASSUME NEW c \in Client, NEW b \in Target, Unpin(c, b) PROVE Promised!Next \/ UNCHANGED <<store, recursePin, directPin>>
    <2>1. b \in Block
        BY Zenon, ConstAssumption
    <2>2. CASE b \in recursePin
        BY Zenon, <1>40, <2>1, <2>2 DEF Unpin, Promised!Next, Promised!UnpinGraph
    <2>3. CASE b \notin recursePin
        BY Zenon, <1>40, <2>1, <2>3 DEF Unpin, Promised!Next, Promised!UnpinBlock
    <2> QED
        BY Zenon, <2>2, <2>3
<1>41. CASE PutBlock
    <2>1. /\ store' \in SUBSET Block /\ store \subseteq store' /\ UNCHANGED <<recursePin, directPin>>
        BY Zenon, <1>41 DEF PutBlock, Goto
    <2> QED
        BY Zenon, <2>1 DEF Promised!Next, Promised!Arrive
<1>42. CASE Restart
    BY Zenon, <1>42 DEF Restart, LockReset
<1>43. CASE UNCHANGED vars
    BY Zenon, <1>43 DEF vars
<1> QED
    BY ZenonT(30), <1>1, <1>2, <1>3, <1>4, <1>5, <1>6, <1>7, <1>8, <1>9, <1>10,
       <1>11, <1>12, <1>13, <1>14, <1>15, <1>16, <1>17, <1>18, <1>19, <1>20,
       <1>21, <1>22, <1>23, <1>24, <1>25, <1>26, <1>27, <1>28, <1>29, <1>30,
       <1>31, <1>32, <1>33, <1>34, <1>35, <1>36, <1>37, <1>38, <1>39, <1>40,
       <1>41, <1>42, <1>43
    DEF Next, Begin, Acquire, Continue, LeaveLoop

\* The commands that keep to the lock implement PinStore, the specification
\* in which a block goes only when no pin keeps it.
THEOREM PromiseKept ==
    ASSUME Disciplined, "crash" \notin Ops
    PROVE  Spec => KeepsPromise
<1>1. Init => PinInv /\ Promised!Init
    BY Zenon, PinInvInit DEF Init, Promised!Init
<1>2. PinInv /\ [Next]_vars => PinInv'
    BY Zenon, PinInvStep
<1>3. PinInv /\ [Next]_vars => [Promised!Next]_(Promised!pinStoreVars)
    BY Zenon, PromiseStep DEF Promised!pinStoreVars
<1> QED
    BY <1>1, <1>2, <1>3, PTL DEF Spec, KeepsPromise, Promised!Spec
=============================================================================
