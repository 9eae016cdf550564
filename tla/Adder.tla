------------------------------- MODULE Adder -------------------------------
(***************************************************************************)
(* The adder (core/coreunix/add.go, driven by core/commands/add.go) beside *)
(* a collection whose results are streamed to a client (pin/gc/gc.go,      *)
(* core/corerepo/gc.go, core/commands/repo.go).  The two agree through the *)
(* GCLocker: the adder holds the PinLock while it adds one argument and    *)
(* pauses between files when a collection is requested.  Both write to     *)
(* bounded channels, and either client may leave.                          *)
(*                                                                         *)
(* A file is its leaf block.  A directory node is named by the files below *)
(* it, whatever the shape of the tree, and so is the root the adder pins.  *)
(* PinRoot's tempRoot is never set by the code and has no variable.        *)
(***************************************************************************)
EXTENDS Naturals, Sequences, FiniteSets, GCLocker

CONSTANTS
    File,           \* the files that are added
    Args,           \* the arguments: a sequence of sequences of files
    Modes,          \* the ways to add that the instance considers
    OutCap,         \* adderOutChanSize
    GcCap,          \* the capacity of the collection's output channel
    MaxGC,          \* bound: collections started
    NoRoot,         \* no root node
    adder,          \* the goroutine that adds
    collector       \* the goroutine that collects

VARIABLES
    mode,           \* "add", "addNoPin" (the command), "addR" (the helper)
    apc, arg, idx,  \* where the adder is: argument and file
    added,          \* the files patched into the adder's directory
    root,           \* Adder.root, the memo of RootNode
    outN, client,   \* the adder's output channel and its reader
    store,          \* the leaf blocks in the blockstore
    dirs,           \* the directory nodes in the blockstore
    pins,           \* the recursively pinned directory nodes
    gpc, todo,      \* where the collection is, and what it has to visit
    pend,           \* results still to be sent, without a look at the context
    delFailed,      \* a block could not be deleted
    gcN, gcReader,  \* the collection's output channel and its reader
    cancelled,      \* the context of the collection is done
    gcs,            \* collections started
    fresh,          \* files written since the PinLock was last granted
    paused,         \* the adder has paused for a collection
    gap             \* a collection began between two AddFile calls

addVars == <<mode, apc, arg, idx, added, root, fresh, paused>>
outVars == <<outN, client>>
blkVars == <<store, dirs, pins>>
gcVars == <<gpc, todo, pend, delFailed, gcs>>
resVars == <<gcN, gcReader, cancelled>>
vars == <<addVars, outVars, blkVars, gcVars, resVars, gap, lockVars>>

APC == {"next", "lock", "entry", "write", "emit", "relock", "unlock",
        "finalize", "outputDirs", "pinRoot", "release", "done", "failed"}
GPC == {"idle", "lock", "mark", "sweep", "removed", "errors", "datastore", "unlock"}

\* Types of the state of the adder, the collection and their two channels.
TypeOK ==
    /\ mode \in Modes
    /\ apc \in APC
    /\ arg \in 1..Len(Args) + 1
    /\ idx \in Nat
    /\ added \subseteq File
    /\ root \in SUBSET File \cup {NoRoot}
    /\ outN \in 0..OutCap
    /\ client \in {"reading", "gone"}
    /\ store \subseteq File
    /\ dirs \subseteq SUBSET File
    /\ pins \subseteq SUBSET File
    /\ gpc \in GPC
    /\ todo \subseteq File \cup SUBSET File
    /\ pend \in Nat
    /\ delFailed \in BOOLEAN
    /\ gcN \in 0..GcCap
    /\ gcReader \in {"reading", "gone"}
    /\ cancelled \in BOOLEAN
    /\ gcs \in 0..MaxGC
    /\ fresh \subseteq File
    /\ paused \in BOOLEAN
    /\ gap \in BOOLEAN
    /\ LockTypeOK

Init ==
    /\ mode \in Modes
    /\ apc = "next" /\ arg = 1 /\ idx = 1
    /\ added = {} /\ root = NoRoot
    /\ outN = 0 /\ client = "reading"
    /\ store = {} /\ dirs = {} /\ pins = {}
    /\ gpc = "idle" /\ todo = {} /\ pend = 0 /\ delFailed = FALSE
    /\ gcN = 0 /\ gcReader = "reading" /\ cancelled = FALSE /\ gcs = 0
    /\ fresh = {} /\ paused = FALSE /\ gap = FALSE
    /\ LockInit

Pin == mode = "add"
Locked == mode \in {"add", "addR"}
Files == UNION {{Args[a][i] : i \in DOMAIN Args[a]} : a \in DOMAIN Args}

(***************************************************************************)
(* The adder.                                                              *)
(***************************************************************************)
Await(l) == apc' = l

\* The deferred unlock of an AddFile, AddR or AddWrapped that returns.
ReleaseIfHeld ==
    IF adder \in readers THEN PinUnlock(adder) ELSE UNCHANGED lockVars

\* Whether the next argument has to ask for the PinLock.
LocksOnce == Locked /\ adder \notin readers /\ arg = 1

MustLock == Locked /\ adder \notin readers

\* addAllAndPin takes the next argument; AddFile asks for the PinLock when it
\* is going to pin.  AddR asks for it once.
AddFile ==
    /\ apc = "next"
    /\ arg \in DOMAIN Args
    /\ idx' = 1
    /\ IF MustLock
       THEN PinLock(adder) /\ Await("lock")
       ELSE UNCHANGED lockVars /\ Await("entry")
    /\ UNCHANGED <<mode, arg, added, root, fresh, paused, gap, outVars,
                   blkVars, gcVars, resVars>>

PinLockGranted ==
    /\ apc = "lock"
    /\ adder \in readers
    /\ fresh' = {}
    /\ Await("entry")
    /\ UNCHANGED <<mode, arg, idx, added, root, paused, gap, outVars, blkVars,
                   gcVars, resVars, lockVars>>

\* RootNode: the memo, or the node of what has been added so far.
RootNode == IF root = NoRoot THEN added ELSE root

PinRootNode ==
    /\ root' = RootNode
    /\ dirs' = dirs \cup {RootNode}
    /\ pins' = pins \cup {RootNode}
    /\ UNCHANGED store

\* maybePauseForGC with nothing to do: AddR and AddFile without pinning leave
\* Adder.unlocker nil and never pause.
NoPause ==
    /\ apc = "entry"
    /\ ~(Pin /\ GCRequested)
    /\ Await("write")
    /\ UNCHANGED <<mode, arg, idx, added, root, fresh, paused, gap, outVars,
                   blkVars, gcVars, resVars, lockVars>>

PauseUnpinned ==
    /\ apc = "entry"
    /\ Pin /\ GCRequested
    /\ root' = RootNode
    /\ PinUnlock(adder)
    /\ paused' = TRUE
    /\ Await("relock")
    /\ UNCHANGED <<mode, arg, idx, added, fresh, gap, outVars, blkVars, gcVars, resVars>>

PauseForGC ==
    /\ apc = "entry"
    /\ Pin /\ GCRequested
    /\ PinRootNode
    /\ PinUnlock(adder)
    /\ paused' = TRUE
    /\ Await("relock")
    /\ UNCHANGED <<mode, arg, idx, added, fresh, gap, outVars, gcVars, resVars>>

Relock ==
    /\ apc = "relock"
    /\ PinLock(adder)
    /\ Await("lock")
    /\ UNCHANGED <<mode, arg, idx, added, root, fresh, paused, gap, outVars,
                   blkVars, gcVars, resVars>>

\* add and addNode: the blocks of the file are written and the file is
\* patched into the adder's directory.
AddNode ==
    /\ apc = "write"
    /\ LET f == Args[arg][idx] IN
       /\ store' = store \cup {f}
       /\ added' = added \cup {f}
       /\ fresh' = fresh \cup {f}
    /\ Await("emit")
    /\ UNCHANGED <<mode, arg, idx, root, paused, gap, outVars, dirs, pins,
                   gcVars, resVars, lockVars>>

AddNodeFailsHolding ==
    /\ apc = "write"
    /\ Await("failed")
    /\ UNCHANGED <<mode, arg, idx, added, root, fresh, paused, gap, outVars,
                   blkVars, gcVars, resVars, lockVars>>

\* Reading, chunking or storing the file, or patching the directory, fails.
AddNodeFails ==
    /\ apc = "write"
    /\ ReleaseIfHeld
    /\ Await("failed")
    /\ UNCHANGED <<mode, arg, idx, added, root, fresh, paused, gap, outVars,
                   blkVars, gcVars, resVars>>

\* The output channel takes one more.
HasRoomAlways == TRUE

HasRoom == outN < OutCap

\* outputDagnode; AddR has no output channel.  addDir goes on with the next
\* file of the directory.
OutputDagnode ==
    /\ apc = "emit"
    /\ IF mode = "addR"
       THEN UNCHANGED outN
       ELSE HasRoom /\ outN' = outN + 1
    /\ idx' = idx + 1
    /\ Await(IF idx < Len(Args[arg]) THEN "entry" ELSE "unlock")
    /\ UNCHANGED <<mode, arg, added, root, fresh, paused, gap, client, blkVars,
                   gcVars, resVars, lockVars>>

AddFileReturnsRooted ==
    /\ apc = "unlock"
    /\ IF mode = "addR" THEN UNCHANGED lockVars ELSE ReleaseIfHeld
    /\ root' = RootNode
    /\ arg' = arg + 1
    /\ Await(IF arg < Len(Args) THEN "next" ELSE "finalize")
    /\ UNCHANGED <<mode, idx, added, fresh, paused, gap, outVars, blkVars,
                   gcVars, resVars>>

\* AddFile returns and its deferred function releases the lock; AddR keeps it.
AddFileReturns ==
    /\ apc = "unlock"
    /\ IF mode = "addR" THEN UNCHANGED lockVars ELSE ReleaseIfHeld
    /\ arg' = arg + 1
    /\ Await(IF arg < Len(Args) THEN "next" ELSE "finalize")
    /\ UNCHANGED <<mode, idx, added, root, fresh, paused, gap, outVars,
                   blkVars, gcVars, resVars>>

\* Finalize flushes the directory and reports the directories in it.
Finalize ==
    /\ apc = "finalize"
    /\ dirs' = dirs \cup {added}
    /\ Await("outputDirs")
    /\ UNCHANGED <<mode, arg, idx, added, root, fresh, paused, gap, outVars,
                   store, pins, gcVars, resVars, lockVars>>

OutputDirs ==
    /\ apc = "outputDirs"
    /\ IF mode = "addR"
       THEN UNCHANGED outN /\ Await("release")
       ELSE HasRoom /\ outN' = outN + 1 /\ Await("pinRoot")
    /\ UNCHANGED <<mode, arg, idx, added, root, fresh, paused, gap, client,
                   blkVars, gcVars, resVars, lockVars>>

\* PinRoot at the end of the command: no lock is held.
PinRoot ==
    /\ apc = "pinRoot"
    /\ IF Pin
       THEN PinRootNode
       ELSE root' = RootNode /\ UNCHANGED blkVars
    /\ Await("done")
    /\ UNCHANGED <<mode, arg, idx, added, fresh, paused, gap, outVars, gcVars,
                   resVars, lockVars>>

AddRReturns ==
    /\ apc = "release"
    /\ ReleaseIfHeld
    /\ Await("done")
    /\ UNCHANGED <<mode, arg, idx, added, root, fresh, paused, gap, outVars,
                   blkVars, gcVars, resVars>>

\* res.Emit(outChan) forwards to the client of the command, and stops when
\* the client is gone.
EmitOut ==
    /\ client = "reading"
    /\ outN > 0
    /\ outN' = outN - 1
    /\ UNCHANGED <<client, addVars, blkVars, gcVars, resVars, gap, lockVars>>

ClientLeaves ==
    /\ client = "reading"
    /\ client' = "gone"
    /\ UNCHANGED <<outN, addVars, blkVars, gcVars, resVars, gap, lockVars>>

\* PinRoot fails in a pause or at the end: the root could not be stored, or
\* it is pinned in memory and the pin state could not be written.
PinRootFails ==
    /\ \/ apc = "entry" /\ Pin /\ GCRequested
       \/ apc = "pinRoot" /\ Pin
    /\ root' = RootNode
    /\ \/ UNCHANGED <<dirs, pins>>
       \/ dirs' = dirs \cup {RootNode} /\ pins' = pins \cup {RootNode}
    /\ ReleaseIfHeld
    /\ Await("failed")
    /\ UNCHANGED <<mode, arg, idx, added, fresh, paused, gap, outVars, store,
                   gcVars, resVars>>

(***************************************************************************)
(* The collection: GarbageCollectAsync and gc.GC.                          *)
(***************************************************************************)
GcGoto(l) == gpc' = l

\* A collection is asked for; its client is a new one.
GarbageCollectAsync ==
    /\ gpc = "idle"
    /\ gcs < MaxGC
    /\ gcs' = gcs + 1
    /\ GCLockRequest(collector)
    /\ GcGoto("lock")
    /\ todo' = {} /\ pend' = 0 /\ delFailed' = FALSE
    /\ gcN' = 0 /\ gcReader' = "reading" /\ cancelled' = FALSE
    /\ UNCHANGED <<addVars, outVars, blkVars, gap>>

\* The lock is granted.  The ghost notes a collection that begins while a
\* pinning add is under way outside its pauses.
GcLocked ==
    /\ gpc = "lock"
    /\ GCLock(collector)
    /\ GcGoto("mark")
    /\ gap' = (gap \/ /\ mode = "add"
                      /\ apc \notin {"relock", "lock", "done", "failed"}
                   \/ /\ mode = "add"
                      /\ apc = "lock" /\ idx = 1 /\ added # {})
    /\ UNCHANGED <<addVars, outVars, blkVars, todo, pend, delFailed, gcs, resVars>>

\* ColoredSet: what the pins reach, and how many fetches fail.  A failed
\* fetch sends an error, and in the end the collection is abandoned with
\* one more.
Marked == UNION pins \cup pins
Missing == (UNION pins \ store) \cup (pins \ dirs)

ColoredSet ==
    /\ gpc = "mark"
    /\ IF Missing = {}
       THEN /\ todo' = store \cup dirs
            /\ GcGoto("sweep")
            /\ UNCHANGED pend
       ELSE /\ pend' = Cardinality(Missing) + 1
            /\ GcGoto("errors")
            /\ UNCHANGED todo
    /\ UNCHANGED <<delFailed, gcs, addVars, outVars, blkVars, resVars, gap,
                   lockVars>>

\* The loop over AllKeysChan: a marked block is passed over, another one is
\* deleted and reported, or cannot be deleted.
SweepBlock ==
    /\ gpc = "sweep"
    /\ pend = 0
    /\ \E b \in todo :
        /\ todo' = todo \ {b}
        /\ \/ b \in Marked /\ UNCHANGED <<blkVars, gpc, pend, delFailed>>
           \/ /\ b \notin Marked
              /\ store' = store \ {b} /\ dirs' = dirs \ {b}
              /\ GcGoto("removed")
              /\ UNCHANGED <<pins, pend, delFailed>>
           \/ /\ b \notin Marked
              /\ pend' = 1
              /\ delFailed' = TRUE
              /\ UNCHANGED <<blkVars, gpc>>
    /\ UNCHANGED <<gcs, addVars, outVars, resVars, gap, lockVars>>

\* The key of a deleted block is sent, unless the context is done.
SendKeyRemoved ==
    /\ gpc = "removed"
    /\ \/ gcN < GcCap /\ gcN' = gcN + 1 /\ GcGoto("sweep")
       \/ cancelled /\ UNCHANGED gcN /\ GcGoto("datastore")
    /\ UNCHANGED <<todo, pend, delFailed, gcs, gcReader, cancelled, addVars,
                   outVars, blkVars, gap, lockVars>>

\* An error is sent: this send does not look at the context.
SendError ==
    /\ pend > 0
    /\ gcN < GcCap
    /\ gcN' = gcN + 1
    /\ pend' = pend - 1
    /\ IF gpc = "errors" /\ pend = 1 THEN GcGoto("unlock") ELSE UNCHANGED gpc
    /\ UNCHANGED <<todo, delFailed, gcs, gcReader, cancelled, addVars, outVars,
                   blkVars, gap, lockVars>>

\* The loop ends when the keys are exhausted or the context is done.
SweepEnds ==
    /\ gpc = "sweep"
    /\ pend = 0
    /\ todo = {} \/ cancelled
    /\ GcGoto("datastore")
    /\ UNCHANGED <<todo, pend, delFailed, gcs, addVars, outVars, blkVars,
                   resVars, gap, lockVars>>

\* ErrCannotDeleteSomeBlocks, then CollectGarbage of the datastore, which may
\* fail with an error of its own.
CollectGarbage ==
    /\ gpc = "datastore"
    /\ \E fails \in BOOLEAN :
        LET n == (IF delFailed THEN 1 ELSE 0) + (IF fails THEN 1 ELSE 0) IN
        /\ pend' = n
        /\ GcGoto(IF n = 0 THEN "unlock" ELSE "errors")
    /\ UNCHANGED <<todo, delFailed, gcs, addVars, outVars, blkVars, resVars,
                   gap, lockVars>>

GcReturnsLocked ==
    /\ gpc = "unlock"
    /\ GcGoto("idle")
    /\ UNCHANGED <<todo, pend, delFailed, gcs, addVars, outVars, blkVars,
                   resVars, gap, lockVars>>

\* The deferred unlock and the close of the channel.
GcReturns ==
    /\ gpc = "unlock"
    /\ GCUnlock(collector)
    /\ GcGoto("idle")
    /\ UNCHANGED <<todo, pend, delFailed, gcs, addVars, outVars, blkVars,
                   resVars, gap>>

\* CollectResult, and the loop of repo gc: results are received until the
\* channel is closed or the context is done.
CollectResult ==
    /\ gcReader = "reading"
    /\ gcN > 0
    /\ gcN' = gcN - 1
    /\ UNCHANGED <<gcReader, cancelled, addVars, outVars, blkVars, gcVars, gap,
                   lockVars>>

Cancel ==
    /\ gpc # "idle"
    /\ ~cancelled
    /\ cancelled' = TRUE
    /\ UNCHANGED <<gcN, gcReader, addVars, outVars, blkVars, gcVars, gap,
                   lockVars>>

CollectResultCancelled ==
    /\ cancelled
    /\ gcReader = "reading"
    /\ gcReader' = "gone"
    /\ UNCHANGED <<gcN, cancelled, addVars, outVars, blkVars, gcVars, gap,
                   lockVars>>

AdderStep ==
    \/ AddFile \/ PinLockGranted \/ NoPause \/ PauseForGC \/ Relock
    \/ AddNode \/ AddNodeFails \/ OutputDagnode \/ AddFileReturns
    \/ Finalize \/ OutputDirs \/ PinRoot \/ PinRootFails \/ AddRReturns

CollectorStep ==
    \/ GcLocked \/ ColoredSet \/ SweepBlock \/ SendKeyRemoved
    \/ SendError \/ SweepEnds \/ CollectGarbage \/ GcReturns

Next ==
    \/ AdderStep \/ CollectorStep
    \/ EmitOut \/ ClientLeaves
    \/ GarbageCollectAsync \/ CollectResult \/ Cancel \/ CollectResultCancelled

Spec == Init /\ [][Next]_vars

(***************************************************************************)
(* Goroutines run, and so do the readers of the two channels while they    *)
(* read.  Nobody has to ask for a collection, to leave or to cancel.       *)
(***************************************************************************)
Fairness ==
    /\ WF_vars(AdderStep)
    /\ WF_vars(CollectorStep)
    /\ WF_vars(EmitOut)
    /\ WF_vars(CollectResult)

FairSpec == Spec /\ Fairness

(***************************************************************************)
(* Properties.                                                             *)
(***************************************************************************)

\* While AddFile (or AddR) holds the PinLock, no collection removes a block
\* it has written since the lock was granted.
FreshPresent ==
    /\ Locked
    /\ apc \in {"entry", "write", "emit", "unlock"}
    => fresh \subseteq store

\* A pinning add that pauses for a collection loses nothing of the root it
\* pinned in the pause; one that never paused loses nothing at all, unless a
\* collection began between two of its AddFile calls or after the last one.
\* Files added after the first pause are not promised: RootNode keeps
\* answering with the root of the first pause.
AddedKept ==
    Pin /\ ~gap /\ apc # "failed" =>
        IF paused THEN root \subseteq store ELSE added \subseteq store

\* When the add command reports success and neither paused nor met a
\* collection between its calls, the root of everything it was given is
\* pinned and complete, and later collections leave it so.
ReportedPinned ==
    Pin /\ apc = "done" /\ ~paused /\ ~gap =>
        /\ added = Files
        /\ added \in pins
        /\ added \in dirs
        /\ added \subseteq store

\* The producer of a channel is blocked for ever: its reader has gone, the
\* buffer is full and the send does not look at a context.
AdderBlocked == client = "gone" /\ outN = OutCap /\ apc \in {"emit", "outputDirs"}
CollectorBlocked == gcReader = "gone" /\ gcN = GcCap /\ pend > 0

\* An add comes to its end, however often collections interrupt it, unless
\* one of the two producers is blocked with its lock held.
AddEnds ==
    apc = "next" ~> \/ apc \in {"done", "failed"}
                    \/ AdderBlocked
                    \/ CollectorBlocked

\* A collection that was asked for is granted the GCLock and releases it
\* again, with the same exceptions.
CollectionEnds ==
    gpc = "lock" ~> gpc = "idle" \/ AdderBlocked \/ CollectorBlocked
=============================================================================
