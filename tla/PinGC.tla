------------------------------- MODULE PinGC -------------------------------
(***************************************************************************)
(* The pinner (pin/pin.go), the garbage collector (pin/gc/gc.go), the      *)
(* commands that pin, unpin, update and remove (core/corerepo,             *)
(* core/commands/pin.go, blocks/blockstoreutil), the blockstore lock they  *)
(* are supposed to agree on, and restarts of the daemon.                   *)
(*                                                                         *)
(* A client runs one command at a time.  Every lock acquisition, every     *)
(* write to the disk and every release is a step of its own, so that the   *)
(* commands interleave as goroutines of the daemon do.                     *)
(***************************************************************************)
EXTENDS Dag, GCLocker

CONSTANTS
    Target,         \* the blocks that commands are given
    Ops,            \* the commands that clients run
    NoBlock,        \* no block
    NoState         \* no pin state

AllOps == {"pinAdd", "pinProgress", "pinRm", "clear", "pinUpdate", "gc",
           "blockRm", "repoRm", "files", "put", "crash"}

ASSUME ConstAssumption ==
    /\ Target \subseteq Block
    /\ Ops \subseteq AllOps
    /\ NoBlock \notin Block

(***************************************************************************)
(* The pin state as Flush writes it: a root node that links a node for the *)
(* direct set and a node for the recursive set.  The nodes are content     *)
(* addressed like any other: a set node is named by the set it stores, a   *)
(* root by the pair.                                                       *)
(***************************************************************************)
PinState == [dir : SUBSET Block, rec : SUBSET Block]

ASSUME NoStateAssumption == NoState \notin PinState

VARIABLES
    store,          \* the data blocks in the blockstore
    setNodes,       \* the pin-set nodes in the blockstore
    rootNodes,      \* the pin-state roots in the blockstore
    dsRoot,         \* what the datastore key /local/pins names
    mfsRoot,        \* the root of the files API, and its datastore key
    recursePin,     \* pinner.recursePin
    directPin,      \* pinner.directPin
    internalPin,    \* pinner.internalPin: the state whose nodes it lists
    plock,          \* the goroutine that holds pinner.lock, or NoClient
    pc,             \* where each client is in its command
    job,            \* the local variables of each client's command
    durable         \* recursive pins reported as stored, not unpinned since

blockVars == <<store, setNodes, rootNodes>>
pinVars == <<recursePin, directPin, internalPin>>
vars == <<store, setNodes, rootNodes, dsRoot, mfsRoot, recursePin, directPin,
          internalPin, plock, pc, job, durable, readers, rwait, writer, gcreq>>

PC == {"idle", "pin", "fetch", "fetched", "pinned", "flushPut", "unlock",
       "unpin", "clear", "update", "updated", "filesAdded", "gcLock", "markRecursive",
       "markBestEffort", "markDirect", "markInternal", "sweep", "rmLock",
       "filterPinned", "rmBlocks", "removeLock", "remove", "delete"}

\* Options of the commands (--recursive, --unpin, Remove's checkPined), and
\* two facts they remember: an error met while marking, and that the handler
\* of pin add --progress has returned before the pinning ended.
Options == {"recursive", "unpin", "checkPined", "errors", "detached"}

Job == [op : AllOps \cup {"none"},
        blk : Block \cup {NoBlock},   \* the block being worked on
        to : Block \cup {NoBlock},    \* Update's new root
        set : SUBSET Block,           \* pinned, marked, or to be removed
        keep : PinState \cup {NoState}, \* the pin state the sweep keeps
        opts : SUBSET Options]        \* the flags that are set

NoJob == [op |-> "none", blk |-> NoBlock, to |-> NoBlock, set |-> {},
          keep |-> NoState, opts |-> {}]

\* The set nodes of a state.
KeptSets(st) == IF st = NoState THEN {} ELSE {st.dir, st.rec}

\* LoadPinner can read a state back when all its nodes are there.
Loadable(st) ==
    /\ st \in rootNodes
    /\ KeptSets(st) \subseteq setNodes

\* Types of the pinner, the blockstore, the stored pin state and the commands.
TypeOK ==
    /\ store \subseteq Block
    /\ setNodes \subseteq SUBSET Block
    /\ rootNodes \subseteq PinState
    /\ dsRoot \in PinState \cup {NoState}
    /\ mfsRoot \in Block \cup {NoBlock}
    /\ recursePin \subseteq Block
    /\ directPin \subseteq Block
    /\ internalPin \in PinState \cup {NoState}
    /\ plock \in Client \cup {NoClient}
    /\ pc \in [Client -> PC]
    /\ job \in [Client -> Job]
    /\ durable \subseteq Block
    /\ LockTypeOK

Init ==
    /\ store = {}
    /\ setNodes = {}
    /\ rootNodes = {}
    /\ dsRoot = NoState
    /\ mfsRoot = NoBlock
    /\ recursePin = {}
    /\ directPin = {}
    /\ internalPin = NoState
    /\ plock = NoClient
    /\ pc = [c \in Client |-> "idle"]
    /\ job = [c \in Client |-> NoJob]
    /\ durable = {}
    /\ LockInit

(***************************************************************************)
(* Steps of a command.                                                     *)
(***************************************************************************)
Goto(c, l) == pc' = [pc EXCEPT ![c] = l]

\* A command that holds no PinLock returns.
Return(c) ==
    /\ Goto(c, "idle")
    /\ job' = [job EXCEPT ![c] = NoJob]

Start(c, op, l, j) ==
    /\ op \in Ops
    /\ pc[c] = "idle"
    /\ Goto(c, l)
    /\ job' = [job EXCEPT ![c] = j]

\* A pinning command that is between two paths: it holds the PinLock, or has
\* let go of it while the goroutine that pins is still running (PinAddCancel).
BetweenPaths(c) ==
    /\ pc[c] \in {"pin", "pinned"}
    /\ c \notin rwait

(***************************************************************************)
(* pin add: PinLock, corerepo.Pin (Pin for every path, then one Flush),    *)
(* unlock.                                                                 *)
(***************************************************************************)
PinOps == {"pinAdd", "pinProgress"}

PinAdd(c) ==
    /\ \E op \in PinOps, opts \in SUBSET {"recursive"} :
           Start(c, op, "pin", [NoJob EXCEPT !.op = op, !.opts = opts])
    /\ PinLock(c)
    /\ UNCHANGED <<blockVars, dsRoot, mfsRoot, pinVars, plock, durable>>

\* Pinner.Pin up to FetchGraph.  A path that is already pinned recursively
\* needs nothing more; otherwise a direct pin of it is dropped first.
PinRecursive(c, b) ==
    /\ BetweenPaths(c)
    /\ "recursive" \in job[c].opts
    /\ plock = NoClient
    /\ store' = store \cup {b}
    /\ IF b \in recursePin
       THEN Goto(c, "pinned") /\ UNCHANGED <<directPin, plock, job>>
       ELSE /\ directPin' = directPin \ {b}
            /\ plock' = c
            /\ job' = [job EXCEPT ![c].blk = b]
            /\ Goto(c, "fetch")
    /\ UNCHANGED <<setNodes, rootNodes, dsRoot, mfsRoot, recursePin,
                   internalPin, durable, lockVars>>

\* mdag.FetchGraph: everything below the root is in the blockstore ...
FetchGraph(c) ==
    /\ pc[c] = "fetch"
    /\ store' = store \cup Graph[job[c].blk]
    /\ Goto(c, "fetched")
    /\ UNCHANGED <<setNodes, rootNodes, dsRoot, mfsRoot, pinVars, plock, job,
                   durable, lockVars>>

\* ... or a block cannot be had, or the context ends: some blocks arrived,
\* and Pin returns the error to a command that returns it without Flush.
FetchGraphFails(c) ==
    /\ pc[c] = "fetch"
    /\ \E S \in SUBSET Graph[job[c].blk] : store' = store \cup S
    /\ plock' = NoClient
    /\ Goto(c, "unlock")
    /\ UNCHANGED <<setNodes, rootNodes, dsRoot, mfsRoot, pinVars, job, durable,
                   lockVars>>

PinRecursiveDone(c) ==
    /\ pc[c] = "fetched"
    /\ recursePin' = recursePin \cup {job[c].blk}
    /\ plock' = NoClient
    /\ job' = [job EXCEPT ![c].blk = NoBlock]
    /\ Goto(c, "pinned")
    /\ UNCHANGED <<blockVars, dsRoot, mfsRoot, directPin, internalPin, durable,
                   lockVars>>

PinDirect(c, b) ==
    /\ BetweenPaths(c)
    /\ "recursive" \notin job[c].opts
    /\ plock = NoClient
    /\ store' = store \cup {b}
    /\ IF b \in recursePin
       THEN Goto(c, "unlock") /\ UNCHANGED directPin
       ELSE directPin' = directPin \cup {b} /\ Goto(c, "pinned")
    /\ UNCHANGED <<setNodes, rootNodes, dsRoot, mfsRoot, recursePin,
                   internalPin, plock, job, durable, lockVars>>

\* A later path of the same command cannot be parsed, resolved or removed:
\* the command returns the error, and what it did so far is not flushed.
PathFails(c) ==
    \/ /\ BetweenPaths(c)
       /\ Goto(c, "unlock")
       /\ UNCHANGED <<blockVars, dsRoot, mfsRoot, pinVars, plock, job, durable,
                      lockVars>>
    \/ /\ pc[c] = "unpin"
       /\ Return(c)
       /\ UNCHANGED <<blockVars, dsRoot, mfsRoot, pinVars, plock, durable,
                      lockVars>>

\* pin add --progress: the request's context ends, the handler returns and
\* its deferred Unlock runs, while corerepo.Pin goes on in its goroutine.
PinAddCancel(c) ==
    /\ job[c].op = "pinProgress"
    /\ "detached" \notin job[c].opts
    /\ c \in readers
    /\ pc[c] # "unlock"
    /\ job' = [job EXCEPT ![c].opts = @ \cup {"detached"}]
    /\ PinUnlock(c)
    /\ UNCHANGED <<blockVars, dsRoot, mfsRoot, pinVars, plock, pc, durable>>

(***************************************************************************)
(* Pinner.Flush.  The nodes of the new state are written, then the         *)
(* datastore key; only then does internalPin name the new nodes.           *)
(***************************************************************************)
Pins == [dir |-> directPin, rec |-> recursePin]

\* Nodes of a state that the datastore key does not name are garbage: no
\* operation reads them, and a Flush of that state writes them again.  The
\* model does not keep them.
DropGarbage(st) ==
    /\ setNodes' = setNodes \cap KeptSets(st)
    /\ rootNodes' = rootNodes \cap {st}

Flush(c) ==
    /\ \/ pc[c] = "pinned"
       \/ pc[c] = "unpin" /\ job[c].set # {}
    /\ plock = NoClient
    /\ plock' = c
    /\ setNodes' = setNodes \cup {directPin, recursePin}
    /\ rootNodes' = rootNodes \cup {Pins}
    /\ Goto(c, "flushPut")
    /\ UNCHANGED <<store, dsRoot, mfsRoot, pinVars, job, durable, lockVars>>

\* Where a command goes on after Flush has returned.
AfterFlush(c, ok) ==
    IF job[c].op \in PinOps
    THEN Goto(c, "unlock") /\ UNCHANGED job
    ELSE \/ Return(c)
         \/ /\ ok
            /\ "clear" \in Ops
            /\ Goto(c, "clear")
            /\ job' = [job EXCEPT ![c].op = "clear"]

\* Mutant: internalPin is not replaced.
FlushPutStaleInternal(c) ==
    /\ pc[c] = "flushPut"
    /\ dsRoot' = Pins
    /\ plock' = NoClient
    /\ durable' = recursePin
    /\ DropGarbage(Pins)
    /\ AfterFlush(c, TRUE)
    /\ UNCHANGED <<store, mfsRoot, pinVars, lockVars>>

\* Mutant: the datastore key is not written.
FlushPutNoKey(c) ==
    /\ pc[c] = "flushPut"
    /\ internalPin' = Pins
    /\ plock' = NoClient
    /\ durable' = recursePin
    /\ DropGarbage(Pins)
    /\ AfterFlush(c, TRUE)
    /\ UNCHANGED <<store, dsRoot, mfsRoot, recursePin, directPin, lockVars>>

FlushPut(c) ==
    /\ pc[c] = "flushPut"
    /\ dsRoot' = Pins
    /\ internalPin' = Pins
    /\ plock' = NoClient
    /\ durable' = recursePin
    /\ DropGarbage(Pins)
    /\ AfterFlush(c, TRUE)
    /\ UNCHANGED <<store, mfsRoot, recursePin, directPin, lockVars>>

\* A node or the key cannot be written.
FlushFails(c) ==
    /\ pc[c] = "flushPut"
    /\ plock' = NoClient
    /\ DropGarbage(dsRoot)
    /\ AfterFlush(c, FALSE)
    /\ UNCHANGED <<store, dsRoot, mfsRoot, pinVars, durable, lockVars>>

PinAddReturn(c) ==
    /\ pc[c] = "unlock"
    /\ Return(c)
    /\ IF "detached" \in job[c].opts THEN UNCHANGED lockVars ELSE PinUnlock(c)
    /\ UNCHANGED <<blockVars, dsRoot, mfsRoot, pinVars, plock, durable>>

(***************************************************************************)
(* pin rm: corerepo.Unpin (Unpin for every path, then one Flush) without   *)
(* the PinLock; with --clear, the unpinned objects are then removed.       *)
(***************************************************************************)
PinRm(c) ==
    /\ \E opts \in SUBSET {"recursive"} :
           Start(c, "pinRm", "unpin",
                 [NoJob EXCEPT !.op = "pinRm", !.opts = opts])
    /\ UNCHANGED <<blockVars, dsRoot, mfsRoot, pinVars, plock, durable, lockVars>>

\* Mutant: a recursive unpin drops the direct pins below the root as well.
UnpinBelow(c, b) ==
    /\ pc[c] = "unpin"
    /\ plock = NoClient
    /\ \/ /\ b \in recursePin
          /\ "recursive" \in job[c].opts
          /\ recursePin' = recursePin \ {b}
          /\ directPin' = directPin \ Graph[b]
          /\ durable' = durable \ {b}
       \/ /\ b \notin recursePin
          /\ b \in directPin
          /\ directPin' = directPin \ {b}
          /\ UNCHANGED <<recursePin, durable>>
    /\ job' = [job EXCEPT ![c].set = @ \cup {b}]
    /\ UNCHANGED <<blockVars, dsRoot, mfsRoot, internalPin, plock, pc, lockVars>>

\* Pinner.Unpin.  A recursive pin needs --recursive; a block that is not
\* pinned, or only below another pin, is an error.
Unpin(c, b) ==
    /\ pc[c] = "unpin"
    /\ plock = NoClient
    /\ \/ /\ b \in recursePin
          /\ "recursive" \in job[c].opts
          /\ recursePin' = recursePin \ {b}
          /\ durable' = durable \ {b}
          /\ UNCHANGED directPin
       \/ /\ b \notin recursePin
          /\ b \in directPin
          /\ directPin' = directPin \ {b}
          /\ UNCHANGED <<recursePin, durable>>
    /\ job' = [job EXCEPT ![c].set = @ \cup {b}]
    /\ UNCHANGED <<blockVars, dsRoot, mfsRoot, internalPin, plock, pc, lockVars>>

(***************************************************************************)
(* pin update: Pinner.Update, with neither the PinLock nor a Flush.        *)
(***************************************************************************)
PinUpdate(c) ==
    /\ plock = NoClient
    /\ \E from \in Target \cap recursePin, to \in Target, opts \in SUBSET {"unpin"} :
           Start(c, "pinUpdate", "update",
                 [NoJob EXCEPT !.op = "pinUpdate", !.blk = from, !.to = to,
                               !.opts = opts])
    /\ plock' = c
    /\ UNCHANGED <<blockVars, dsRoot, mfsRoot, pinVars, durable, lockVars>>

\* dutils.DiffEnumerate: the two roots, and what the new graph adds.
DiffEnumerate(c) ==
    /\ pc[c] = "update"
    /\ store' = store \cup {job[c].blk, job[c].to}
                      \cup (Graph[job[c].to] \ Graph[job[c].blk])
    /\ Goto(c, "updated")
    /\ UNCHANGED <<setNodes, rootNodes, dsRoot, mfsRoot, pinVars, plock, job,
                   durable, lockVars>>

DiffEnumerateFails(c) ==
    /\ pc[c] = "update"
    /\ \E S \in SUBSET Graph[job[c].to] : store' = store \cup S
    /\ plock' = NoClient
    /\ Return(c)
    /\ UNCHANGED <<setNodes, rootNodes, dsRoot, mfsRoot, pinVars, durable,
                   lockVars>>

PinUpdateDone(c) ==
    LET dropped == IF "unpin" \in job[c].opts THEN {job[c].blk} ELSE {}
    IN  /\ pc[c] = "updated"
        /\ recursePin' = (recursePin \cup {job[c].to}) \ dropped
        /\ durable' = (durable \ dropped) \cup {job[c].to}
        /\ plock' = NoClient
        /\ Return(c)
        /\ UNCHANGED <<blockVars, dsRoot, mfsRoot, directPin, internalPin,
                       lockVars>>

(***************************************************************************)
(* corerepo.GarbageCollect and gc.GC.  The roots of the files API are read *)
(* before the lock is asked for.                                           *)
(***************************************************************************)
GarbageCollect(c) ==
    /\ Start(c, "gc", "gcLock", [NoJob EXCEPT !.op = "gc", !.blk = mfsRoot])
    /\ GCLockRequest(c)
    /\ UNCHANGED <<blockVars, dsRoot, mfsRoot, pinVars, plock, durable>>

GCLocked(c) ==
    /\ pc[c] = "gcLock"
    /\ GCLock(c)
    /\ Goto(c, "markRecursive")
    /\ UNCHANGED <<blockVars, dsRoot, mfsRoot, pinVars, plock, job, durable>>

\* gc.ColoredSet, one phase after another.  RecursiveKeys and DirectKeys do
\* not take pinner.lock; an error of a phase is remembered, and the next
\* phase is run all the same.
Mark(c, from, to, marked, errors) ==
    /\ pc[c] = from
    /\ job' = [job EXCEPT ![c] = [job[c] EXCEPT !.set = marked,
                                               !.opts = @ \cup errors]]
    /\ Goto(c, to)
    /\ UNCHANGED <<blockVars, dsRoot, mfsRoot, pinVars, plock, durable, lockVars>>

MarkRecursive(c) ==
    Mark(c, "markRecursive", "markBestEffort",
         Descendants(store, {}, recursePin),
         IF WalkFails(store, {}, recursePin) THEN {"errors"} ELSE {})

\* A missing block is not an error below the best-effort roots.
MarkBestEffort(c) ==
    Mark(c, "markBestEffort", "markDirect",
         Descendants(store, job[c].set, {job[c].blk} \ {NoBlock}), {})

\* Mutant: the direct pins are not marked.
MarkDirectForgotten(c) ==
    Mark(c, "markDirect", "markInternal", job[c].set, {})

MarkDirect(c) ==
    Mark(c, "markDirect", "markInternal", job[c].set \cup directPin, {})

\* Mutant: the collector does not walk into the flushed state.
StatePinsIgnored(st) == {}

\* The walk from the pinner's own nodes reaches, through the set nodes, the
\* blocks that the last flushed state pins, and what is below them.
StatePins(st) == IF st = NoState THEN {} ELSE st.dir \cup st.rec

MarkInternal(c) ==
    LET items == StatePins(internalPin) \ job[c].set
        fails == \/ "errors" \in job[c].opts
                 \/ internalPin # NoState /\ ~Loadable(internalPin)
                 \/ WalkFails(store, job[c].set, items)
    IN  /\ pc[c] = "markInternal"
        /\ plock = NoClient
        /\ IF fails
           THEN /\ Return(c)
                /\ GCUnlock(c)
           ELSE /\ job' = [job EXCEPT
                           ![c].set = Descendants(store, job[c].set, items),
                           ![c].keep = internalPin]
                /\ Goto(c, "sweep")
                /\ UNCHANGED lockVars
        /\ UNCHANGED <<blockVars, dsRoot, mfsRoot, pinVars, plock, durable>>

\* The sweep deletes, one by one, the stored keys that are not marked.
SweepBlock(c) ==
    /\ pc[c] = "sweep"
    /\ \E b \in store \ job[c].set : store' = store \ {b}
    /\ UNCHANGED <<setNodes, rootNodes, dsRoot, mfsRoot, pinVars, plock, pc,
                   job, durable, lockVars>>

SweepPinNode(c) ==
    /\ pc[c] = "sweep"
    /\ \/ /\ \E n \in setNodes \ KeptSets(job[c].keep) :
                 setNodes' = setNodes \ {n}
          /\ UNCHANGED rootNodes
       \/ /\ \E n \in rootNodes \ {job[c].keep} : rootNodes' = rootNodes \ {n}
          /\ UNCHANGED setNodes
    /\ UNCHANGED <<store, dsRoot, mfsRoot, pinVars, plock, pc, job, durable,
                   lockVars>>

\* All keys seen, or the context ended: during the sweep, or while marking,
\* in which case nothing is swept.
GCReturn(c) ==
    /\ pc[c] \in {"markInternal", "sweep"}
    /\ Return(c)
    /\ GCUnlock(c)
    /\ UNCHANGED <<blockVars, dsRoot, mfsRoot, pinVars, plock, durable>>

(***************************************************************************)
(* block rm: RmBlocks.                                                     *)
(***************************************************************************)
Pinned == directPin \cup recursePin \cup GraphOf(recursePin)

BlockRm(c) ==
    /\ \E S \in (SUBSET Target) \ {{}} :
           Start(c, "blockRm", "rmLock",
                 [NoJob EXCEPT !.op = "blockRm", !.set = S])
    /\ GCLockRequest(c)
    /\ UNCHANGED <<blockVars, dsRoot, mfsRoot, pinVars, plock, durable>>

RmLocked(c) ==
    /\ pc[c] = "rmLock"
    /\ GCLock(c)
    /\ Goto(c, "filterPinned")
    /\ UNCHANGED <<blockVars, dsRoot, mfsRoot, pinVars, plock, job, durable>>

\* Mutant: the pins are not looked at.
FilterNothing(c) ==
    /\ pc[c] = "filterPinned"
    /\ Goto(c, "rmBlocks")
    /\ UNCHANGED <<blockVars, dsRoot, mfsRoot, pinVars, plock, job, durable,
                   lockVars>>

\* FilterPinned: the pinned ones are reported and dropped.  When the graph
\* of a pin is incomplete the check may fail, and then nothing is removed.
FilterPinned(c) ==
    /\ pc[c] = "filterPinned"
    /\ plock = NoClient
    /\ \/ job' = [job EXCEPT ![c].set = @ \ Pinned]
       \/ /\ ~(GraphOf(recursePin) \subseteq store)
          /\ job' = [job EXCEPT ![c].set = {}]
    /\ Goto(c, "rmBlocks")
    /\ UNCHANGED <<blockVars, dsRoot, mfsRoot, pinVars, plock, durable, lockVars>>

RmBlock(c) ==
    /\ pc[c] = "rmBlocks"
    /\ \E b \in job[c].set :
           /\ store' = store \ {b}
           /\ job' = [job EXCEPT ![c].set = @ \ {b}]
    /\ UNCHANGED <<setNodes, rootNodes, dsRoot, mfsRoot, pinVars, plock, pc,
                   durable, lockVars>>

RmReturn(c) ==
    /\ pc[c] = "rmBlocks"
    /\ job[c].set = {}
    /\ Return(c)
    /\ GCUnlock(c)
    /\ UNCHANGED <<blockVars, dsRoot, mfsRoot, pinVars, plock, durable>>

(***************************************************************************)
(* gc.Remove: repo rm checks the pins of every block, pin rm --clear does  *)
(* not (checkPined is false).                                              *)
(***************************************************************************)
RepoRm(c) ==
    /\ \E S \in (SUBSET Target) \ {{}}, opts \in SUBSET {"recursive"} :
           Start(c, "repoRm", "removeLock",
                 [NoJob EXCEPT !.op = "repoRm", !.set = S,
                               !.opts = opts \cup {"checkPined"}])
    /\ GCLockRequest(c)
    /\ UNCHANGED <<blockVars, dsRoot, mfsRoot, pinVars, plock, durable>>

Clear(c) ==
    /\ pc[c] = "clear"
    /\ GCLockRequest(c)
    /\ Goto(c, "removeLock")
    /\ UNCHANGED <<blockVars, dsRoot, mfsRoot, pinVars, plock, job, durable>>

RemoveLocked(c) ==
    /\ pc[c] = "removeLock"
    /\ GCLock(c)
    /\ job' = [job EXCEPT ![c].set = IF "recursive" \in job[c].opts
                                     THEN Descendants(store, {}, @) ELSE @]
    /\ Goto(c, "remove")
    /\ UNCHANGED <<blockVars, dsRoot, mfsRoot, pinVars, plock, durable>>

\* A pinned block is passed over, and so is one whose check failed.
RemoveCheck(c) ==
    /\ pc[c] = "remove"
    /\ \E b \in job[c].set :
           /\ job' = [job EXCEPT ![c] = [job[c] EXCEPT !.set = @ \ {b}, !.blk = b]]
           /\ IF "checkPined" \in job[c].opts
              THEN /\ plock = NoClient
                   /\ \/ b \notin Pinned /\ Goto(c, "delete")
                      \/ /\ b \in Pinned \/ ~(GraphOf(recursePin) \subseteq store)
                         /\ UNCHANGED pc
              ELSE Goto(c, "delete")
    /\ UNCHANGED <<blockVars, dsRoot, mfsRoot, pinVars, plock, durable, lockVars>>

RemoveDelete(c) ==
    /\ pc[c] = "delete"
    /\ store' = store \ {job[c].blk}
    /\ Goto(c, "remove")
    /\ UNCHANGED <<setNodes, rootNodes, dsRoot, mfsRoot, pinVars, plock, job,
                   durable, lockVars>>

\* The list is worked off, or the context ended.
RemoveReturn(c) ==
    /\ pc[c] = "remove"
    /\ Return(c)
    /\ GCUnlock(c)
    /\ UNCHANGED <<blockVars, dsRoot, mfsRoot, pinVars, plock, durable>>

(***************************************************************************)
(* Writers that take no lock: a flushed write through the files API adds   *)
(* its nodes bottom up and then names the new root; block put, cat and     *)
(* bitswap put single blocks into the blockstore.                          *)
(***************************************************************************)
FilesAdd(c) ==
    /\ \E b \in Target :
           /\ Start(c, "files", "filesAdded",
                    [NoJob EXCEPT !.op = "files", !.blk = b])
           /\ store' = store \cup Graph[b]
    /\ UNCHANGED <<setNodes, rootNodes, dsRoot, mfsRoot, pinVars, plock, durable,
                   lockVars>>

FilesFlush(c) ==
    /\ pc[c] = "filesAdded"
    /\ mfsRoot' = job[c].blk
    /\ Return(c)
    /\ UNCHANGED <<blockVars, dsRoot, pinVars, plock, durable, lockVars>>

PutBlock ==
    /\ "put" \in Ops
    /\ \E b \in Block \ store : store' = store \cup {b}
    /\ UNCHANGED <<setNodes, rootNodes, dsRoot, mfsRoot, pinVars, plock, pc,
                   job, durable, lockVars>>

(***************************************************************************)
(* The daemon dies and is started again: LoadPinner, and NewPinner when    *)
(* that fails.                                                             *)
(***************************************************************************)
\* Mutant: the keys of the set nodes are loaded as if they were pins.
RestartLoadsNodes ==
    /\ "crash" \in Ops
    /\ dsRoot # NoState
    /\ recursePin' = {dsRoot.rec}
    /\ directPin' = {dsRoot.dir}
    /\ internalPin' = dsRoot
    /\ DropGarbage(dsRoot)
    /\ plock' = NoClient
    /\ pc' = [c \in Client |-> "idle"]
    /\ job' = [c \in Client |-> NoJob]
    /\ LockReset
    /\ UNCHANGED <<store, dsRoot, mfsRoot, durable>>

Restart ==
    /\ "crash" \in Ops
    /\ IF dsRoot # NoState /\ Loadable(dsRoot)
       THEN /\ recursePin' = dsRoot.rec
            /\ directPin' = dsRoot.dir
            /\ internalPin' = dsRoot
       ELSE /\ recursePin' = {}
            /\ directPin' = {}
            /\ internalPin' = NoState
    /\ DropGarbage(dsRoot)
    /\ plock' = NoClient
    /\ pc' = [c \in Client |-> "idle"]
    /\ job' = [c \in Client |-> NoJob]
    /\ LockReset
    /\ UNCHANGED <<store, dsRoot, mfsRoot, durable>>

Begin(c) ==
    \/ PinAdd(c) \/ PinRm(c) \/ PinUpdate(c) \/ GarbageCollect(c)
    \/ BlockRm(c) \/ RepoRm(c) \/ FilesAdd(c)

\* A command has finitely many paths: it gets to the end of its list.
LeaveLoop(c) == Flush(c) \/ PathFails(c)

Continue(c) ==
    \/ FetchGraph(c) \/ FetchGraphFails(c) \/ PinRecursiveDone(c)
    \/ FlushPut(c) \/ FlushFails(c) \/ PinAddReturn(c)
    \/ DiffEnumerate(c) \/ DiffEnumerateFails(c) \/ PinUpdateDone(c)
    \/ MarkRecursive(c) \/ MarkBestEffort(c) \/ MarkDirect(c)
    \/ MarkInternal(c) \/ SweepBlock(c) \/ SweepPinNode(c) \/ GCReturn(c)
    \/ FilterPinned(c) \/ RmBlock(c) \/ RmReturn(c)
    \/ Clear(c) \/ RemoveCheck(c) \/ RemoveDelete(c) \/ RemoveReturn(c)
    \/ FilesFlush(c)

Acquire(c) == GCLocked(c) \/ RmLocked(c) \/ RemoveLocked(c)

Next ==
    \/ \E c \in Client :
           \/ Begin(c) \/ Acquire(c) \/ Continue(c) \/ LeaveLoop(c)
           \/ PinAddCancel(c)
           \/ \E b \in Target : PinRecursive(c, b) \/ PinDirect(c, b) \/ Unpin(c, b)
    \/ PutBlock
    \/ Restart

Spec == Init /\ [][Next]_vars

(***************************************************************************)
(* Fairness.  A goroutine that can take a step takes it, and a fetch ends: *)
(* with the graph, or with an error.  The steps that wait for a lock, or   *)
(* end a loop over a finite list of paths or keys, are taken when they are *)
(* possible again and again: Go's mutexes hand over to a waiter that has   *)
(* starved, and the lists end.                                             *)
(***************************************************************************)
Waits(c) ==
    \/ MarkInternal(c) \/ FilterPinned(c) \/ RemoveCheck(c)
    \/ GCReturn(c) \/ RemoveReturn(c) \/ LeaveLoop(c)

Fairness ==
    \A c \in Client : /\ WF_vars(Continue(c))
                      /\ SF_vars(Waits(c))
                      /\ SF_vars(Acquire(c))

FairSpec == Spec /\ Fairness

----------------------------------------------------------------------------
\* The abstract store that the commands work on.
Promised == INSTANCE PinStore WITH blocks <- store, rec <- recursePin, dir <- directPin

\* The commands implement the promise of PinStore: no step of an interleaved
\* collection, removal or pin does anything that the promise rules out.
KeepsPromise == Promised!Spec

\* Every recursive pin has its whole graph in the blockstore and every
\* direct pin its block, whatever collections, removals and restarts
\* interleave with pinning: "repo gc" and "block rm" only remove what is
\* not pinned, and Pin only records a root whose graph it has fetched.
PinnedPresent ==
    /\ GraphOf(recursePin) \subseteq store
    /\ directPin \subseteq store

\* The state that the datastore key names can be read back: the collector
\* never deletes the nodes the pinner stores its own state in.
PinStateLoadable == dsRoot # NoState => Loadable(dsRoot)

\* What the stored state pins is complete as well, so that a restart, which
\* forgets everything that was not flushed, does not revive a broken pin.
FlushedPresent ==
    dsRoot # NoState => /\ GraphOf(dsRoot.rec) \subseteq store
                        /\ dsRoot.dir \subseteq store

\* A recursive pin that a command has flushed, or reported as done, stays
\* pinned, restarts included, until a command unpins it.
DurablePinned == durable \subseteq recursePin

\* A collector or remover that waits for the GCLock gets it, however many
\* commands pin meanwhile, and a pin that waits for a collection goes on.
LockGranted ==
    \A c \in Client : /\ c \in gcreq ~> writer = c
                      /\ c \in rwait ~> c \in readers
============================================================================
