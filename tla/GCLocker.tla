------------------------------ MODULE GCLocker ------------------------------
(***************************************************************************)
(* The blockstore's GCLocker (go-ipfs-blockstore, outside this repository, *)
(* modelled from how core/builder.go builds it and pin/gc/gc.go,           *)
(* core/coreunix/add.go and the commands use it): a readers-writer lock.   *)
(* PinLock is the shared side, GCLock the exclusive one, GCRequested says  *)
(* that someone is waiting in GCLock.  As in Go's sync.RWMutex a waiting   *)
(* writer holds back new readers, and a writer that unlocks lets every     *)
(* reader in that was waiting for it.                                      *)
(***************************************************************************)
CONSTANTS
    Client,         \* the goroutines that run commands
    NoClient        \* no goroutine

ASSUME ClientAssumption == NoClient \notin Client

VARIABLES
    readers,        \* the goroutines that hold the PinLock
    rwait,          \* the goroutines blocked in PinLock
    writer,         \* the goroutine that holds the GCLock, or NoClient
    gcreq           \* the goroutines blocked in GCLock

lockVars == <<readers, rwait, writer, gcreq>>

\* Types of the reader-writer lock of the GC locker.
LockTypeOK ==
    /\ readers \subseteq Client
    /\ rwait \subseteq Client
    /\ writer \in Client \cup {NoClient}
    /\ gcreq \subseteq Client

LockInit ==
    /\ readers = {}
    /\ rwait = {}
    /\ writer = NoClient
    /\ gcreq = {}

GCRequested == gcreq # {}

\* Mutant: readers pass a waiting writer.
PinLockPassing(c) ==
    /\ IF writer = NoClient
       THEN readers' = readers \cup {c} /\ UNCHANGED rwait
       ELSE rwait' = rwait \cup {c} /\ UNCHANGED readers
    /\ UNCHANGED <<writer, gcreq>>

PinLock(c) ==
    /\ IF writer = NoClient /\ gcreq = {}
       THEN readers' = readers \cup {c} /\ UNCHANGED rwait
       ELSE rwait' = rwait \cup {c} /\ UNCHANGED readers
    /\ UNCHANGED <<writer, gcreq>>

PinUnlock(c) ==
    /\ readers' = readers \ {c}
    /\ UNCHANGED <<rwait, writer, gcreq>>

GCLockRequest(c) ==
    /\ gcreq' = gcreq \cup {c}
    /\ UNCHANGED <<readers, rwait, writer>>

GCLock(c) ==
    /\ c \in gcreq
    /\ readers = {}
    /\ writer = NoClient
    /\ writer' = c
    /\ gcreq' = gcreq \ {c}
    /\ UNCHANGED <<readers, rwait>>

GCUnlock(c) ==
    /\ writer' = NoClient
    /\ readers' = readers \cup rwait
    /\ rwait' = {}
    /\ UNCHANGED gcreq

\* A crash of the process: the lock lives in memory.
LockReset ==
    /\ readers' = {}
    /\ rwait' = {}
    /\ writer' = NoClient
    /\ gcreq' = {}
=============================================================================
