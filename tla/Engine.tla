------------------------------- MODULE Engine -------------------------------
(***************************************************************************)
(* The serving side of bitswap: the decision engine with its ledgers       *)
(* (exchange/bitswap/decision/engine.go, ledger.go), and the task workers  *)
(* that send what the engine hands out (exchange/bitswap/workers.go).      *)
(*                                                                         *)
(* A handler first finds the ledger of its peer under the engine's lock,   *)
(* and later works on it under the ledger's own lock; in between the       *)
(* ledger can be dropped from the map, and the handler then works on a     *)
(* ledger that nobody else sees.  AddBlock holds the engine's lock while   *)
(* it visits the ledgers one by one.                                       *)
(***************************************************************************)
EXTENDS PeerRequestQueue

CONSTANTS
    Env,            \* what peers and the node do besides asking and adding
    Workers,        \* the task workers, with one envelope each
    MaxEvents,      \* bound on messages, connections, puts and deletes
    None            \* no task, no key

AllEnv == {"cancel", "full", "delete", "connect"}

ASSUME EngineAssumption ==
    /\ Env \subseteq AllEnv
    /\ Workers \in Nat \ {0}
    /\ MaxEvents \in Nat
    /\ None \notin Task \cup Key

VARIABLES
    have,           \* the keys in the blockstore
    adding,         \* keys that were put and whose AddBlock has not begun
    addKey,         \* the key whose AddBlock holds the engine's lock
    addLeft,        \* the ledgers this AddBlock has still to visit
    addWork,        \* whether it pushed a task
    ledgers,        \* ledgerMap: the peers that have a ledger
    wantList,       \* ledger.wantList
    ref,            \* ledger.ref
    received,       \* messages whose handler has found its ledger
    stale,          \* handlers that hold a ledger no longer in ledgerMap
    workSignal,     \* whether the workSignal channel is full
    worker,         \* where Engine.taskWorker is
    nextTask,       \* its task
    outbox,         \* envelopes a task worker took
    accounting,     \* envelopes whose MessageSent has found its ledger
    sending,        \* envelopes on their way, until the Sent callback
    delivered,      \* the blocks that went out, by peer
    events          \* messages, connections, puts and deletes so far

addVars == <<adding, addKey, addLeft, addWork>>
ledgerVars == <<ledgers, wantList, ref>>
workerVars == <<worker, nextTask, outbox, accounting, sending, delivered>>
vars == <<prqVars, have, addVars, ledgerVars, received, stale, workSignal,
          workerVars, events>>

Message == [from : Peer, key : Key, kind : {"want", "full", "cancel"}]

\* Types of the decision engine, its queue, ledgers, workers and messages.
TypeOK ==
    /\ PrqTypeOK
    /\ have \subseteq Key
    /\ adding \subseteq Key
    /\ addKey \in Key \cup {None}
    /\ addLeft \subseteq Peer
    /\ addWork \in BOOLEAN
    /\ ledgers \subseteq Peer
    /\ wantList \in [Peer -> SUBSET Key]
    /\ ref \in [Peer -> Nat]
    /\ received \subseteq Message
    /\ stale \subseteq received \cup accounting
    /\ workSignal \in BOOLEAN
    /\ worker \in {"pop", "wait", "get", "failed"}
    /\ nextTask \in Task \cup {None}
    /\ outbox \subseteq Task
    /\ accounting \subseteq Task
    /\ sending \subseteq Task
    /\ delivered \in [Peer -> SUBSET Key]
    /\ events \in 0..MaxEvents

Init ==
    /\ newPRQ
    /\ have \in SUBSET Key
    /\ adding = {}
    /\ addKey = None
    /\ addLeft = {}
    /\ addWork = FALSE
    /\ ledgers = {}
    /\ wantList = [p \in Peer |-> {}]
    /\ ref = [p \in Peer |-> 0]
    /\ received = {}
    /\ stale = {}
    /\ workSignal = FALSE
    /\ worker = "pop"
    /\ nextTask = None
    /\ outbox = {}
    /\ accounting = {}
    /\ sending = {}
    /\ delivered = [p \in Peer |-> {}]
    /\ events = 0

Event == events < MaxEvents /\ events' = events + 1

EngineUnlocked == addKey = None

findOrCreate(p) == EngineUnlocked /\ ledgers' = ledgers \cup {p}

(***************************************************************************)
(* Engine.taskWorker and nextEnvelope.  The worker looks for a task once a *)
(* task worker of bitswap has taken the channel for its envelope.          *)
(***************************************************************************)
InHand == outbox \cup accounting \cup sending

Pop ==
    /\ worker = "pop"
    /\ Cardinality(InHand) < Workers
    /\ \/ PopNil /\ worker' = "wait" /\ UNCHANGED nextTask
       \/ \E p \in Peer, k \in Key :
              /\ PopTask(p, k)
              /\ worker' = "get"
              /\ nextTask' = [to |-> p, key |-> k]
    /\ UNCHANGED <<have, addVars, ledgerVars, received, stale, workSignal,
                   outbox, accounting, sending, delivered, events>>

WakeBySignal ==
    /\ worker = "wait"
    /\ workSignal
    /\ workSignal' = FALSE
    /\ worker' = "pop"
    /\ UNCHANGED <<prqVars, have, addVars, ledgerVars, received, stale,
                   nextTask, outbox, accounting, sending, delivered, events>>

WakeByTicker ==
    /\ worker = "wait"
    /\ thawRound
    /\ worker' = "pop"
    /\ UNCHANGED <<have, addVars, ledgerVars, received, stale, workSignal,
                   nextTask, outbox, accounting, sending, delivered, events>>

\* The blockstore is asked for the block, which may be gone by now.
GetBlock ==
    /\ worker = "get"
    /\ IF nextTask.key \in have
       THEN /\ worker' = "pop"
            /\ outbox' = outbox \cup {nextTask}
            /\ nextTask' = None
       ELSE /\ worker' = "failed"
            /\ UNCHANGED <<outbox, nextTask>>
    /\ UNCHANGED <<prqVars, have, addVars, ledgerVars, received, stale,
                   workSignal, accounting, sending, delivered, events>>

\* GetFailed as it would be without the call of nextTask.Done.
GetFailedSilently ==
    /\ worker = "failed"
    /\ worker' = "pop"
    /\ nextTask' = None
    /\ UNCHANGED <<prqVars, have, addVars, ledgerVars, received, stale,
                   workSignal, outbox, accounting, sending, delivered, events>>

GetFailed ==
    /\ worker = "failed"
    /\ Done(nextTask)
    /\ worker' = "pop"
    /\ nextTask' = None
    /\ UNCHANGED <<have, addVars, ledgerVars, received, stale, workSignal,
                   outbox, accounting, sending, delivered, events>>

(***************************************************************************)
(* Bitswap.taskWorker: MessageSent, the sending, and the Sent callback.    *)
(* The callback runs however the sending ends.                             *)
(***************************************************************************)
MessageSentFind(t) ==
    /\ t \in outbox
    /\ outbox' = outbox \ {t}
    /\ accounting' = accounting \cup {t}
    /\ findOrCreate(t.to)
    /\ UNCHANGED <<prqVars, have, addVars, wantList, ref, received, stale,
                   workSignal, worker, nextTask, sending, delivered, events>>

MessageSent(t) ==
    /\ t \in accounting
    /\ accounting' = accounting \ {t}
    /\ sending' = sending \cup {t}
    /\ stale' = stale \ {t}
    /\ IF t \in stale
       THEN UNCHANGED wantList
       ELSE wantList' = [wantList EXCEPT ![t.to] = @ \ {t.key}]
    /\ Remove(t.to, t.key)
    /\ UNCHANGED <<have, addVars, ledgers, ref, received, workSignal, worker,
                   nextTask, outbox, delivered, events>>

Sent(t) ==
    /\ t \in sending
    /\ sending' = sending \ {t}
    /\ delivered' = [delivered EXCEPT ![t.to] = @ \cup {t.key}]
    /\ Done(t)
    /\ workSignal' = TRUE
    /\ UNCHANGED <<have, addVars, ledgerVars, received, stale, worker,
                   nextTask, outbox, accounting, events>>

(***************************************************************************)
(* MessageReceived.  A message has one entry here: one with several is     *)
(* handled as that many, one after the other.                              *)
(***************************************************************************)
Receive(m) ==
    /\ Event
    /\ m.kind = "want" \/ m.kind \in Env
    /\ received' = received \cup {m}
    /\ m \notin received
    /\ findOrCreate(m.from)
    /\ UNCHANGED <<prqVars, have, addVars, wantList, ref, stale, workSignal,
                   workerVars>>

\* What the message does to the wantlist of its sender.
Wanted(m) ==
    CASE m.kind = "want" -> wantList[m.from] \cup {m.key}
      [] m.kind = "full" -> {m.key}
      [] m.kind = "cancel" -> wantList[m.from] \ {m.key}

MessageReceived(m) ==
    /\ m \in received
    /\ received' = received \ {m}
    /\ stale' = stale \ {m}
    /\ IF m \in stale
       THEN UNCHANGED wantList
       ELSE wantList' = [wantList EXCEPT ![m.from] = Wanted(m)]
    /\ \/ /\ m.kind = "cancel"
          /\ Remove(m.from, m.key)
          /\ UNCHANGED workSignal
       \/ /\ m.kind # "cancel"
          /\ m.key \in have
          /\ Push(m.from, m.key)
          /\ workSignal' = TRUE
       \/ /\ m.kind # "cancel"
          /\ m.key \notin have
          /\ UNCHANGED <<prqVars, workSignal>>
    /\ UNCHANGED <<have, addVars, ledgers, ref, workerVars, events>>

(***************************************************************************)
(* A block arrives (Bitswap.receiveBlockFrom): it is put into the          *)
(* blockstore, and then AddBlock looks for the ledgers that want it.       *)
(***************************************************************************)
PutBlock(k) ==
    /\ Event
    /\ k \notin adding
    /\ have' = have \cup {k}
    /\ adding' = adding \cup {k}
    /\ UNCHANGED <<prqVars, addKey, addLeft, addWork, ledgerVars, received,
                   stale, workSignal, workerVars>>

AddBlock(k) ==
    /\ EngineUnlocked
    /\ k \in adding
    /\ adding' = adding \ {k}
    /\ addKey' = k
    /\ addLeft' = ledgers
    /\ addWork' = FALSE
    /\ UNCHANGED <<prqVars, have, ledgerVars, received, stale, workSignal,
                   workerVars, events>>

\* AddBlockTo as it would be if it only served peers already in the queue.
AddBlockToPartner(p) ==
    /\ p \in addLeft
    /\ addLeft' = addLeft \ {p}
    /\ IF addKey \in wantList[p] /\ p \in partners
       THEN Push(p, addKey) /\ addWork' = TRUE
       ELSE UNCHANGED <<prqVars, addWork>>
    /\ UNCHANGED <<have, adding, addKey, ledgerVars, received, stale,
                   workSignal, workerVars, events>>

AddBlockTo(p) ==
    /\ p \in addLeft
    /\ addLeft' = addLeft \ {p}
    /\ IF addKey \in wantList[p]
       THEN Push(p, addKey) /\ addWork' = TRUE
       ELSE UNCHANGED <<prqVars, addWork>>
    /\ UNCHANGED <<have, adding, addKey, ledgerVars, received, stale,
                   workSignal, workerVars, events>>

AddBlockReturn ==
    /\ ~EngineUnlocked
    /\ addLeft = {}
    /\ addKey' = None
    /\ workSignal' = (workSignal \/ addWork)
    /\ addWork' = FALSE
    /\ UNCHANGED <<prqVars, have, adding, addLeft, ledgerVars, received,
                   stale, workerVars, events>>

\* The garbage collector deletes a block.
DeleteBlock(k) ==
    /\ Event
    /\ "delete" \in Env
    /\ k \in have
    /\ have' = have \ {k}
    /\ UNCHANGED <<prqVars, addVars, ledgerVars, received, stale, workSignal,
                   workerVars>>

PeerConnected(p) ==
    /\ Event
    /\ "connect" \in Env
    /\ findOrCreate(p)
    /\ ref' = [ref EXCEPT ![p] = @ + 1]
    /\ UNCHANGED <<prqVars, have, addVars, wantList, received, stale,
                   workSignal, workerVars>>

\* PeerDisconnected as it would be if only a count of 0 dropped the ledger.
PeerDisconnectedLate(p) ==
    /\ Event
    /\ "connect" \in Env
    /\ EngineUnlocked
    /\ p \in ledgers
    /\ ref' = [ref EXCEPT ![p] = @ - 1]
    /\ IF ref[p] = 1
       THEN /\ ledgers' = ledgers \ {p}
            /\ wantList' = [wantList EXCEPT ![p] = {}]
            /\ stale' = stale \cup {m \in received : m.from = p}
                              \cup {t \in accounting : t.to = p}
       ELSE UNCHANGED <<ledgers, wantList, stale>>
    /\ UNCHANGED <<prqVars, have, addVars, received, workSignal, workerVars>>

\* The ledger goes with its last connection; the queued tasks stay.
PeerDisconnected(p) ==
    /\ Event
    /\ "connect" \in Env
    /\ EngineUnlocked
    /\ p \in ledgers
    /\ IF ref[p] <= 1
       THEN /\ ledgers' = ledgers \ {p}
            /\ wantList' = [wantList EXCEPT ![p] = {}]
            /\ ref' = [ref EXCEPT ![p] = 0]
            /\ stale' = stale \cup {m \in received : m.from = p}
                              \cup {t \in accounting : t.to = p}
       ELSE /\ ref' = [ref EXCEPT ![p] = @ - 1]
            /\ UNCHANGED <<ledgers, wantList, stale>>
    /\ UNCHANGED <<prqVars, have, addVars, received, workSignal, workerVars>>

TaskWorkers ==
    \E t \in Task : MessageSentFind(t) \/ MessageSent(t) \/ Sent(t)

Handlers ==
    \/ \E m \in Message : MessageReceived(m)
    \/ \E k \in Key : AddBlock(k)
    \/ \E p \in Peer : AddBlockTo(p)
    \/ AddBlockReturn

Outside ==
    \/ \E m \in Message : Receive(m)
    \/ \E k \in Key : PutBlock(k) \/ DeleteBlock(k)
    \/ \E p \in Peer : PeerConnected(p) \/ PeerDisconnected(p)

Next ==
    \/ Pop \/ WakeBySignal \/ WakeByTicker \/ GetBlock \/ GetFailed
    \/ TaskWorkers
    \/ Handlers
    \/ Outside

Spec == Init /\ [][Next]_vars

\* The goroutines take their steps; the ticker never stops.
Fairness ==
    /\ WF_vars(Pop)
    /\ WF_vars(WakeBySignal)
    /\ WF_vars(WakeByTicker)
    /\ WF_vars(GetBlock)
    /\ WF_vars(GetFailed)
    /\ WF_vars(TaskWorkers)
    /\ WF_vars(Handlers)

FairSpec == Spec /\ Fairness

(***************************************************************************)
(* Properties.                                                             *)
(***************************************************************************)

\* The tasks that were popped and whose Done callback is still to come.
Started == InHand \cup ({nextTask} \ {None})

\* The bookkeeping of activePartner is exact: the keys it counts as active
\* are those of the tasks between Pop and Done, each task once.  So TaskDone
\* never panics with "more tasks finished than started!", and no block is on
\* its way to the same peer twice at a time.
ActiveExact ==
    \A p \in Peer :
        /\ activeBlocks[p] = {t.key : t \in {u \in Started : u.to = p}}
        /\ active[p] = Cardinality(activeBlocks[p])
        /\ activeBlocks[p] \cap queued[p] = {}

\* "requests is the number of blocks this peer is currently requesting": the
\* counter that partnerCompare ranks partners by is the number of tasks that
\* are queued and not trash.
RequestsExact ==
    \A p \in Peer : requests[p] = Cardinality(Live(p))

\* "Any block we possess that is wanted by another peer has a task in the
\* peer request queue created for it": a key on a ledger's wantlist that is
\* in the blockstore is queued or being sent, unless the block already went
\* out to that peer, or its AddBlock is still to reach that ledger.
WantedHasTask ==
    \A p \in ledgers : \A k \in wantList[p] \cap have :
        \/ k \in Live(p) \cup activeBlocks[p] \cup delivered[p]
        \/ k \in adding
        \/ k = addKey /\ p \in addLeft

\* "Pop 'pops' the next task to be performed.  Returns nil if no task
\* exists": while no partner is frozen and some partner has a task, the
\* partner that Pop looks at has one.
PopFindsTask ==
    (\A p \in Peer : freezeVal[p] = 0) /\ (\E p \in Peer : Live(p) # {})
        => \A p \in Foremost : Live(p) # {}

\* A queued task is served: Pop hands it out, whatever other partners ask
\* for, or its peer cancels it.
QueuedIsServed ==
    \A p \in Peer, k \in Key : k \in Live(p) ~> k \notin Live(p)
=============================================================================
