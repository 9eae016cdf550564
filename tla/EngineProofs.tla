---------------------------- MODULE EngineProofs ----------------------------
(***************************************************************************)
(* Proofs about Engine, for every set of peers and keys, any number of     *)
(* task workers and any bound on the events.                               *)
(***************************************************************************)
EXTENDS Engine, FiniteSetTheorems, TLAPS

(***************************************************************************)
(* Types.  To be inductive the type invariant also says that the engine's  *)
(* worker has a task exactly when it is about to read or give up a block,  *)
(* and that AddBlock visits ledgers only while it has a key.               *)
(***************************************************************************)
TypeInv ==
    /\ TypeOK
    /\ worker \in {"get", "failed"} <=> nextTask \in Task
    /\ addLeft # {} => addKey \in Key

\* A new engine is well typed.
LEMMA TypeInit == Init => TypeInv
<1> SUFFICES ASSUME Init
             PROVE  TypeInv
    OBVIOUS
<1>1. PrqTypeOK
    BY DEF Init, newPRQ, PrqTypeOK
<1>2. addWork \in BOOLEAN /\ workSignal \in BOOLEAN
    BY Zenon DEF Init
<1>3. None \notin Task /\ 0 \in 0..MaxEvents
    BY EngineAssumption
<1> QED
    BY Zenon, <1>1, <1>2, <1>3 DEF Init, TypeInv, TypeOK

\* Push keeps the types of the queue.
LEMMA PushType ==
    ASSUME PrqTypeOK, NEW p \in Peer, NEW k \in Key, Push(p, k)
    PROVE  PrqTypeOK'
BY DEF PrqTypeOK, Push

\* Remove keeps the types of the queue.
LEMMA RemoveType ==
    ASSUME PrqTypeOK, NEW p \in Peer, NEW k \in Key, Remove(p, k)
    PROVE  PrqTypeOK'
BY DEF PrqTypeOK, Remove, prqVars

\* Every step of the engine, of a handler or from outside keeps the types.
LEMMA TypeStep == TypeInv /\ [Next]_vars => TypeInv'
<1> SUFFICES ASSUME TypeInv, [Next]_vars
             PROVE  TypeInv'
    OBVIOUS
<1> USE EngineAssumption DEF TypeInv, TypeOK, PrqTypeOK, prqVars, addVars, ledgerVars, workerVars
<1>1. ASSUME Pop
      PROVE  TypeInv'
    BY <1>1 DEF Pop, PopNil, PopTask, Live, Foremost, Task
<1>2. ASSUME WakeBySignal
      PROVE  TypeInv'
    BY Zenon, <1>2 DEF WakeBySignal
<1>3. ASSUME WakeByTicker
      PROVE  TypeInv'
    BY <1>3 DEF WakeByTicker, thawRound
<1>4. ASSUME GetBlock
      PROVE  TypeInv'
    BY Zenon, <1>4 DEF GetBlock
<1>5. ASSUME GetFailed
      PROVE  TypeInv'
    BY <1>5 DEF GetFailed, Done, Task
<1>6. ASSUME NEW t \in Task, MessageSentFind(t)
      PROVE  TypeInv'
    BY Zenon, <1>6 DEF MessageSentFind, findOrCreate, Task
<1>7. ASSUME NEW t \in Task, MessageSent(t)
      PROVE  TypeInv'
    BY <1>7 DEF MessageSent, Remove, Task
<1>8. ASSUME NEW t \in Task, Sent(t)
      PROVE  TypeInv'
    BY <1>8 DEF Sent, Done, Task
<1>9. ASSUME NEW m \in Message, MessageReceived(m)
      PROVE  TypeInv'
    <2>1. m.from \in Peer /\ m.key \in Key
        BY Zenon DEF Message
    <2>2. PrqTypeOK' /\ workSignal' \in BOOLEAN
        <3>1. CASE m.kind = "cancel"
            BY Zenon, <1>9, <2>1, <3>1, RemoveType DEF MessageReceived
        <3>2. CASE m.kind # "cancel" /\ m.key \in have
            BY Zenon, <1>9, <2>1, <3>2, PushType DEF MessageReceived
        <3>3. CASE m.kind # "cancel" /\ m.key \notin have
            BY Zenon, <1>9, <3>3 DEF MessageReceived
        <3> QED
            BY Zenon, <3>1, <3>2, <3>3
    <2>3. wantList' \in [Peer -> SUBSET Key]
        <3>1. Wanted(m) \in SUBSET Key
            BY Zenon, <2>1 DEF Wanted, Message
        <3> QED
            BY <1>9, <2>1, <3>1 DEF MessageReceived
    <2> QED
        BY Zenon, <1>9, <2>2, <2>3 DEF MessageReceived
<1>10. ASSUME NEW k \in Key, AddBlock(k)
      PROVE  TypeInv'
    BY Zenon, <1>10 DEF AddBlock
<1>11. ASSUME NEW p \in Peer, AddBlockTo(p)
      PROVE  TypeInv'
    <2>1. CASE addKey \in wantList[p]
        <3>1. PrqTypeOK' /\ addWork' \in BOOLEAN
            BY <1>11, <2>1, PushType, Zenon DEF AddBlockTo
        <3> QED
            BY Zenon, <1>11, <3>1 DEF AddBlockTo
    <2>2. CASE addKey \notin wantList[p]
        BY Zenon, <1>11, <2>2 DEF AddBlockTo
    <2> QED
        BY Zenon, <2>1, <2>2
<1>12. ASSUME AddBlockReturn
      PROVE  TypeInv'
    BY Zenon, <1>12 DEF AddBlockReturn, EngineUnlocked
<1>13. ASSUME NEW m \in Message, Receive(m)
      PROVE  TypeInv'
    BY <1>13 DEF Receive, Event, findOrCreate, Message
<1>14. ASSUME NEW k \in Key, PutBlock(k)
      PROVE  TypeInv'
    BY <1>14 DEF PutBlock, Event
<1>15. ASSUME NEW k \in Key, DeleteBlock(k)
      PROVE  TypeInv'
    BY <1>15 DEF DeleteBlock, Event
<1>16. ASSUME NEW p \in Peer, PeerConnected(p)
      PROVE  TypeInv'
    BY <1>16 DEF PeerConnected, Event, findOrCreate
<1>17. ASSUME NEW p \in Peer, PeerDisconnected(p)
      PROVE  TypeInv'
    BY <1>17 DEF PeerDisconnected, Event
<1>18. ASSUME UNCHANGED vars
      PROVE  TypeInv'
    BY Zenon, <1>18 DEF vars
<1> QED
    BY ZenonT(30), <1>1, <1>2, <1>3, <1>4, <1>5, <1>6, <1>7, <1>8, <1>9, <1>10,
       <1>11, <1>12, <1>13, <1>14, <1>15, <1>16, <1>17, <1>18
    DEF Next, TaskWorkers, Handlers, Outside

\* Spec keeps the strengthened type invariant.
LEMMA TypeInvariant == Spec => []TypeInv
BY TypeInit, TypeStep, PTL DEF Spec

\* The state of the engine, its queue, its ledgers and its workers always has
\* the types the code declares; in particular ledger.ref and freezeVal are
\* never negative, and no handler holds on to a ledger after it has returned.
THEOREM TypeCorrect == Spec => []TypeOK
<1>1. TypeInv => TypeOK
    BY Zenon DEF TypeInv
<1> QED
    BY <1>1, TypeInvariant, PTL

(***************************************************************************)
(* The bookkeeping of the active tasks.  A task is with the engine's       *)
(* worker or in one of the three stages of a task worker, and never twice; *)
(* the partner counts exactly these, and has none of them queued as well.  *)
(***************************************************************************)
Apart ==
    /\ nextTask \notin InHand
    /\ outbox \cap accounting = {}
    /\ outbox \cap sending = {}
    /\ accounting \cap sending = {}

Counted ==
    \A p \in Peer, k \in Key :
        k \in activeBlocks[p] <=> [to |-> p, key |-> k] \in Started

NotQueued == \A p \in Peer : activeBlocks[p] \cap queued[p] = {}

ActiveInv == Apart /\ Counted /\ NotQueued

\* A task is given by its peer and its key.
LEMMA TaskFields ==
    ASSUME NEW t \in Task
    PROVE  t.to \in Peer /\ t.key \in Key /\ t = [to |-> t.to, key |-> t.key]
BY Zenon DEF Task

\* Nothing is active in a new engine.
LEMMA ActiveInit == Init => ActiveInv
<1> SUFFICES ASSUME Init
             PROVE  ActiveInv
    OBVIOUS
<1>1. Started = {} /\ InHand = {}
    BY Zenon DEF Init, Started, InHand
<1> QED
    BY Zenon, <1>1 DEF Init, newPRQ, ActiveInv, Apart, Counted, NotQueued

\* Done undoes what StartTask did for a task that leaves the workers.
LEMMA DoneActive ==
    ASSUME TypeInv, ActiveInv, NEW t \in Started, Done(t),
           Started' = Started \ {t}
    PROVE  Counted' /\ NotQueued'
<1>1. t \in Task /\ t.to \in Peer /\ t.key \in Key
    BY Zenon, TaskFields DEF Started, InHand, TypeInv, TypeOK
<1>2. ASSUME NEW p \in Peer, NEW k \in Key
      PROVE  k \in activeBlocks'[p] <=> [to |-> p, key |-> k] \in Started'
    <2>1. CASE p = t.to /\ k = t.key
        BY Zenon, <1>1, <2>1, TaskFields DEF Done, TypeInv, TypeOK, PrqTypeOK
    <2>2. CASE ~(p = t.to /\ k = t.key)
        <3>1. [to |-> p, key |-> k] # t
            BY <2>2
        <3>2. k \in activeBlocks'[p] <=> k \in activeBlocks[p]
            BY Zenon, <1>1, <2>2 DEF Done, TypeInv, TypeOK, PrqTypeOK
        <3> QED
            BY Zenon, <3>1, <3>2 DEF ActiveInv, Counted
    <2> QED
        BY Zenon, <2>1, <2>2
<1>3. NotQueued'
    BY Zenon, <1>1 DEF Done, ActiveInv, NotQueued, TypeInv, TypeOK, PrqTypeOK
<1> QED
    BY Zenon, <1>2, <1>3 DEF Counted

\* Push keeps a started task out of the queue, and starts none.
LEMMA PushActive ==
    ASSUME TypeInv, ActiveInv, NEW p \in Peer, NEW k \in Key, Push(p, k)
    PROVE  NotQueued' /\ UNCHANGED activeBlocks
BY DEF Push, ActiveInv, NotQueued, TypeInv, TypeOK, PrqTypeOK

\* Remove starts no task and queues none.
LEMMA RemoveActive ==
    ASSUME ActiveInv, NEW p, NEW k, Remove(p, k)
    PROVE  NotQueued' /\ UNCHANGED activeBlocks
BY Zenon DEF Remove, prqVars, ActiveInv, NotQueued

\* Every step keeps the bookkeeping.
LEMMA ActiveStep == TypeInv /\ ActiveInv /\ [Next]_vars => ActiveInv'
<1> SUFFICES ASSUME TypeInv, ActiveInv, [Next]_vars
             PROVE  ActiveInv'
    OBVIOUS
<1>a. ASSUME UNCHANGED <<nextTask, outbox, accounting, sending, activeBlocks>>, NotQueued'
      PROVE  ActiveInv'
    BY Zenon, <1>a DEF ActiveInv, Apart, Counted, Started, InHand
<1>b. ASSUME UNCHANGED <<nextTask, outbox, accounting, sending, activeBlocks, queued>>
      PROVE  ActiveInv'
    BY Zenon, <1>a, <1>b DEF ActiveInv, NotQueued
<1>c. ASSUME Started' = Started, UNCHANGED activeBlocks, Apart', NotQueued'
      PROVE  ActiveInv'
    BY Zenon, <1>c DEF ActiveInv, Counted
<1>1. ASSUME Pop
      PROVE  ActiveInv'
    <2>1. CASE PopNil /\ UNCHANGED nextTask
        <3>1. NotQueued' /\ UNCHANGED activeBlocks
            BY Zenon, <2>1 DEF PopNil, prqVars, ActiveInv, NotQueued, TypeInv,
                TypeOK, PrqTypeOK
        <3> QED
            BY Zenon, <1>1, <2>1, <3>1, <1>a DEF Pop
    <2>2. ASSUME NEW p \in Peer, NEW k \in Key, PopTask(p, k),
                 nextTask' = [to |-> p, key |-> k]
          PROVE  ActiveInv'
        <3> DEFINE t == [to |-> p, key |-> k]
        <3>1. t \in Task /\ nextTask \notin Task /\ nextTask \in Task \cup {None}
            BY Zenon, <1>1 DEF Pop, Task, TypeInv, TypeOK
        <3>2. UNCHANGED <<outbox, accounting, sending>> /\ InHand' = InHand
            BY Zenon, <1>1 DEF Pop, InHand
        <3>3. Started = InHand /\ Started' = InHand \cup {t}
            BY Zenon, <2>2, <3>1, <3>2, EngineAssumption DEF Started
        <3>4. k \notin activeBlocks[p]
            BY Zenon, <2>2 DEF PopTask, Live, ActiveInv, NotQueued
        <3>5. Apart'
            BY Zenon, <2>2, <3>2, <3>3, <3>4 DEF Apart, ActiveInv, Counted
        <3>6. NotQueued'
            BY Zenon, <2>2 DEF PopTask, ActiveInv, NotQueued, TypeInv, TypeOK,
                PrqTypeOK
        <3>7. ASSUME NEW q \in Peer, NEW j \in Key
              PROVE  j \in activeBlocks'[q] <=> [to |-> q, key |-> j] \in Started'
            <4>1. j \in activeBlocks'[q] <=> j \in activeBlocks[q] \/ (q = p /\ j = k)
                BY Zenon, <2>2 DEF PopTask, TypeInv, TypeOK, PrqTypeOK
            <4>2. [to |-> q, key |-> j] = t <=> (q = p /\ j = k)
                OBVIOUS
            <4> QED
                BY Zenon, <3>3, <4>1, <4>2 DEF ActiveInv, Counted
        <3> QED
            BY Zenon, <3>5, <3>6, <3>7 DEF ActiveInv, Counted
    <2> QED
        BY Zenon, <1>1, <2>1, <2>2 DEF Pop
<1>2. ASSUME WakeBySignal
      PROVE  ActiveInv'
    BY Zenon, <1>2, <1>b DEF WakeBySignal, prqVars
<1>3. ASSUME WakeByTicker
      PROVE  ActiveInv'
    BY Zenon, <1>3, <1>b DEF WakeByTicker, thawRound
<1>4. ASSUME GetBlock
      PROVE  ActiveInv'
    <2>1. CASE nextTask.key \in have
        <3>1. nextTask \in Task
            BY Zenon, <1>4 DEF GetBlock, TypeInv
        <3>2. Started' = Started
            BY Zenon, <1>4, <2>1, <3>1, EngineAssumption DEF GetBlock,
                Started, InHand
        <3>3. Apart'
            BY <1>4, <2>1, <3>1, EngineAssumption DEF GetBlock, ActiveInv,
                Apart, InHand, TypeInv, TypeOK
        <3> QED
            BY Zenon, <1>4, <3>2, <3>3, <1>c DEF GetBlock, prqVars, ActiveInv,
                NotQueued
    <2>2. CASE nextTask.key \notin have
        BY Zenon, <1>4, <2>2, <1>b DEF GetBlock, prqVars
    <2> QED
        BY Zenon, <2>1, <2>2
<1>5. ASSUME GetFailed
      PROVE  ActiveInv'
    <2>1. nextTask \in Started /\ Started' = Started \ {nextTask}
        BY Zenon, <1>5, EngineAssumption DEF GetFailed, Started, InHand,
            TypeInv, ActiveInv, Apart
    <2>2. Apart'
        BY Zenon, <1>5, EngineAssumption DEF GetFailed, ActiveInv, Apart,
            InHand, TypeInv, TypeOK
    <2> QED
        BY Zenon, <1>5, <2>1, <2>2, DoneActive DEF GetFailed, ActiveInv
<1>6. ASSUME NEW t \in Task, MessageSentFind(t)
      PROVE  ActiveInv'
    <2>1. Started' = Started /\ Apart'
        BY Zenon, <1>6 DEF MessageSentFind, Started, InHand, ActiveInv, Apart
    <2> QED
        BY Zenon, <1>6, <2>1, <1>c DEF MessageSentFind, prqVars, ActiveInv,
            NotQueued
<1>7. ASSUME NEW t \in Task, MessageSent(t)
      PROVE  ActiveInv'
    <2>1. Started' = Started /\ Apart'
        BY Zenon, <1>7 DEF MessageSent, Started, InHand, ActiveInv, Apart
    <2> QED
        BY Zenon, <1>7, <2>1, <1>c, RemoveActive DEF MessageSent
<1>8. ASSUME NEW t \in Task, Sent(t)
      PROVE  ActiveInv'
    <2>1. t \in Started /\ Started' = Started \ {t} /\ Apart'
        BY Zenon, <1>8 DEF Sent, Started, InHand, ActiveInv, Apart
    <2> QED
        BY Zenon, <1>8, <2>1, DoneActive DEF Sent, ActiveInv
<1>9. ASSUME NEW m \in Message, MessageReceived(m)
      PROVE  ActiveInv'
    <2>1. m.from \in Peer /\ m.key \in Key
        BY Zenon DEF Message
    <2>2. NotQueued' /\ UNCHANGED activeBlocks
        BY Zenon, <1>9, <2>1, PushActive, RemoveActive DEF MessageReceived,
            prqVars, ActiveInv, NotQueued
    <2> QED
        BY Zenon, <1>9, <2>2, <1>a DEF MessageReceived, workerVars
<1>10. ASSUME NEW k \in Key, AddBlock(k)
      PROVE  ActiveInv'
    BY Zenon, <1>10, <1>b DEF AddBlock, prqVars, workerVars
<1>11. ASSUME NEW p \in Peer, AddBlockTo(p)
      PROVE  ActiveInv'
    <2>1. addKey \in Key
        BY Zenon, <1>11 DEF AddBlockTo, TypeInv
    <2>2. NotQueued' /\ UNCHANGED activeBlocks
        BY Zenon, <1>11, <2>1, PushActive DEF AddBlockTo, prqVars, ActiveInv,
            NotQueued
    <2> QED
        BY Zenon, <1>11, <2>2, <1>a DEF AddBlockTo, workerVars
<1>12. ASSUME AddBlockReturn
      PROVE  ActiveInv'
    BY Zenon, <1>12, <1>b DEF AddBlockReturn, prqVars, workerVars
<1>13. ASSUME NEW m \in Message, Receive(m)
      PROVE  ActiveInv'
    BY Zenon, <1>13, <1>b DEF Receive, prqVars, workerVars
<1>14. ASSUME NEW k \in Key, PutBlock(k)
      PROVE  ActiveInv'
    BY Zenon, <1>14, <1>b DEF PutBlock, prqVars, workerVars
<1>15. ASSUME NEW k \in Key, DeleteBlock(k)
      PROVE  ActiveInv'
    BY Zenon, <1>15, <1>b DEF DeleteBlock, prqVars, workerVars
<1>16. ASSUME NEW p \in Peer, PeerConnected(p)
      PROVE  ActiveInv'
    BY Zenon, <1>16, <1>b DEF PeerConnected, prqVars, workerVars
<1>17. ASSUME NEW p \in Peer, PeerDisconnected(p)
      PROVE  ActiveInv'
    BY Zenon, <1>17, <1>b DEF PeerDisconnected, prqVars, workerVars
<1>18. ASSUME UNCHANGED vars
      PROVE  ActiveInv'
    BY Zenon, <1>18, <1>b DEF vars, prqVars, workerVars
<1> QED
    BY Zenon, <1>1, <1>2, <1>3, <1>4, <1>5, <1>6, <1>7, <1>8, <1>9, <1>10,
       <1>11, <1>12, <1>13, <1>14, <1>15, <1>16, <1>17, <1>18
    DEF Next, TaskWorkers, Handlers, Outside

(***************************************************************************)
(* activePartner.active counts the active blocks.                          *)
(***************************************************************************)
ActiveCount ==
    \A p \in Peer : /\ IsFiniteSet(activeBlocks[p])
                    /\ active[p] = Cardinality(activeBlocks[p])

\* StartTask adds one block that is not active yet to both, Done takes one
\* away that is, and nothing else touches them.
LEMMA ActiveCountStep ==
    TypeInv /\ ActiveInv /\ ActiveCount /\ [Next]_vars => ActiveCount'
<1> SUFFICES ASSUME TypeInv, ActiveInv, ActiveCount, [Next]_vars
             PROVE  ActiveCount'
    OBVIOUS
<1>a. ASSUME UNCHANGED <<active, activeBlocks>>
      PROVE  ActiveCount'
    BY Zenon, <1>a DEF ActiveCount
<1>b. ASSUME NEW t \in Started, Done(t)
      PROVE  ActiveCount'
    <2>1. t \in Task /\ t.to \in Peer /\ t.key \in Key
        BY Zenon, TaskFields DEF Started, InHand, TypeInv, TypeOK
    <2>2. t.key \in activeBlocks[t.to]
        BY Zenon, <2>1, TaskFields DEF ActiveInv, Counted
    <2>3. ASSUME NEW p \in Peer
          PROVE  IsFiniteSet(activeBlocks'[p]) /\ active'[p] = Cardinality(activeBlocks'[p])
        <3>1. CASE p = t.to
            <4>1. activeBlocks'[p] = activeBlocks[p] \ {t.key} /\ active'[p] = active[p] - 1
                BY Zenon, <1>b, <2>1, <3>1 DEF Done, TypeInv, TypeOK, PrqTypeOK
            <4>2. /\ IsFiniteSet(activeBlocks[p] \ {t.key})
                  /\ Cardinality(activeBlocks[p] \ {t.key}) = Cardinality(activeBlocks[p]) - 1
                BY Zenon, <2>2, <3>1, FS_RemoveElement DEF ActiveCount
            <4> QED
                BY Zenon, <4>1, <4>2 DEF ActiveCount
        <3>2. CASE p # t.to
            BY Zenon, <1>b, <2>1, <3>2 DEF Done, ActiveCount, TypeInv, TypeOK,
                PrqTypeOK
        <3> QED
            BY Zenon, <3>1, <3>2
    <2> QED
        BY Zenon, <2>3 DEF ActiveCount
<1>1. ASSUME Pop
      PROVE  ActiveCount'
    <2>1. CASE PopNil
        BY Zenon, <2>1, <1>a DEF PopNil, prqVars
    <2>2. ASSUME NEW p \in Peer, NEW k \in Key, PopTask(p, k)
          PROVE  ActiveCount'
        <3>1. k \notin activeBlocks[p]
            BY Zenon, <2>2 DEF PopTask, Live, ActiveInv, NotQueued
        <3>2. ASSUME NEW q \in Peer
              PROVE  IsFiniteSet(activeBlocks'[q]) /\ active'[q] = Cardinality(activeBlocks'[q])
            <4>1. CASE q = p
                <5>1. activeBlocks'[q] = activeBlocks[q] \cup {k} /\ active'[q] = active[q] + 1
                    BY Zenon, <2>2, <4>1 DEF PopTask, TypeInv, TypeOK, PrqTypeOK
                <5>2. /\ IsFiniteSet(activeBlocks[q] \cup {k})
                      /\ Cardinality(activeBlocks[q] \cup {k}) = Cardinality(activeBlocks[q]) + 1
                    BY Zenon, <3>1, <4>1, FS_AddElement DEF ActiveCount
                <5> QED
                    BY Zenon, <5>1, <5>2 DEF ActiveCount
            <4>2. CASE q # p
                BY Zenon, <2>2, <4>2 DEF PopTask, ActiveCount, TypeInv,
                    TypeOK, PrqTypeOK
            <4> QED
                BY Zenon, <4>1, <4>2
        <3> QED
            BY Zenon, <3>2 DEF ActiveCount
    <2> QED
        BY Zenon, <1>1, <2>1, <2>2 DEF Pop
<1>2. ASSUME WakeBySignal
      PROVE  ActiveCount'
    BY Zenon, <1>2, <1>a DEF WakeBySignal, prqVars
<1>3. ASSUME WakeByTicker
      PROVE  ActiveCount'
    BY Zenon, <1>3, <1>a DEF WakeByTicker, thawRound
<1>4. ASSUME GetBlock
      PROVE  ActiveCount'
    BY Zenon, <1>4, <1>a DEF GetBlock, prqVars
<1>5. ASSUME GetFailed
      PROVE  ActiveCount'
    <2>1. nextTask \in Started
        BY Zenon, <1>5, EngineAssumption DEF GetFailed, Started, TypeInv
    <2> QED
        BY Zenon, <1>5, <2>1, <1>b DEF GetFailed
<1>6. ASSUME NEW t \in Task, MessageSentFind(t)
      PROVE  ActiveCount'
    BY Zenon, <1>6, <1>a DEF MessageSentFind, prqVars
<1>7. ASSUME NEW t \in Task, MessageSent(t)
      PROVE  ActiveCount'
    BY Zenon, <1>7, <1>a DEF MessageSent, Remove, prqVars
<1>8. ASSUME NEW t \in Task, Sent(t)
      PROVE  ActiveCount'
    <2>1. t \in Started
        BY Zenon, <1>8 DEF Sent, Started, InHand
    <2> QED
        BY Zenon, <1>8, <2>1, <1>b DEF Sent
<1>9. ASSUME NEW m \in Message, MessageReceived(m)
      PROVE  ActiveCount'
    BY Zenon, <1>9, <1>a DEF MessageReceived, Remove, Push, prqVars
<1>10. ASSUME NEW k \in Key, AddBlock(k)
      PROVE  ActiveCount'
    BY Zenon, <1>10, <1>a DEF AddBlock, prqVars
<1>11. ASSUME NEW p \in Peer, AddBlockTo(p)
      PROVE  ActiveCount'
    BY Zenon, <1>11, <1>a DEF AddBlockTo, Push, prqVars
<1>12. ASSUME AddBlockReturn
      PROVE  ActiveCount'
    BY Zenon, <1>12, <1>a DEF AddBlockReturn, prqVars
<1>13. ASSUME NEW m \in Message, Receive(m)
      PROVE  ActiveCount'
    BY Zenon, <1>13, <1>a DEF Receive, prqVars
<1>14. ASSUME NEW k \in Key, PutBlock(k)
      PROVE  ActiveCount'
    BY Zenon, <1>14, <1>a DEF PutBlock, prqVars
<1>15. ASSUME NEW k \in Key, DeleteBlock(k)
      PROVE  ActiveCount'
    BY Zenon, <1>15, <1>a DEF DeleteBlock, prqVars
<1>16. ASSUME NEW p \in Peer, PeerConnected(p)
      PROVE  ActiveCount'
    BY Zenon, <1>16, <1>a DEF PeerConnected, prqVars
<1>17. ASSUME NEW p \in Peer, PeerDisconnected(p)
      PROVE  ActiveCount'
    BY Zenon, <1>17, <1>a DEF PeerDisconnected, prqVars
<1>18. ASSUME UNCHANGED vars
      PROVE  ActiveCount'
    BY Zenon, <1>18, <1>a DEF vars, prqVars
<1> QED
    BY Zenon, <1>1, <1>2, <1>3, <1>4, <1>5, <1>6, <1>7, <1>8, <1>9, <1>10,
       <1>11, <1>12, <1>13, <1>14, <1>15, <1>16, <1>17, <1>18
    DEF Next, TaskWorkers, Handlers, Outside

\* Nothing is active in a new engine, and nothing counted.
LEMMA ActiveCountInit == Init => ActiveCount
BY Zenon, FS_EmptySet DEF Init, newPRQ, ActiveCount

\* Spec keeps the bookkeeping.
LEMMA ActiveInvariant == Spec => [](TypeInv /\ ActiveInv /\ ActiveCount)
<1>1. Init => TypeInv /\ ActiveInv /\ ActiveCount
    BY Zenon, TypeInit, ActiveInit, ActiveCountInit
<1>2. TypeInv /\ ActiveInv /\ ActiveCount /\ [Next]_vars
          => (TypeInv /\ ActiveInv /\ ActiveCount)'
    BY Zenon, TypeStep, ActiveStep, ActiveCountStep
<1> QED
    BY <1>1, <1>2, PTL DEF Spec

\* Whatever peers ask and cancel, whoever connects or leaves and whatever the
\* collector deletes, a partner's active blocks are those of the tasks between
\* Pop and Done, each counted once: TaskDone never panics, and a block is
\* never on its way to one peer twice at a time.
THEOREM ActiveBookkeeping == Spec => []ActiveExact
<1>1. TypeInv /\ ActiveInv /\ ActiveCount => ActiveExact
    <2> SUFFICES ASSUME TypeInv, ActiveInv, ActiveCount, NEW p \in Peer
                 PROVE  /\ activeBlocks[p] = {t.key : t \in {u \in Started : u.to = p}}
                        /\ active[p] = Cardinality(activeBlocks[p])
                        /\ activeBlocks[p] \cap queued[p] = {}
        BY Zenon DEF ActiveExact
    <2>1. Started \subseteq Task /\ activeBlocks[p] \subseteq Key
        BY Zenon DEF Started, InHand, TypeInv, TypeOK, PrqTypeOK
    <2>2. ASSUME NEW k \in activeBlocks[p]
          PROVE  k \in {t.key : t \in {u \in Started : u.to = p}}
        <3>1. [to |-> p, key |-> k] \in Started
            BY Zenon, <2>1 DEF ActiveInv, Counted
        <3> QED
            BY <3>1
    <2>3. ASSUME NEW t \in Started, t.to = p
          PROVE  t.key \in activeBlocks[p]
        BY Zenon, <2>1, <2>3, TaskFields DEF ActiveInv, Counted
    <2> QED
        BY <2>2, <2>3 DEF ActiveInv, NotQueued, ActiveCount
<1> QED
    BY <1>1, ActiveInvariant, PTL

(***************************************************************************)
(* The count of requests, when no peer sends a cancel.  Then no task is    *)
(* ever marked as trash: MessageSent calls Remove as well, but for a block *)
(* that is active, and an active block is not queued.                      *)
(***************************************************************************)
RequestsInv ==
    /\ \A m \in received : m.kind # "cancel"
    /\ \A p \in Peer : /\ trash[p] = {}
                       /\ IsFiniteSet(queued[p])
                       /\ requests[p] = Cardinality(queued[p])

\* A new queue has no tasks, and counts none.
LEMMA RequestsInit == Init => RequestsInv
BY Zenon, FS_EmptySet DEF Init, newPRQ, RequestsInv

\* MessageSent finds no task to remove.
LEMMA SentNotQueued ==
    ASSUME TypeInv, ActiveInv, NEW t \in Task, MessageSent(t)
    PROVE  UNCHANGED prqVars
<1>1. t \in Started /\ t.to \in Peer /\ t.key \in Key
    BY Zenon, TaskFields DEF MessageSent, Started, InHand
<1>2. t.key \in activeBlocks[t.to]
    BY Zenon, <1>1, TaskFields DEF ActiveInv, Counted
<1>3. t.key \notin queued[t.to]
    BY Zenon, <1>1, <1>2 DEF ActiveInv, NotQueued
<1> QED
    BY Zenon, <1>3 DEF MessageSent, Remove

\* Push counts the task it queues.
LEMMA PushCounts ==
    ASSUME TypeInv, RequestsInv, NEW p \in Peer, NEW k \in Key, Push(p, k)
    PROVE  \A q \in Peer : /\ trash'[q] = {}
                           /\ IsFiniteSet(queued'[q])
                           /\ requests'[q] = Cardinality(queued'[q])
<1> SUFFICES ASSUME NEW q \in Peer
             PROVE  /\ trash'[q] = {}
                    /\ IsFiniteSet(queued'[q])
                    /\ requests'[q] = Cardinality(queued'[q])
    OBVIOUS
<1>1. CASE k \in activeBlocks[p] \/ k \in queued[p] \/ q # p
    BY Zenon, <1>1 DEF Push, RequestsInv, TypeInv, TypeOK, PrqTypeOK
<1>2. CASE ~(k \in activeBlocks[p] \/ k \in queued[p]) /\ q = p
    <2>1. /\ queued'[q] = queued[q] \cup {k}
          /\ requests'[q] = requests[q] + 1
          /\ trash'[q] = trash[q]
        BY Zenon, <1>2 DEF Push, TypeInv, TypeOK, PrqTypeOK
    <2>2. /\ IsFiniteSet(queued[q] \cup {k})
          /\ Cardinality(queued[q] \cup {k}) = Cardinality(queued[q]) + 1
        BY Zenon, <1>2, FS_AddElement DEF RequestsInv
    <2> QED
        BY Zenon, <2>1, <2>2 DEF RequestsInv
<1> QED
    BY Zenon, <1>1, <1>2

\* Pop, without trash, takes one task and counts it, or changes nothing.
LEMMA PopCounts ==
    ASSUME TypeInv, RequestsInv, NEW p \in Peer, NEW k \in Key, PopTask(p, k)
    PROVE  \A q \in Peer : /\ trash'[q] = {}
                           /\ IsFiniteSet(queued'[q])
                           /\ requests'[q] = Cardinality(queued'[q])
<1> SUFFICES ASSUME NEW q \in Peer
             PROVE  /\ trash'[q] = {}
                    /\ IsFiniteSet(queued'[q])
                    /\ requests'[q] = Cardinality(queued'[q])
    OBVIOUS
<1>1. PICK dropped \in SUBSET (queued[p] \cap trash[p]) :
          /\ queued' = [queued EXCEPT ![p] = @ \ (dropped \cup {k})]
          /\ trash' = [trash EXCEPT ![p] = @ \ dropped]
    BY Zenon DEF PopTask
<1>2. dropped = {} /\ k \in queued[p]
    BY Zenon, <1>1 DEF RequestsInv, PopTask, Live
<1>3. CASE q = p
    <2>1. /\ queued'[q] = queued[q] \ {k}
          /\ requests'[q] = requests[q] - 1
          /\ trash'[q] = trash[q]
        BY ZenonT(30), <1>1, <1>2, <1>3 DEF PopTask, TypeInv, TypeOK, PrqTypeOK
    <2>2. /\ IsFiniteSet(queued[q] \ {k})
          /\ Cardinality(queued[q] \ {k}) = Cardinality(queued[q]) - 1
        BY Zenon, <1>2, <1>3, FS_RemoveElement DEF RequestsInv
    <2> QED
        BY Zenon, <2>1, <2>2 DEF RequestsInv
<1>4. CASE q # p
    BY Zenon, <1>1, <1>4 DEF PopTask, RequestsInv, TypeInv, TypeOK, PrqTypeOK
<1> QED
    BY Zenon, <1>3, <1>4

\* Without trash to drop, a Pop that returns nil changes nothing.
LEMMA PopNilKeeps ==
    ASSUME TypeInv, RequestsInv, PopNil
    PROVE  UNCHANGED prqVars
<1>1. ASSUME NEW p \in Foremost, Live(p) = {},
             queued' = [queued EXCEPT ![p] = {}], trash' = [trash EXCEPT ![p] = {}]
      PROVE  UNCHANGED <<queued, trash>>
    <2>1. p \in Peer
        BY Zenon DEF Foremost, TypeInv, TypeOK, PrqTypeOK
    <2>2. trash[p] = {} /\ queued[p] = {}
        BY Zenon, <1>1, <2>1 DEF Live, RequestsInv
    <2> QED
        BY Zenon, <1>1, <2>1, <2>2 DEF TypeInv, TypeOK, PrqTypeOK
<1> QED
    BY Zenon, <1>1 DEF PopNil, prqVars

\* While no peer sends a cancel, every step keeps the count of requests.
LEMMA RequestsStep ==
    ASSUME "cancel" \notin Env
    PROVE  TypeInv /\ ActiveInv /\ RequestsInv /\ [Next]_vars => RequestsInv'
<1> SUFFICES ASSUME TypeInv, ActiveInv, RequestsInv, [Next]_vars
             PROVE  RequestsInv'
    OBVIOUS
<1>a. ASSUME UNCHANGED <<queued, trash, requests>>, received' \subseteq received
      PROVE  RequestsInv'
    BY Zenon, <1>a DEF RequestsInv
<1>b. ASSUME \A q \in Peer : /\ trash'[q] = {}
                             /\ IsFiniteSet(queued'[q])
                             /\ requests'[q] = Cardinality(queued'[q]),
             received' \subseteq received
      PROVE  RequestsInv'
    BY Zenon, <1>b DEF RequestsInv
<1>1. ASSUME Pop
      PROVE  RequestsInv'
    BY Zenon, <1>1, <1>a, <1>b, PopNilKeeps, PopCounts DEF Pop, prqVars
<1>2. ASSUME WakeBySignal
      PROVE  RequestsInv'
    BY Zenon, <1>2, <1>a DEF WakeBySignal, prqVars
<1>3. ASSUME WakeByTicker
      PROVE  RequestsInv'
    BY Zenon, <1>3, <1>a DEF WakeByTicker, thawRound
<1>4. ASSUME GetBlock
      PROVE  RequestsInv'
    BY Zenon, <1>4, <1>a DEF GetBlock, prqVars
<1>5. ASSUME GetFailed
      PROVE  RequestsInv'
    BY Zenon, <1>5, <1>a DEF GetFailed, Done
<1>6. ASSUME NEW t \in Task, MessageSentFind(t)
      PROVE  RequestsInv'
    BY Zenon, <1>6, <1>a DEF MessageSentFind, prqVars
<1>7. ASSUME NEW t \in Task, MessageSent(t)
      PROVE  RequestsInv'
    BY Zenon, <1>7, <1>a, SentNotQueued DEF MessageSent, prqVars
<1>8. ASSUME NEW t \in Task, Sent(t)
      PROVE  RequestsInv'
    BY Zenon, <1>8, <1>a DEF Sent, Done
<1>9. ASSUME NEW m \in Message, MessageReceived(m)
      PROVE  RequestsInv'
    <2>1. m.from \in Peer /\ m.key \in Key
        BY Zenon DEF Message
    <2>2. m.kind # "cancel"
        BY Zenon, <1>9 DEF MessageReceived, RequestsInv
    <2> QED
        BY Zenon, <1>9, <2>1, <2>2, <1>a, <1>b, PushCounts DEF
            MessageReceived, prqVars
<1>10. ASSUME NEW k \in Key, AddBlock(k)
      PROVE  RequestsInv'
    BY Zenon, <1>10, <1>a DEF AddBlock, prqVars
<1>11. ASSUME NEW p \in Peer, AddBlockTo(p)
      PROVE  RequestsInv'
    <2>1. addKey \in Key
        BY Zenon, <1>11 DEF AddBlockTo, TypeInv
    <2> QED
        BY Zenon, <1>11, <2>1, <1>a, <1>b, PushCounts DEF AddBlockTo, prqVars
<1>12. ASSUME AddBlockReturn
      PROVE  RequestsInv'
    BY Zenon, <1>12, <1>a DEF AddBlockReturn, prqVars
<1>13. ASSUME NEW m \in Message, Receive(m)
      PROVE  RequestsInv'
    BY Zenon, <1>13 DEF Receive, RequestsInv, prqVars
<1>14. ASSUME NEW k \in Key, PutBlock(k)
      PROVE  RequestsInv'
    BY Zenon, <1>14, <1>a DEF PutBlock, prqVars
<1>15. ASSUME NEW k \in Key, DeleteBlock(k)
      PROVE  RequestsInv'
    BY Zenon, <1>15, <1>a DEF DeleteBlock, prqVars
<1>16. ASSUME NEW p \in Peer, PeerConnected(p)
      PROVE  RequestsInv'
    BY Zenon, <1>16, <1>a DEF PeerConnected, prqVars
<1>17. ASSUME NEW p \in Peer, PeerDisconnected(p)
      PROVE  RequestsInv'
    BY Zenon, <1>17, <1>a DEF PeerDisconnected, prqVars
<1>18. ASSUME UNCHANGED vars
      PROVE  RequestsInv'
    BY Zenon, <1>18, <1>a DEF vars, prqVars
<1> QED
    BY ZenonT(30), <1>1, <1>2, <1>3, <1>4, <1>5, <1>6, <1>7, <1>8, <1>9, <1>10,
       <1>11, <1>12, <1>13, <1>14, <1>15, <1>16, <1>17, <1>18
    DEF Next, TaskWorkers, Handlers, Outside

\* While no peer sends a cancel, requests is the number of blocks a peer is
\* requesting, for every partner and whatever else happens.
THEOREM RequestsCounted ==
    ASSUME "cancel" \notin Env
    PROVE  Spec => []RequestsExact
<1>1. Init => RequestsInv
    BY Zenon, RequestsInit
<1>2. TypeInv /\ ActiveInv /\ RequestsInv /\ [Next]_vars => RequestsInv'
    BY Zenon, RequestsStep
<1>3. RequestsInv => RequestsExact
    <2> SUFFICES ASSUME RequestsInv, NEW p \in Peer
                 PROVE  requests[p] = Cardinality(Live(p))
        BY Zenon DEF RequestsExact
    <2>1. Live(p) = queued[p]
        BY Zenon DEF Live, RequestsInv
    <2> QED
        BY Zenon, <2>1 DEF RequestsInv
<1> QED
    BY <1>1, <1>2, <1>3, ActiveInvariant, PTL DEF Spec

\* A peer that has a task is a partner.
QueuedArePartners == \A p \in Peer : queued[p] # {} => p \in partners

\* Push makes the peer a partner, and no step takes a partner away.
LEMMA PartnersStep ==
    TypeInv /\ QueuedArePartners /\ [Next]_vars => QueuedArePartners'
<1> SUFFICES ASSUME TypeInv, QueuedArePartners, [Next]_vars
             PROVE  QueuedArePartners'
    OBVIOUS
<1>a. ASSUME UNCHANGED <<queued, partners>>
      PROVE  QueuedArePartners'
    BY Zenon, <1>a DEF QueuedArePartners
<1>b. ASSUME NEW p \in Peer, NEW k \in Key, Push(p, k)
      PROVE  QueuedArePartners'
    <2>1. partners' = partners \cup {p} /\ queued \in [Peer -> SUBSET Key]
        BY Zenon, <1>b DEF Push, TypeInv, TypeOK, PrqTypeOK
    <2>2. \A q \in Peer \ {p} : queued'[q] = queued[q]
        BY <1>b, <2>1 DEF Push
    <2> QED
        BY Zenon, <2>1, <2>2 DEF QueuedArePartners
<1>c. ASSUME NEW p \in Peer, NEW k, Remove(p, k)
      PROVE  QueuedArePartners'
    BY Zenon, <1>a, <1>c DEF Remove, prqVars
<1>d. ASSUME partners' = partners, \A q \in Peer : queued'[q] \subseteq queued[q]
      PROVE  QueuedArePartners'
    BY Zenon, <1>d DEF QueuedArePartners
<1>1. ASSUME Pop
      PROVE  QueuedArePartners'
    <2>1. queued \in [Peer -> SUBSET Key]
        BY Zenon DEF TypeInv, TypeOK, PrqTypeOK
    <2>2. CASE PopNil
        BY <1>d, <2>1, <2>2 DEF PopNil, prqVars
    <2>3. ASSUME NEW p \in Peer, NEW k \in Key, PopTask(p, k)
          PROVE  QueuedArePartners'
        BY <1>d, <2>1, <2>3 DEF PopTask
    <2> QED
        BY Zenon, <1>1, <2>2, <2>3 DEF Pop
<1>2. ASSUME WakeBySignal
      PROVE  QueuedArePartners'
    BY Zenon, <1>2, <1>a DEF WakeBySignal, prqVars
<1>3. ASSUME WakeByTicker
      PROVE  QueuedArePartners'
    BY Zenon, <1>3, <1>a DEF WakeByTicker, thawRound
<1>4. ASSUME GetBlock
      PROVE  QueuedArePartners'
    BY Zenon, <1>4, <1>a DEF GetBlock, prqVars
<1>5. ASSUME GetFailed
      PROVE  QueuedArePartners'
    BY Zenon, <1>5, <1>a DEF GetFailed, Done
<1>6. ASSUME NEW t \in Task, MessageSentFind(t)
      PROVE  QueuedArePartners'
    BY Zenon, <1>6, <1>a DEF MessageSentFind, prqVars
<1>7. ASSUME NEW t \in Task, MessageSent(t)
      PROVE  QueuedArePartners'
    BY Zenon, <1>7, <1>a, <1>c, TaskFields DEF MessageSent
<1>8. ASSUME NEW t \in Task, Sent(t)
      PROVE  QueuedArePartners'
    BY Zenon, <1>8, <1>a DEF Sent, Done
<1>9. ASSUME NEW m \in Message, MessageReceived(m)
      PROVE  QueuedArePartners'
    <2>1. m.from \in Peer /\ m.key \in Key
        BY Zenon DEF Message
    <2> QED
        BY Zenon, <1>9, <2>1, <1>a, <1>b, <1>c DEF MessageReceived, prqVars
<1>10. ASSUME NEW k \in Key, AddBlock(k)
      PROVE  QueuedArePartners'
    BY Zenon, <1>10, <1>a DEF AddBlock, prqVars
<1>11. ASSUME NEW p \in Peer, AddBlockTo(p)
      PROVE  QueuedArePartners'
    <2>1. addKey \in Key
        BY Zenon, <1>11 DEF AddBlockTo, TypeInv
    <2> QED
        BY Zenon, <1>11, <2>1, <1>a, <1>b DEF AddBlockTo, prqVars
<1>12. ASSUME AddBlockReturn
      PROVE  QueuedArePartners'
    BY Zenon, <1>12, <1>a DEF AddBlockReturn, prqVars
<1>13. ASSUME NEW m \in Message, Receive(m)
      PROVE  QueuedArePartners'
    BY Zenon, <1>13, <1>a DEF Receive, prqVars
<1>14. ASSUME NEW k \in Key, PutBlock(k)
      PROVE  QueuedArePartners'
    BY Zenon, <1>14, <1>a DEF PutBlock, prqVars
<1>15. ASSUME NEW k \in Key, DeleteBlock(k)
      PROVE  QueuedArePartners'
    BY Zenon, <1>15, <1>a DEF DeleteBlock, prqVars
<1>16. ASSUME NEW p \in Peer, PeerConnected(p)
      PROVE  QueuedArePartners'
    BY Zenon, <1>16, <1>a DEF PeerConnected, prqVars
<1>17. ASSUME NEW p \in Peer, PeerDisconnected(p)
      PROVE  QueuedArePartners'
    BY Zenon, <1>17, <1>a DEF PeerDisconnected, prqVars
<1>18. ASSUME UNCHANGED vars
      PROVE  QueuedArePartners'
    BY Zenon, <1>18, <1>a DEF vars, prqVars
<1> QED
    BY ZenonT(30), <1>1, <1>2, <1>3, <1>4, <1>5, <1>6, <1>7, <1>8, <1>9, <1>10,
       <1>11, <1>12, <1>13, <1>14, <1>15, <1>16, <1>17, <1>18
    DEF Next, TaskWorkers, Handlers, Outside

\* While no peer sends a cancel, Pop finds a task whenever there is one: the
\* order of partnerCompare puts no partner without tasks before one that has
\* some.
THEOREM PopFinds ==
    ASSUME "cancel" \notin Env
    PROVE  Spec => []PopFindsTask
<1>1. Init => RequestsInv /\ QueuedArePartners
    <2>1. Init => QueuedArePartners
        BY Zenon DEF Init, newPRQ, QueuedArePartners
    <2> QED
        BY Zenon, <2>1, RequestsInit
<1>2. TypeInv /\ ActiveInv /\ RequestsInv /\ QueuedArePartners /\ [Next]_vars
          => RequestsInv' /\ QueuedArePartners'
    BY Zenon, RequestsStep, PartnersStep
<1>3. TypeInv /\ RequestsInv /\ QueuedArePartners => PopFindsTask
    <2> SUFFICES ASSUME TypeInv, RequestsInv, QueuedArePartners,
                        NEW q \in Peer, Live(q) # {},
                        NEW p \in Foremost
                 PROVE  Live(p) # {}
        BY Zenon DEF PopFindsTask
    <2>1. q \in partners /\ requests[q] # 0
        <3>1. queued[q] # {} /\ IsFiniteSet(queued[q])
            BY Zenon DEF Live, RequestsInv
        <3>2. Cardinality(queued[q]) # 0
            BY Zenon, <3>1, FS_EmptySet
        <3> QED
            BY Zenon, <3>1, <3>2 DEF RequestsInv, QueuedArePartners
    <2>2. p \in partners /\ ~partnerCompare(q, p)
        BY Zenon, <2>1 DEF Foremost
    <2>3. requests[p] # 0
        BY Zenon, <2>1, <2>2 DEF partnerCompare
    <2>4. p \in Peer
        BY Zenon, <2>2 DEF TypeInv, TypeOK, PrqTypeOK
    <2>5. trash[p] = {} /\ queued[p] # {}
        BY Zenon, <2>3, <2>4, FS_EmptySet DEF RequestsInv
    <2> QED
        BY Zenon, <2>5 DEF Live
<1> QED
    BY <1>1, <1>2, <1>3, ActiveInvariant, PTL DEF Spec

(***************************************************************************)
(* The promise of the engine, when no peer sends a cancel and no block is  *)
(* deleted.  Queued and active blocks are then in the blockstore, so that  *)
(* a task ends with its block being sent; a handler whose ledger is not    *)
(* stale works on the ledger in the map.                                   *)
(***************************************************************************)
Stored ==
    /\ worker # "failed"
    /\ nextTask \in Task => nextTask.key \in have
    /\ \A p \in Peer : queued[p] \subseteq have
    /\ adding \subseteq have
    /\ addKey \in Key => addKey \in have

LedgersHeld ==
    /\ \A p \in Peer \ ledgers : wantList[p] = {}
    /\ \A m \in received \ stale : m.from \in ledgers

\* Without deletes, what is queued or being read stays in the blockstore.
LEMMA StoredStep ==
    ASSUME {"cancel", "delete"} \cap Env = {}
    PROVE  TypeInv /\ RequestsInv /\ Stored /\ [Next]_vars => Stored'
<1> SUFFICES ASSUME TypeInv, RequestsInv, Stored, [Next]_vars
             PROVE  Stored'
    OBVIOUS
<1> USE EngineAssumption DEF Stored
<1>1. ASSUME Pop
      PROVE  Stored'
    <2>1. CASE PopNil /\ worker' = "wait" /\ UNCHANGED nextTask
        BY Zenon, <1>1, <2>1, PopNilKeeps DEF Pop, prqVars, addVars
    <2>2. ASSUME NEW p \in Peer, NEW k \in Key, PopTask(p, k), worker' = "get",
                 nextTask' = [to |-> p, key |-> k]
          PROVE  Stored'
        <3>1. k \in have /\ nextTask'.key = k
            BY Zenon, <2>2 DEF PopTask, Live
        <3>2. \A q \in Peer : queued'[q] \subseteq have
            BY <2>2 DEF PopTask, TypeInv, TypeOK, PrqTypeOK
        <3> QED
            BY Zenon, <1>1, <2>2, <3>1, <3>2 DEF Pop, addVars
    <2> QED
        BY Zenon, <1>1, <2>1, <2>2 DEF Pop
<1>2. ASSUME WakeBySignal
      PROVE  Stored'
    BY Zenon, <1>2 DEF WakeBySignal, prqVars, addVars, workerVars
<1>3. ASSUME WakeByTicker
      PROVE  Stored'
    BY Zenon, <1>3 DEF WakeByTicker, thawRound, addVars
<1>4. ASSUME GetBlock
      PROVE  Stored'
    BY Zenon, <1>4 DEF GetBlock, TypeInv, prqVars, addVars
<1>5. ASSUME GetFailed
      PROVE  Stored'
    BY Zenon, <1>5 DEF GetFailed
<1>6. ASSUME NEW t \in Task, MessageSentFind(t)
      PROVE  Stored'
    BY Zenon, <1>6 DEF MessageSentFind, prqVars, addVars, workerVars
<1>7. ASSUME NEW t \in Task, MessageSent(t)
      PROVE  Stored'
    BY Zenon, <1>7 DEF MessageSent, Remove, prqVars, addVars
<1>8. ASSUME NEW t \in Task, Sent(t)
      PROVE  Stored'
    BY Zenon, <1>8 DEF Sent, Done, addVars
<1>9. ASSUME NEW m \in Message, MessageReceived(m)
      PROVE  Stored'
    <2>1. m.from \in Peer /\ m.key \in Key
        BY Zenon DEF Message
    <2>2. \A q \in Peer : queued'[q] \subseteq have
        BY <1>9, <2>1 DEF MessageReceived, Push, Remove, prqVars, TypeInv,
            TypeOK, PrqTypeOK
    <2> QED
        BY Zenon, <1>9, <2>2 DEF MessageReceived, addVars, workerVars
<1>10. ASSUME NEW k \in Key, AddBlock(k)
      PROVE  Stored'
    BY Zenon, <1>10 DEF AddBlock, prqVars, addVars, workerVars
<1>11. ASSUME NEW p \in Peer, AddBlockTo(p)
      PROVE  Stored'
    <2>1. \A q \in Peer : queued'[q] \subseteq have
        BY <1>11 DEF AddBlockTo, Push, prqVars, TypeInv, TypeOK, PrqTypeOK
    <2> QED
        BY Zenon, <1>11, <2>1 DEF AddBlockTo, addVars, workerVars
<1>12. ASSUME AddBlockReturn
      PROVE  Stored'
    BY Zenon, <1>12 DEF AddBlockReturn, prqVars, addVars, workerVars
<1>13. ASSUME NEW m \in Message, Receive(m)
      PROVE  Stored'
    BY Zenon, <1>13 DEF Receive, prqVars, addVars, workerVars
<1>14. ASSUME NEW k \in Key, PutBlock(k)
      PROVE  Stored'
    BY Zenon, <1>14 DEF PutBlock, prqVars, addVars, workerVars
<1>15. ASSUME NEW k \in Key, DeleteBlock(k)
      PROVE  Stored'
    BY Zenon, <1>15 DEF DeleteBlock, prqVars, addVars, workerVars
<1>16. ASSUME NEW p \in Peer, PeerConnected(p)
      PROVE  Stored'
    BY Zenon, <1>16 DEF PeerConnected, prqVars, addVars, workerVars
<1>17. ASSUME NEW p \in Peer, PeerDisconnected(p)
      PROVE  Stored'
    BY Zenon, <1>17 DEF PeerDisconnected, prqVars, addVars, workerVars
<1>18. ASSUME UNCHANGED vars
      PROVE  Stored'
    BY ZenonT(30), <1>18 DEF vars, prqVars, addVars, workerVars
<1> QED
    BY ZenonT(30), <1>1, <1>2, <1>3, <1>4, <1>5, <1>6, <1>7, <1>8, <1>9, <1>10,
       <1>11, <1>12, <1>13, <1>14, <1>15, <1>16, <1>17, <1>18
    DEF Next, TaskWorkers, Handlers, Outside

\* findOrCreate puts a handler's ledger into the map, and a handler whose
\* ledger PeerDisconnected drops is stale from then on.
LEMMA LedgersHeldStep == TypeInv /\ LedgersHeld /\ [Next]_vars => LedgersHeld'
<1> SUFFICES ASSUME TypeInv, LedgersHeld, [Next]_vars
             PROVE  LedgersHeld'
    OBVIOUS
<1>a. ASSUME UNCHANGED <<ledgerVars, received, stale>>
      PROVE  LedgersHeld'
    BY Zenon, <1>a DEF LedgersHeld, ledgerVars
<1>1. ASSUME Pop
      PROVE  LedgersHeld'
    BY Zenon, <1>1, <1>a DEF Pop
<1>2. ASSUME WakeBySignal
      PROVE  LedgersHeld'
    BY Zenon, <1>2, <1>a DEF WakeBySignal
<1>3. ASSUME WakeByTicker
      PROVE  LedgersHeld'
    BY Zenon, <1>3, <1>a DEF WakeByTicker
<1>4. ASSUME GetBlock
      PROVE  LedgersHeld'
    BY Zenon, <1>4, <1>a DEF GetBlock
<1>5. ASSUME GetFailed
      PROVE  LedgersHeld'
    BY Zenon, <1>5, <1>a DEF GetFailed
<1>6. ASSUME NEW t \in Task, MessageSentFind(t)
      PROVE  LedgersHeld'
    BY Zenon, <1>6 DEF MessageSentFind, findOrCreate, LedgersHeld
<1>7. ASSUME NEW t \in Task, MessageSent(t)
      PROVE  LedgersHeld'
    <2>1. t.to \in Peer
        BY Zenon, TaskFields
    <2>2. ASSUME NEW p \in Peer \ ledgers
          PROVE  wantList'[p] = {}
        BY <1>7, <2>1, <2>2 DEF MessageSent, LedgersHeld, TypeInv, TypeOK
    <2>3. \A m \in received : m \notin Task
        BY DEF TypeInv, TypeOK, Task, Message
    <2> QED
        BY Zenon, <1>7, <2>2, <2>3 DEF MessageSent, LedgersHeld
<1>8. ASSUME NEW t \in Task, Sent(t)
      PROVE  LedgersHeld'
    BY Zenon, <1>8, <1>a DEF Sent
<1>9. ASSUME NEW m \in Message, MessageReceived(m)
      PROVE  LedgersHeld'
    <2>1. m.from \in Peer /\ m.key \in Key
        BY Zenon DEF Message
    <2>2. ASSUME NEW p \in Peer \ ledgers
          PROVE  wantList'[p] = {}
        BY <1>9, <2>1, <2>2 DEF MessageReceived, LedgersHeld, TypeInv, TypeOK
    <2> QED
        BY Zenon, <1>9, <2>2 DEF MessageReceived, LedgersHeld
<1>10. ASSUME NEW k \in Key, AddBlock(k)
      PROVE  LedgersHeld'
    BY Zenon, <1>10, <1>a DEF AddBlock
<1>11. ASSUME NEW p \in Peer, AddBlockTo(p)
      PROVE  LedgersHeld'
    BY Zenon, <1>11, <1>a DEF AddBlockTo
<1>12. ASSUME AddBlockReturn
      PROVE  LedgersHeld'
    BY Zenon, <1>12, <1>a DEF AddBlockReturn
<1>13. ASSUME NEW m \in Message, Receive(m)
      PROVE  LedgersHeld'
    BY Zenon, <1>13 DEF Receive, findOrCreate, LedgersHeld
<1>14. ASSUME NEW k \in Key, PutBlock(k)
      PROVE  LedgersHeld'
    BY Zenon, <1>14, <1>a DEF PutBlock
<1>15. ASSUME NEW k \in Key, DeleteBlock(k)
      PROVE  LedgersHeld'
    BY Zenon, <1>15, <1>a DEF DeleteBlock
<1>16. ASSUME NEW p \in Peer, PeerConnected(p)
      PROVE  LedgersHeld'
    BY Zenon, <1>16 DEF PeerConnected, findOrCreate, LedgersHeld
<1>17. ASSUME NEW p \in Peer, PeerDisconnected(p)
      PROVE  LedgersHeld'
    BY <1>17 DEF PeerDisconnected, LedgersHeld, TypeInv, TypeOK
<1>18. ASSUME UNCHANGED vars
      PROVE  LedgersHeld'
    BY Zenon, <1>18, <1>a DEF vars
<1> QED
    BY Zenon, <1>1, <1>2, <1>3, <1>4, <1>5, <1>6, <1>7, <1>8, <1>9, <1>10,
       <1>11, <1>12, <1>13, <1>14, <1>15, <1>16, <1>17, <1>18
    DEF Next, TaskWorkers, Handlers, Outside

\* A wanted block stays served: it moves from the ledger to the queue, from
\* the queue to the workers, and from them to the peer.
LEMMA WantedStep ==
    ASSUME {"cancel", "delete"} \cap Env = {}
    PROVE  /\ TypeInv /\ ActiveInv /\ RequestsInv /\ Stored /\ LedgersHeld
           /\ WantedHasTask /\ [Next]_vars
           => WantedHasTask'
<1> SUFFICES ASSUME TypeInv, ActiveInv, RequestsInv, Stored, LedgersHeld,
                    WantedHasTask, [Next]_vars
             PROVE  WantedHasTask'
    OBVIOUS
<1> SUFFICES ASSUME NEW q \in ledgers', NEW j \in wantList'[q] \cap have'
             PROVE  \/ j \in queued'[q] \cup activeBlocks'[q] \cup delivered'[q]
                    \/ j \in adding'
                    \/ j = addKey' /\ q \in addLeft'
    <2>0. "cancel" \notin Env
        OBVIOUS
    <2>1. RequestsInv'
        BY Zenon, <2>0, RequestsStep
    <2>2. ASSUME NEW q \in Peer
          PROVE  Live(q)' = queued'[q]
        BY Zenon, <2>1 DEF RequestsInv, Live
    <2>3. ledgers' \subseteq Peer
        BY Zenon, TypeStep DEF TypeInv, TypeOK
    <2> QED
        BY Zenon, <2>2, <2>3 DEF WantedHasTask
<1> DEFINE Goal == \/ j \in queued'[q] \cup activeBlocks'[q] \cup delivered'[q]
                   \/ j \in adding'
                   \/ j = addKey' /\ q \in addLeft'
<1>q. q \in Peer
    BY Zenon, TypeStep DEF TypeInv, TypeOK
<1>w. ASSUME q \in ledgers, j \in wantList[q], j \in have
      PROVE  \/ j \in queued[q] \cup activeBlocks[q] \cup delivered[q]
             \/ j \in adding
             \/ j = addKey /\ q \in addLeft
    <2>1. Live(q) = queued[q]
        BY Zenon, <1>q DEF RequestsInv, Live
    <2> QED
        BY Zenon, <1>w, <2>1 DEF WantedHasTask
<1>n. q \notin ledgers => j \notin wantList[q]
    BY Zenon, <1>q DEF LedgersHeld
<1>a. ASSUME wantList'[q] \subseteq wantList[q], have' = have,
             queued[q] \subseteq queued'[q], activeBlocks[q] \subseteq activeBlocks'[q],
             UNCHANGED <<addVars, delivered>>
      PROVE  Goal
    BY Zenon, <1>a, <1>w, <1>n DEF addVars
<1>1. ASSUME Pop
      PROVE  Goal
    <2>1. CASE PopNil
        BY Zenon, <1>1, <2>1, <1>a, PopNilKeeps DEF Pop, prqVars, ledgerVars
    <2>2. ASSUME NEW p \in Peer, NEW k \in Key, PopTask(p, k)
          PROVE  Goal
        <3>1. queued[q] \subseteq queued'[q] \cup activeBlocks'[q]
            <4>1. PICK dropped \in SUBSET (queued[p] \cap trash[p]) :
                      queued' = [queued EXCEPT ![p] = @ \ (dropped \cup {k})]
                BY Zenon, <2>2 DEF PopTask
            <4>2. dropped = {}
                BY Zenon, <4>1 DEF RequestsInv
            <4> QED
                BY Zenon, <2>2, <4>1, <4>2, <1>q DEF PopTask, TypeInv, TypeOK,
                    PrqTypeOK
        <3>2. activeBlocks[q] \subseteq activeBlocks'[q]
            BY Zenon, <2>2, <1>q DEF PopTask, TypeInv, TypeOK, PrqTypeOK
        <3> QED
            BY Zenon, <1>1, <3>1, <3>2, <1>w, <1>n DEF Pop, ledgerVars, addVars
    <2> QED
        BY Zenon, <1>1, <2>1, <2>2 DEF Pop
<1>2. ASSUME WakeBySignal
      PROVE  Goal
    BY Zenon, <1>2, <1>a DEF WakeBySignal, prqVars, ledgerVars, workerVars
<1>3. ASSUME WakeByTicker
      PROVE  Goal
    BY Zenon, <1>3, <1>a DEF WakeByTicker, thawRound, ledgerVars
<1>4. ASSUME GetBlock
      PROVE  Goal
    BY Zenon, <1>4, <1>a DEF GetBlock, prqVars, ledgerVars, workerVars
<1>5. ASSUME GetFailed
      PROVE  Goal
    BY Zenon, <1>5 DEF GetFailed, Stored
<1>6. ASSUME NEW t \in Task, MessageSentFind(t)
      PROVE  Goal
    BY Zenon, <1>6, <1>a DEF MessageSentFind, prqVars, ledgerVars, workerVars
<1>7. ASSUME NEW t \in Task, MessageSent(t)
      PROVE  Goal
    <2>1. wantList'[q] \subseteq wantList[q]
        BY <1>7, <1>q DEF MessageSent, TypeInv, TypeOK
    <2> QED
        BY Zenon, <1>7, <2>1, <1>a, SentNotQueued DEF MessageSent, prqVars
<1>8. ASSUME NEW t \in Task, Sent(t)
      PROVE  Goal
    <2>1. t.to \in Peer /\ t.key \in Key
        BY Zenon, TaskFields
    <2>2. activeBlocks[q] \subseteq activeBlocks'[q] \cup delivered'[q]
        BY Zenon, <1>8, <2>1, <1>q DEF Sent, Done, TypeInv, TypeOK, PrqTypeOK
    <2>3. delivered[q] \subseteq delivered'[q]
        BY Zenon, <1>8, <2>1, <1>q DEF Sent, TypeInv, TypeOK
    <2> QED
        BY Zenon, <1>8, <2>2, <2>3, <1>w, <1>n DEF Sent, Done, addVars, ledgerVars
<1>9. ASSUME NEW m \in Message, MessageReceived(m)
      PROVE  Goal
    <2>1. m.from \in Peer /\ m.key \in Key
        BY Zenon DEF Message
    <2>2. m.kind \in {"want", "full"}
        BY Zenon, <1>9 DEF MessageReceived, RequestsInv, Message
    <2>3. wantList'[q] \subseteq wantList[q] \cup (IF q = m.from THEN {m.key} ELSE {})
        BY <1>9, <2>1, <2>2, <1>q DEF MessageReceived, Wanted, TypeInv, TypeOK
    <2>4. queued[q] \subseteq queued'[q] /\ UNCHANGED activeBlocks
        BY <1>9, <2>1, <2>2, <1>q DEF MessageReceived, Push, prqVars, TypeInv,
            TypeOK, PrqTypeOK
    <2>5. UNCHANGED <<have, addVars, delivered>>
        BY Zenon, <1>9 DEF MessageReceived, workerVars
    <2>6. CASE j \in wantList[q]
        BY Zenon, <2>4, <2>5, <2>6, <1>w, <1>n DEF addVars
    <2>7. CASE j \notin wantList[q]
        <3>1. q = m.from /\ j = m.key
            BY ZenonT(30), <2>3, <2>7
        <3>2. j \in queued'[q] \cup activeBlocks'[q]
            BY <1>9, <2>1, <2>2, <2>5, <3>1 DEF MessageReceived, Push,
                TypeInv, TypeOK, PrqTypeOK
        <3> QED
            BY Zenon, <3>2
    <2> QED
        BY Zenon, <2>6, <2>7
<1>10. ASSUME NEW k \in Key, AddBlock(k)
      PROVE  Goal
    BY Zenon, <1>10, <1>w, <1>n, EngineAssumption DEF AddBlock,
        EngineUnlocked, prqVars, ledgerVars, workerVars, TypeInv, TypeOK
<1>11. ASSUME NEW p \in Peer, AddBlockTo(p)
      PROVE  Goal
    <2>1. queued[q] \subseteq queued'[q] /\ UNCHANGED activeBlocks
        <3>1. CASE Push(p, addKey)
            <4>1. queued \in [Peer -> SUBSET Key]
                BY Zenon DEF TypeInv, TypeOK, PrqTypeOK
            <4> QED
                BY Zenon, <1>q, <3>1, <4>1 DEF Push
        <3>2. CASE UNCHANGED prqVars
            BY Zenon, <3>2 DEF prqVars
        <3> QED
            BY Zenon, <1>11, <3>1, <3>2 DEF AddBlockTo
    <2>2. UNCHANGED <<have, adding, addKey, ledgerVars, delivered>>
        BY Zenon, <1>11 DEF AddBlockTo, workerVars
    <2>3. CASE j = addKey /\ q = p
        BY <1>11, <2>2, <2>3, <1>q DEF AddBlockTo, Push, ledgerVars, TypeInv,
            TypeOK, PrqTypeOK
    <2>4. CASE ~(j = addKey /\ q = p)
        BY Zenon, <1>11, <2>1, <2>2, <2>4, <1>w, <1>n DEF AddBlockTo, ledgerVars
    <2> QED
        BY Zenon, <2>3, <2>4
<1>12. ASSUME AddBlockReturn
      PROVE  Goal
    BY Zenon, <1>12, <1>w, <1>n DEF AddBlockReturn, prqVars, ledgerVars, workerVars
<1>13. ASSUME NEW m \in Message, Receive(m)
      PROVE  Goal
    BY Zenon, <1>13, <1>a DEF Receive, prqVars, ledgerVars, workerVars
<1>14. ASSUME NEW k \in Key, PutBlock(k)
      PROVE  Goal
    BY Zenon, <1>14, <1>w, <1>n DEF PutBlock, prqVars, ledgerVars, workerVars
<1>15. ASSUME NEW k \in Key, DeleteBlock(k)
      PROVE  Goal
    BY Zenon, <1>15 DEF DeleteBlock
<1>16. ASSUME NEW p \in Peer, PeerConnected(p)
      PROVE  Goal
    BY Zenon, <1>16, <1>a DEF PeerConnected, prqVars, ledgerVars, workerVars
<1>17. ASSUME NEW p \in Peer, PeerDisconnected(p)
      PROVE  Goal
    <2>1. wantList'[q] \subseteq wantList[q]
        BY Zenon, <1>17, <1>q DEF PeerDisconnected, TypeInv, TypeOK
    <2> QED
        BY Zenon, <1>17, <2>1, <1>a DEF PeerDisconnected, prqVars, workerVars
<1>18. ASSUME UNCHANGED vars
      PROVE  Goal
    BY Zenon, <1>18, <1>a DEF vars, prqVars, ledgerVars, workerVars
<1> QED
    BY ZenonT(30), <1>1, <1>2, <1>3, <1>4, <1>5, <1>6, <1>7, <1>8, <1>9, <1>10,
       <1>11, <1>12, <1>13, <1>14, <1>15, <1>16, <1>17, <1>18
    DEF Next, TaskWorkers, Handlers, Outside

\* When no peer sends a cancel and nothing is deleted from the blockstore, any
\* block the node possesses that a peer wants has a task in the queue or is on
\* its way, or went out already; the README of bitswap says so of every block.
THEOREM WantedIsQueued ==
    ASSUME {"cancel", "delete"} \cap Env = {}
    PROVE  Spec => []WantedHasTask
<1> DEFINE Inv == RequestsInv /\ Stored /\ LedgersHeld /\ WantedHasTask
<1>1. Init => Inv
    <2> SUFFICES ASSUME Init
                 PROVE  Stored /\ LedgersHeld /\ WantedHasTask
        BY Zenon, RequestsInit
    <2>1. Stored
        BY Zenon, EngineAssumption DEF Init, newPRQ, Stored
    <2> QED
        BY Zenon, <2>1 DEF Init, LedgersHeld, WantedHasTask
<1>2. TypeInv /\ ActiveInv /\ Inv /\ [Next]_vars => Inv'
    <2>1. "cancel" \notin Env
        OBVIOUS
    <2> QED
        BY Zenon, <2>1, RequestsStep, StoredStep, LedgersHeldStep, WantedStep
<1>3. Inv => WantedHasTask
    OBVIOUS
<1> QED
    BY <1>1, <1>2, <1>3, ActiveInvariant, PTL DEF Spec
=============================================================================
