-------------------------- MODULE PeerRequestQueue --------------------------
(***************************************************************************)
(* The queue of requests by peer that decides whom bitswap serves next     *)
(* (exchange/bitswap/decision/peer_request_queue.go).  Every operation of  *)
(* prq runs under its lock, and is one step here.                          *)
(*                                                                         *)
(* The priority of a task is an integer the remote peer chooses, so the    *)
(* order in which the tasks of one partner leave its queue is left open.   *)
(* pQueue is a heap that every operation repairs (pQueue.Update), so it is *)
(* represented by the comparison it is ordered by.                         *)
(***************************************************************************)
EXTENDS Integers, FiniteSets

CONSTANTS
    Peer,           \* the remote peers
    Key             \* the cids they ask for

VARIABLES
    partners,       \* prq.partners: the peers that have asked for something
    queued,         \* taskMap and the task queues: the keys, by partner
    trash,          \* the queued tasks that are marked as trash
    requests,       \* activePartner.requests
    activeBlocks,   \* activePartner.activeBlocks
    active,         \* activePartner.active
    freezeVal       \* activePartner.freezeVal; prq.frozen is where it is not 0

prqVars == <<partners, queued, trash, requests, activeBlocks, active, freezeVal>>

Task == [to : Peer, key : Key]

\* Types of the peer request queue.
PrqTypeOK ==
    /\ partners \subseteq Peer
    /\ queued \in [Peer -> SUBSET Key]
    /\ trash \in [Peer -> SUBSET Key]
    /\ requests \in [Peer -> Int]
    /\ activeBlocks \in [Peer -> SUBSET Key]
    /\ active \in [Peer -> Int]
    /\ freezeVal \in [Peer -> Nat]

newPRQ ==
    /\ partners = {}
    /\ queued = [p \in Peer |-> {}]
    /\ trash = [p \in Peer |-> {}]
    /\ requests = [p \in Peer |-> 0]
    /\ activeBlocks = [p \in Peer |-> {}]
    /\ active = [p \in Peer |-> 0]
    /\ freezeVal = [p \in Peer |-> 0]

\* The tasks of p that would be sent.
Live(p) == queued[p] \ trash[p]

\* Push as it would be if it did not look at the blocks that are being sent.
PushUnchecked(p, k) ==
    /\ partners' = partners \cup {p}
    /\ IF k \in queued[p]
       THEN UNCHANGED <<queued, requests>>
       ELSE /\ queued' = [queued EXCEPT ![p] = @ \cup {k}]
            /\ requests' = [requests EXCEPT ![p] = @ + 1]
    /\ UNCHANGED <<trash, activeBlocks, active, freezeVal>>

\* A key that is being sent to p is not queued again, and for one that has a
\* task, trash or not, only the priority changes.
Push(p, k) ==
    /\ partners' = partners \cup {p}
    /\ IF k \in activeBlocks[p] \/ k \in queued[p]
       THEN UNCHANGED <<queued, requests>>
       ELSE /\ queued' = [queued EXCEPT ![p] = @ \cup {k}]
            /\ requests' = [requests EXCEPT ![p] = @ + 1]
    /\ UNCHANGED <<trash, activeBlocks, active, freezeVal>>

\* The task is marked and stays where it is, and its partner is frozen.
Remove(p, k) ==
    IF k \in queued[p]
    THEN /\ trash' = [trash EXCEPT ![p] = @ \cup {k}]
         /\ requests' = [requests EXCEPT ![p] = @ - 1]
         /\ freezeVal' = [freezeVal EXCEPT ![p] = @ + 1]
         /\ UNCHANGED <<partners, queued, activeBlocks, active>>
    ELSE UNCHANGED prqVars

\* A task's Done callback, which calls activePartner.TaskDone.
Done(t) ==
    /\ activeBlocks' = [activeBlocks EXCEPT ![t.to] = @ \ {t.key}]
    /\ active' = [active EXCEPT ![t.to] = @ - 1]
    /\ UNCHANGED <<partners, queued, trash, requests, freezeVal>>

\* thawRound as it would be if it rounded down: freezeVal never leaves 1.
thawRoundDown ==
    /\ freezeVal' = [p \in Peer |-> freezeVal[p] - (freezeVal[p] \div 2)]
    /\ UNCHANGED <<partners, queued, trash, requests, activeBlocks, active>>

thawRound ==
    /\ freezeVal' = [p \in Peer |-> freezeVal[p] - ((freezeVal[p] + 1) \div 2)]
    /\ UNCHANGED <<partners, queued, trash, requests, activeBlocks, active>>

\* partnerCompare as it would be with its first two checks swapped.
idleFirst(a, b) ==
    /\ requests[b] # 0
    /\ \/ requests[a] = 0
       \/ freezeVal[a] < freezeVal[b]
       \/ /\ freezeVal[a] = freezeVal[b]
          /\ \/ active[a] < active[b]
             \/ /\ active[a] = active[b]
                /\ Cardinality(queued[a]) > Cardinality(queued[b])

\* Partner a goes before partner b.
partnerCompare(a, b) ==
    /\ requests[a] # 0
    /\ \/ requests[b] = 0
       \/ freezeVal[a] < freezeVal[b]
       \/ /\ freezeVal[a] = freezeVal[b]
          /\ \/ active[a] < active[b]
             \/ /\ active[a] = active[b]
                /\ Cardinality(queued[a]) > Cardinality(queued[b])

\* The partners that may be at the top of pQueue.
Foremost == {p \in partners : \A q \in partners : ~partnerCompare(q, p)}

\* Pop finds no partner, a frozen one, or one whose tasks are all trash, which
\* it drops.
PopNil ==
    \/ partners = {} /\ UNCHANGED prqVars
    \/ /\ \E p \in Foremost : freezeVal[p] # 0
       /\ UNCHANGED prqVars
    \/ /\ \E p \in Foremost :
              /\ freezeVal[p] = 0
              /\ Live(p) = {}
              /\ queued' = [queued EXCEPT ![p] = {}]
              /\ trash' = [trash EXCEPT ![p] = {}]
       /\ UNCHANGED <<partners, requests, activeBlocks, active, freezeVal>>

\* PopTask as it would be without the decrement of requests.
PopTaskUncounted(p, k) ==
    /\ p \in Foremost
    /\ freezeVal[p] = 0
    /\ k \in Live(p)
    /\ \E dropped \in SUBSET (queued[p] \cap trash[p]) :
           /\ queued' = [queued EXCEPT ![p] = @ \ (dropped \cup {k})]
           /\ trash' = [trash EXCEPT ![p] = @ \ dropped]
    /\ activeBlocks' = [activeBlocks EXCEPT ![p] = @ \cup {k}]
    /\ active' = [active EXCEPT ![p] = @ + 1]
    /\ UNCHANGED <<partners, requests, freezeVal>>

\* Pop drops the trash in front of a task, and starts it (StartTask).
PopTask(p, k) ==
    /\ p \in Foremost
    /\ freezeVal[p] = 0
    /\ k \in Live(p)
    /\ \E dropped \in SUBSET (queued[p] \cap trash[p]) :
           /\ queued' = [queued EXCEPT ![p] = @ \ (dropped \cup {k})]
           /\ trash' = [trash EXCEPT ![p] = @ \ dropped]
    /\ activeBlocks' = [activeBlocks EXCEPT ![p] = @ \cup {k}]
    /\ active' = [active EXCEPT ![p] = @ + 1]
    /\ requests' = [requests EXCEPT ![p] = @ - 1]
    /\ UNCHANGED <<partners, freezeVal>>
=============================================================================
