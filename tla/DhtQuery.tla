----------------------------- MODULE DhtQuery -------------------------------
(***************************************************************************)
(* One operation of the Kademlia DHT client: a routing call (FindPeer,     *)
(* GetClosestPeers, PutValue, GetValue, Provide, FindProvidersAsync), the  *)
(* query runner it starts (a spawner, one worker per peer, a rate limit of *)
(* Alpha tokens and a counter of the peers remaining), the puts that       *)
(* follow it, and the record handlers that other nodes' requests run on    *)
(* the local datastore meanwhile.                                          *)
(*                                                                         *)
(* A record is its version: 0 is no record, Invalid one that does not      *)
(* validate, and of two valid records Select takes the higher.             *)
(***************************************************************************)
EXTENDS Integers, FiniteSets

CONSTANTS Peer,      \* the other nodes
          Self,
          Nearest,   \* NearestPeers(key, AlphaValue) of the routing table
          Closer,    \* Closer[p]: the closer peers p answers with
          Dist,      \* Dist[p]: distance of p to the key, injective
          Connected, \* peers with an open connection
          Flaky,     \* peers whose dials and requests may fail
          Target,    \* the peer FindPeer looks for
          Held,      \* Held[p]: the record p holds at the start
          Local,     \* the record held locally at the start
          Provs,     \* Provs[p]: the providers p knows; Provs[Self] the local ones
          Alpha, KValue, NVals, Count,
          Put,       \* the versions other nodes put here
          Ops        \* the operations to run

Invalid == -1
Version == {Invalid} \cup Nat

VARIABLES op, qpc, err,                    \* the routing call
          seen, queried, queue, remaining, finished,
          tokens, spawner, wk, closing, closeReq, errs, success,
          ctx,                             \* the call's context
          vals, out,                       \* values and providers received
          stored, local, best, fix, puts,  \* records, and the puts to make
          putVal, failed

runner == <<seen, queried, queue, remaining, finished, tokens, spawner, wk,
            closing, closeReq, errs, success>>
data == <<vals, out, stored, local, best, fix, puts, putVal, failed>>
qvars == <<op, qpc, err, runner, ctx, data>>

NoVal == [p \in Peer \cup {Self} |-> 0]
Received == {p \in Peer \cup {Self} : vals[p] # 0}
Active == {p \in Peer : wk[p] \notin {"none", "done"}}
Holding == {p \in Peer : wk[p] \in {"start", "rpc", "leave"}}
Newest(S) == CHOOSE v \in S : \A w \in S : w <= v

\* Types of the query runner; its counter of peers remaining stays above -1.
QTypeOK ==
    /\ op \in Ops \cup {"none"}
    /\ qpc \in {"idle", "putlocal", "start", "running", "waitclose", "ran", "puts", "returned"}
    /\ err \in {"none", "notfound", "deadline", "peer", "lookup", "older"}
    /\ seen \subseteq Peer /\ queried \subseteq seen /\ queue \subseteq seen
    /\ remaining \in 0..Cardinality(Peer)
    /\ tokens \in 0..Alpha
    /\ spawner \in {"off", "loop", "holding", "exited"}
    /\ wk \in [Peer -> {"none", "start", "dial", "grab", "grabfail", "rpc", "leave", "done"}]
    /\ {finished, closing, closeReq, success} \subseteq BOOLEAN
    /\ ctx \in {"live", "deadline", "cancelled"}
    /\ errs \in 0..Cardinality(Peer)
    /\ vals \in [Peer \cup {Self} -> Version] /\ stored \in [Peer -> Version]
    /\ local.v \in Nat /\ local.t \in {"fresh", "old", "unset"}
    /\ best \in Nat /\ putVal \in Nat
    /\ fix \subseteq Peer \cup {Self} /\ puts \subseteq Peer /\ failed \subseteq Peer

QInit ==
    /\ op = "none" /\ qpc = "idle" /\ err = "none"
    /\ seen = {} /\ queried = {} /\ queue = {} /\ remaining = 0 /\ finished = FALSE
    /\ tokens = 0 /\ spawner = "off" /\ wk = [p \in Peer |-> "none"]
    /\ closing = FALSE /\ closeReq = FALSE /\ errs = 0 /\ success = FALSE
    /\ ctx = "live"
    /\ vals = NoVal /\ out = {} /\ stored = Held
    /\ local = [v |-> Local, t |-> "fresh"]
    /\ best = 0 /\ fix = {} /\ puts = {} /\ putVal = 0 /\ failed = {}

-----------------------------------------------------------------------------
(* The routing calls, up to the query.                                     *)

Return(e) == qpc' = "returned" /\ err' = e
Query == qpc' = "start" /\ UNCHANGED err

\* FindPeer: a connected target or one among the nearest peers is the answer.
FindPeer ==
    /\ op' = "findpeer"
    /\ CASE Target \in Connected \cup Nearest -> Return("none")
         [] Nearest = {}                      -> Return("lookup")
         [] OTHER                             -> Query
    /\ UNCHANGED data

GetClosestPeers ==
    /\ op' = "closest"
    /\ IF Nearest = {} THEN Return("lookup") ELSE Query
    /\ UNCHANGED data

\* PutValue: refused when the local record is newer; the record is put by the
\* next step, after this check.
PutValue(v) ==
    /\ op' = "put" /\ putVal' = v
    /\ IF local.v > v THEN Return("older") ELSE qpc' = "putlocal" /\ UNCHANGED err
    /\ UNCHANGED <<vals, out, stored, local, best, fix, puts, failed>>

PutLocal ==
    /\ qpc = "putlocal"
    /\ local' = [v |-> putVal, t |-> "fresh"]
    /\ IF Nearest = {} THEN Return("lookup") ELSE Query
    /\ UNCHANGED <<op, runner, ctx, vals, out, stored, best, fix, puts, putVal, failed>>

\* GetValue and GetValues: the local record is the first of the values.
GetValue ==
    /\ op' = "get"
    /\ vals' = [vals EXCEPT ![Self] = local.v]
    /\ CASE local.v # 0 /\ NVals <= 1 -> qpc' = "ran" /\ UNCHANGED err
         [] local.v = 0 /\ NVals = 0  -> Return("notfound")
         [] OTHER -> IF Nearest = {} THEN Return("lookup") ELSE Query
    /\ UNCHANGED <<out, stored, local, best, fix, puts, putVal, failed>>

Provide ==
    /\ op' = "provide"
    /\ IF Nearest = {} THEN Return("lookup") ELSE Query
    /\ UNCHANGED data

\* FindProvidersAsync: local providers first, and no query when they suffice.
FindProviders ==
    /\ op' = "findprovs"
    /\ \E some \in SUBSET Provs[Self] :
         /\ Cardinality(some) = (IF Cardinality(Provs[Self]) < Count
                                 THEN Cardinality(Provs[Self]) ELSE Count)
         /\ out' = some
         /\ IF Cardinality(some) >= Count THEN Return("none")
            ELSE IF Nearest = {} THEN Return("none") ELSE Query
    /\ UNCHANGED <<vals, stored, local, best, fix, puts, putVal, failed>>

Call ==
    /\ qpc = "idle"
    /\ \/ "findpeer" \in Ops /\ FindPeer
       \/ "closest" \in Ops /\ GetClosestPeers
       \/ "put" \in Ops /\ \E v \in Put : PutValue(v)
       \/ "get" \in Ops /\ GetValue
       \/ "provide" \in Ops /\ Provide
       \/ "findprovs" \in Ops /\ FindProviders
    /\ UNCHANGED <<runner, ctx>>

-----------------------------------------------------------------------------
(* The query runner.                                                       *)

AddPeersSelf(S) ==
    LET new == S \ seen
    IN /\ seen' = seen \cup new
       /\ queue' = queue \cup new
       /\ remaining' = remaining + Cardinality(new)

AddPeersUncounted(S) ==
    LET new == S \ (seen \cup {Self})
    IN /\ seen' = seen \cup new
       /\ queue' = queue \cup new
       /\ remaining' = IF seen = {} THEN Cardinality(new) ELSE remaining

\* addPeerToQuery for every peer of S: self and peers already seen are
\* skipped, the rest are counted and queued.
AddPeers(S) ==
    LET new == S \ (seen \cup {Self})
    IN /\ seen' = seen \cup new
       /\ queue' = queue \cup new
       /\ remaining' = remaining + Cardinality(new)

StartShort ==
    /\ qpc = "start" /\ ctx = "live"
    /\ qpc' = "running" /\ UNCHANGED err
    /\ tokens' = Alpha - 1 /\ spawner' = "loop"
    /\ AddPeers(Nearest)
    /\ UNCHANGED <<queried, finished, wk, closing, closeReq, errs, success, op, ctx, data>>

\* dhtQueryRunner.Run: fill the rate limit, add the first peers, go spawnWorkers.
Start ==
    /\ qpc = "start"
    /\ IF ctx # "live"
         THEN qpc' = "ran" /\ err' = "deadline" /\ UNCHANGED runner
         ELSE /\ qpc' = "running" /\ UNCHANGED err
              /\ tokens' = Alpha /\ spawner' = "loop"
              /\ AddPeers(Nearest)
              /\ UNCHANGED <<queried, finished, wk, closing, closeReq, errs, success>>
    /\ UNCHANGED <<op, ctx, data>>

\* spawnWorkers: take a token, then a peer, and hand both to a worker; when the
\* runner is done or closing it leaves, with the token it may hold.
SpawnTake ==
    /\ spawner = "loop" /\ tokens > 0
    /\ spawner' = "holding" /\ tokens' = tokens - 1
    /\ UNCHANGED <<op, qpc, err, seen, queried, queue, remaining, finished, wk,
                   closing, closeReq, errs, success, ctx, data>>

Spawn(p) ==
    /\ spawner = "holding" /\ p \in queue
    /\ queue' = queue \ {p} /\ spawner' = "loop"
    /\ wk' = [wk EXCEPT ![p] = "start"]
    /\ UNCHANGED <<op, qpc, err, seen, queried, remaining, finished, tokens,
                   closing, closeReq, errs, success, ctx, data>>

SpawnExit ==
    /\ spawner \in {"loop", "holding"} /\ (finished \/ closing)
    /\ spawner' = "exited"
    /\ UNCHANGED <<op, qpc, err, seen, queried, queue, remaining, finished, tokens,
                   wk, closing, closeReq, errs, success, ctx, data>>

Worker(p, from, to) == wk[p] = from /\ wk' = [wk EXCEPT ![p] = to]

\* queryPeer: while it dials, a worker gives its token back.
BeginPeer(p) ==
    /\ IF p \in Connected
         THEN Worker(p, "start", "rpc") /\ UNCHANGED tokens
         ELSE Worker(p, "start", "dial") /\ tokens' = tokens + 1
    /\ UNCHANGED <<op, qpc, err, seen, queried, queue, remaining, finished, spawner,
                   closing, closeReq, errs, success, ctx, data>>

Dial(p) ==
    /\ \/ Worker(p, "dial", "grab") /\ UNCHANGED errs
       \/ (p \in Flaky \/ closing) /\ Worker(p, "dial", "grabfail") /\ errs' = errs + 1
    /\ UNCHANGED <<op, qpc, err, seen, queried, queue, remaining, finished, tokens,
                   spawner, closing, closeReq, success, ctx, data>>

GrabAgainNever(p) ==
    /\ \/ Worker(p, "grab", "rpc") \/ Worker(p, "grabfail", "leave")
    /\ UNCHANGED <<op, qpc, err, seen, queried, queue, remaining, finished, tokens,
                   spawner, closing, closeReq, errs, success, ctx, data>>

GrabAgain(p) ==
    /\ tokens > 0 /\ tokens' = tokens - 1
    /\ \/ Worker(p, "grab", "rpc") \/ Worker(p, "grabfail", "leave")
    /\ UNCHANGED <<op, qpc, err, seen, queried, queue, remaining, finished,
                   spawner, closing, closeReq, errs, success, ctx, data>>

Succeed == success' = TRUE /\ closeReq' = TRUE /\ UNCHANGED <<seen, queue, remaining, errs>>
Continue(S) == AddPeers(S) /\ UNCHANGED <<success, closeReq, errs>>
Fail == errs' = errs + 1 /\ UNCHANGED <<success, closeReq, seen, queue, remaining>>

\* The qfunc of FindPeer: done when the answer names the target.
QueryPeer(p) ==
    /\ IF Target \in Closer[p] THEN Succeed ELSE Continue(Closer[p])
    /\ UNCHANGED data

QueryValueShort(p) ==
    /\ vals' = [vals EXCEPT ![p] = stored[p]]
    /\ CASE stored[p] = 0 /\ Closer[p] = {} -> Fail
         [] stored[p] # 0 /\ Cardinality(Received \cup {p}) >= NVals - 1 -> Succeed
         [] OTHER -> Continue(Closer[p])
    /\ UNCHANGED <<out, stored, local, best, fix, puts, putVal, failed>>

\* getValueOrPeers and the qfunc of GetValues: a record, valid or not, counts
\* towards nvals; neither a record nor peers is an error.
QueryValue(p) ==
    /\ vals' = [vals EXCEPT ![p] = stored[p]]
    /\ CASE stored[p] = 0 /\ Closer[p] = {} -> Fail
         [] stored[p] # 0 /\ Cardinality(Received \cup {p}) >= NVals -> Succeed
         [] OTHER -> Continue(Closer[p])
    /\ UNCHANGED <<out, stored, local, best, fix, puts, putVal, failed>>

QueryProvidersAll(p) ==
    /\ out' = out \cup Provs[p]
    /\ IF Provs[p] # {} /\ Cardinality(out') >= Count THEN Succeed ELSE Continue(Closer[p])
    /\ UNCHANGED <<vals, stored, local, best, fix, puts, putVal, failed>>

\* The qfunc of findProvidersAsyncRoutine: the peer set is limited to Count, and
\* what it admits is sent to the caller.
QueryProviders(p) ==
    /\ \E new \in SUBSET (Provs[p] \ out) :
         /\ Cardinality(new) = (IF Cardinality(Provs[p] \cup out) < Count
                                THEN Cardinality(Provs[p] \ out)
                                ELSE Count - Cardinality(out))
         /\ out' = out \cup new
    /\ IF Provs[p] # {} /\ Cardinality(out') >= Count THEN Succeed ELSE Continue(Closer[p])
    /\ UNCHANGED <<vals, stored, local, best, fix, puts, putVal, failed>>

\* The worker's request and what queryPeer does with its outcome. Every peer
\* asked is put in peersQueried, whether or not it answered.
Request(p) ==
    /\ Worker(p, "rpc", "leave")
    /\ queried' = queried \cup {p}
    /\ \/ (p \in Flaky \/ closing) /\ Fail /\ failed' = failed \cup {p}
          /\ UNCHANGED <<vals, out, stored, local, best, fix, puts, putVal>>
       \/ op = "findpeer" /\ QueryPeer(p)
       \/ op \in {"closest", "put", "provide"} /\ Continue(Closer[p]) /\ UNCHANGED data
       \/ op = "get" /\ QueryValue(p)
       \/ op = "findprovs" /\ QueryProviders(p)
    /\ UNCHANGED <<op, qpc, err, finished, tokens, spawner, closing, ctx>>

\* The deferred end of queryPeer: the counter is done when it reaches zero.
Leave(p) ==
    /\ Worker(p, "leave", "done")
    /\ remaining' = remaining - 1
    /\ finished' = (finished \/ remaining = 1)
    /\ tokens' = tokens + 1
    /\ UNCHANGED <<op, qpc, err, seen, queried, queue, spawner, closing, closeReq,
                   errs, success, ctx, data>>

\* go r.proc.Close() after a success.
CloseProc ==
    /\ closeReq /\ ~closing /\ closing' = TRUE
    /\ UNCHANGED <<op, qpc, err, seen, queried, queue, remaining, finished, tokens,
                   spawner, wk, closeReq, errs, success, ctx, data>>

\* The caller's context ends: CloseAfterContext closes the process.
ContextEnds ==
    /\ ctx = "live" /\ qpc \in {"start", "running", "waitclose"}
    /\ ctx' \in {"deadline", "cancelled"}
    /\ closing' = (closing \/ qpc # "start")
    /\ UNCHANGED <<op, qpc, err, seen, queried, queue, remaining, finished, tokens,
                   spawner, wk, closeReq, errs, success, data>>

\* Run, when no peer remains: close the process and wait for its children.
RunDone ==
    /\ qpc = "running" /\ finished
    /\ qpc' = "waitclose" /\ closing' = TRUE
    /\ UNCHANGED <<op, err, seen, queried, queue, remaining, finished, tokens,
                   spawner, wk, closeReq, errs, success, ctx, data>>

RunReturns ==
    /\ qpc \in {"running", "waitclose"} /\ closing
    /\ spawner = "exited" /\ Active = {}
    /\ qpc' = "ran"
    /\ err' = CASE success -> "none"
                [] ~success /\ qpc = "running" -> "deadline"
                [] ~success /\ qpc = "waitclose" ->
                     IF errs > 0 /\ errs = Cardinality(seen) THEN "peer" ELSE "notfound"
    /\ UNCHANGED <<op, runner, ctx, data>>

-----------------------------------------------------------------------------
(* What the calls do with the result.                                      *)

Closest(S) == {p \in S : Cardinality({q \in S : Dist[q] < Dist[p]}) < KValue}

\* GetValue: Select the best of the valid values, and correct, each in a
\* goroutine, everyone who sent another one.
Finish ==
    /\ qpc = "ran"
    /\ CASE op = "get" ->
              LET ok == err = "none" \/ (Received # {} /\ (err = "notfound" \/ ctx = "deadline"))
                  valid == {vals[p] : p \in Received} \ {Invalid}
              IN IF ok /\ valid # {}
                   THEN /\ best' = Newest(valid)
                        /\ fix' = {p \in Received : vals[p] # Newest(valid)}
                        /\ qpc' = "returned" /\ err' = "none"
                        /\ UNCHANGED puts
                   ELSE /\ qpc' = "returned" /\ err' = IF ok THEN "notfound" ELSE err
                        /\ UNCHANGED <<best, fix, puts>>
         [] op \in {"put", "provide"} ->
              puts' = Closest(queried) /\ qpc' = "puts" /\ UNCHANGED <<err, best, fix>>
         [] OTHER -> qpc' = "returned" /\ UNCHANGED <<err, best, fix, puts>>
    /\ UNCHANGED <<op, runner, ctx, vals, out, stored, local, putVal, failed>>

StoreReversed(p, v) == stored' = [stored EXCEPT ![p] = IF v <= @ THEN v ELSE @]

\* handlePutValue on the remote peer p: an older record is refused.
Store(p, v) == stored' = [stored EXCEPT ![p] = IF v >= @ THEN v ELSE @]

\* putValueToPeer (or the ADD_PROVIDER message) to one of the closest peers.
PutToPeer(p) ==
    /\ qpc = "puts" /\ p \in puts /\ puts' = puts \ {p}
    /\ \/ op = "put" /\ Store(p, putVal) /\ UNCHANGED failed
       \/ op = "provide" /\ UNCHANGED <<stored, failed>>
       \/ (p \in Flaky \/ ctx # "live") /\ failed' = failed \cup {p} /\ UNCHANGED stored
    /\ UNCHANGED <<op, qpc, err, runner, ctx, vals, out, local, best, fix, putVal>>

PutsDone ==
    /\ qpc = "puts" /\ puts = {}
    /\ Return("none")
    /\ UNCHANGED <<op, runner, ctx, data>>

\* The correction of a peer; the local one is a bare putLocal of a record that
\* carries no TimeReceived.
Correct(p) ==
    /\ p \in fix /\ fix' = fix \ {p}
    /\ \/ p = Self /\ local' = [v |-> best, t |-> "unset"] /\ UNCHANGED <<stored, failed>>
       \/ p # Self /\ Store(p, best) /\ UNCHANGED <<local, failed>>
       \/ p \in Flaky /\ failed' = failed \cup {p} /\ UNCHANGED <<stored, local>>
    /\ UNCHANGED <<op, qpc, err, runner, ctx, vals, out, best, puts, putVal>>

-----------------------------------------------------------------------------
(* Requests of other nodes on the local datastore.                         *)

Serve == UNCHANGED <<op, qpc, err, runner, ctx, vals, out, stored, best, fix, puts, putVal, failed>>

HandlePutValue(v) == v >= local.v /\ local' = [v |-> v, t |-> "fresh"] /\ Serve

\* checkLocalDatastore: a record too old, or without a time, is deleted.
HandleGetValue == local.v # 0 /\ local.t # "fresh" /\ local' = [local EXCEPT !.v = 0] /\ Serve

RecordAges == local.v # 0 /\ local.t = "fresh" /\ local' = [local EXCEPT !.t = "old"] /\ Serve

QNext ==
    \/ Call \/ PutLocal \/ Start
    \/ SpawnTake \/ SpawnExit \/ CloseProc \/ ContextEnds \/ RunDone \/ RunReturns
    \/ \E p \in Peer : \/ Spawn(p) \/ BeginPeer(p) \/ Dial(p) \/ GrabAgain(p)
                       \/ Request(p) \/ Leave(p) \/ PutToPeer(p)
    \/ Finish \/ PutsDone
    \/ \E p \in Peer \cup {Self} : Correct(p)
    \/ \E v \in Put : HandlePutValue(v)
    \/ HandleGetValue \/ RecordAges

QSpec == QInit /\ [][QNext]_qvars

\* Every goroutine that can step does, and dials and requests return.
QFairSpec ==
    /\ QSpec
    /\ WF_qvars(PutLocal \/ Start \/ CloseProc \/ RunDone \/ Finish \/ PutsDone)
    /\ WF_qvars(RunReturns) /\ WF_qvars(SpawnTake) /\ WF_qvars(SpawnExit)
    /\ \A p \in Peer : WF_qvars(Spawn(p)) /\ WF_qvars(BeginPeer(p)) /\ WF_qvars(Dial(p))
                       /\ SF_qvars(GrabAgain(p)) /\ WF_qvars(Request(p)) /\ WF_qvars(Leave(p))
                       /\ WF_qvars(PutToPeer(p))

-----------------------------------------------------------------------------
(* Properties                                                              *)

\* At most Alpha requests are in flight, and a token given back always finds
\* room in the rateLimit channel, so no worker blocks on the way out.
RateLimited ==
    LET held == Cardinality(Holding) + (IF spawner = "holding" THEN 1 ELSE 0)
    IN tokens + held <= Alpha

\* A query that ends because no peer remains has asked, or failed to dial,
\* every peer it saw, and saw every peer that those who answered named:
\* peersRemaining never reaches zero while there is somebody to ask.
Exhausted ==
    (qpc \in {"waitclose", "ran"} /\ finished /\ ~success /\ ctx = "live")
        => /\ \A p \in seen : wk[p] = "done"
           /\ \A p \in queried \ failed : Closer[p] \subseteq seen \cup {Self}

\* GetValue answers with a value only when NVals records arrived, or the
\* network was searched to the end, or the time was up, and the value is the
\* newest of those that arrived.
QuorumMet ==
    (op = "get" /\ qpc = "returned" /\ err = "none")
        => /\ \/ Cardinality(Received) >= NVals \/ ctx = "deadline"
              \/ \A p \in queried \ failed : Closer[p] \subseteq seen \cup {Self}
           /\ best > 0 /\ \A p \in Received : vals[p] <= best

\* Once the corrections of a GetValue are made, every peer that answered with
\* another record, and could be reached, holds the value returned or a newer one.
Corrected ==
    (op = "get" /\ qpc = "returned" /\ err = "none")
        => \A p \in (Received \cap Peer) \ (fix \cup failed) : stored[p] >= best

\* FindProvidersAsync sends the caller at most Count providers: the channel it
\* made with that capacity never blocks a worker.
ProvidersBounded == Cardinality(out) <= Count

\* A routing call returns. The spawner waits for a peer with a token in hand,
\* so it takes Alpha >= 2 for a worker that has dialled to get one back.
CallReturns == (qpc # "idle") ~> (qpc = "returned")

\* handlePutValue keeps "a record with ... a lower sequence number from
\* overwriting a record with a higher sequence number" in the local datastore.
LocalNeverOlder == [][local'.v >= local.v \/ local'.v = 0]_local

-----------------------------------------------------------------------------
(***************************************************************************)
(* The `dht` commands. Each starts a routing call whose query workers      *)
(* publish events on an unbuffered channel, a goroutine that publishes the *)
(* results and closes the channel, and one that forwards the events to the *)
(* client, who may go away at any moment. What the call itself does is in  *)
(* DhtQuery.                                                               *)
(***************************************************************************)

CONSTANTS QWorker,    \* query workers of a call
          PerWorker,  \* events a worker publishes
          MaxFinal,   \* results of a call
          Keys,       \* arguments of `dht provide`
          Online, HasDHT, Conns,
          NumProviders \* values of --num-providers

VARIABLES kind, cctx,
          mpc,        \* the goroutine that runs the call
          keysLeft,
          evLeft,     \* events the query workers have still to publish
          finals,     \* results to publish
          evClosed, fpc, outClosed, published, emitted, broken

cvars == <<kind, cctx, mpc, keysLeft, evLeft, finals, evClosed, fpc, outClosed,
           published, emitted, broken>>

Kinds == {"query", "findprovs", "provide", "findpeer", "get", "put"}

\* Types of a dht command; no more events are sent out than were published.
CTypeOK ==
    /\ kind \in Kinds \cup {"none"} /\ cctx \in {"live", "gone"}
    /\ mpc \in {"idle", "refused", "call", "running", "results", "ended"}
    /\ keysLeft \in 0..Keys /\ evLeft \in [QWorker -> 0..PerWorker] /\ finals \in 0..MaxFinal
    /\ fpc \in {"off", "recv", "have", "done"}
    /\ {evClosed, outClosed, broken} \subseteq BOOLEAN
    /\ published \in Nat /\ emitted \in 0..published
    /\ (fpc = "have" => emitted < published)

CInit ==
    /\ kind = "none" /\ cctx = "live" /\ mpc = "idle" /\ keysLeft = 0
    /\ evLeft = [w \in QWorker |-> 0] /\ finals = 0
    /\ evClosed = FALSE /\ fpc = "off" /\ outClosed = FALSE
    /\ published = 0 /\ emitted = 0 /\ broken = FALSE

-----------------------------------------------------------------------------
(* The commands: what each checks before it starts its goroutines.         *)

Begin(k, ok, keys) ==
    /\ kind' = k
    /\ IF ok THEN mpc' = "call" /\ fpc' = "recv" /\ keysLeft' = keys
       ELSE mpc' = "refused" /\ UNCHANGED <<fpc, keysLeft>>

QueryDht == Begin("query", HasDHT, 1)
FindProvidersDht == \E n \in NumProviders : Begin("findprovs", Online /\ n >= 1, 1)
ProvideRefDht == \E has \in BOOLEAN : Begin("provide", Online /\ Conns > 0 /\ has, Keys)
FindPeerDht == Begin("findpeer", Online, 1)
GetValueDht == Begin("get", Online, 1)
PutValueDht == Begin("put", Online, 1)

Command ==
    /\ mpc = "idle"
    /\ \/ QueryDht \/ FindProvidersDht \/ ProvideRefDht \/ FindPeerDht
       \/ GetValueDht \/ PutValueDht
    /\ UNCHANGED <<cctx, evLeft, finals, evClosed, outClosed, published, emitted, broken>>

-----------------------------------------------------------------------------
(* The goroutines.                                                         *)

\* The routing call starts a query (provideKeys: one call per key).
StartCall ==
    /\ mpc = "call" /\ mpc' = "running" /\ keysLeft' = keysLeft - 1
    /\ \E n \in [QWorker -> 0..PerWorker] : evLeft' = n
    /\ UNCHANGED <<kind, cctx, finals, evClosed, fpc, outClosed, published, emitted, broken>>

PublishBlocking ==
    \/ fpc = "recv" /\ ~evClosed /\ fpc' = "have" /\ published' = published + 1 /\ UNCHANGED broken
    \/ evClosed /\ broken' = TRUE /\ UNCHANGED <<fpc, published>>

\* PublishQueryEvent: handed to the forwarder, or dropped when the context is
\* done; on a closed channel the send panics.
Publish ==
    \/ fpc = "recv" /\ ~evClosed /\ fpc' = "have" /\ published' = published + 1 /\ UNCHANGED broken
    \/ cctx = "gone" /\ ~evClosed /\ UNCHANGED <<fpc, published, broken>>
    \/ evClosed /\ broken' = TRUE /\ UNCHANGED <<fpc, published>>

WorkerPublish(w) ==
    /\ evLeft[w] > 0 /\ Publish
    /\ evLeft' = [evLeft EXCEPT ![w] = @ - 1]
    /\ UNCHANGED <<kind, cctx, mpc, keysLeft, finals, evClosed, outClosed, emitted>>

\* FindProvidersAsync hands over a provider while the query still runs.
Stream(w) ==
    /\ kind = "findprovs" /\ mpc = "running" /\ evLeft[w] > 0 /\ finals < MaxFinal
    /\ finals' = finals + 1 /\ evLeft' = [evLeft EXCEPT ![w] = @ - 1]
    /\ UNCHANGED <<kind, cctx, mpc, keysLeft, evClosed, fpc, outClosed, published,
                   emitted, broken>>

QueryReturnsEarly ==
    /\ mpc = "running"
    /\ IF keysLeft > 0 THEN mpc' = "call" /\ UNCHANGED finals
       ELSE mpc' = "results" /\ \E n \in finals..MaxFinal : finals' = n
    /\ UNCHANGED <<kind, cctx, keysLeft, evLeft, evClosed, fpc, outClosed, published, emitted,
                   broken>>

\* The call returns once its query's workers have: dhtQueryRunner.Run waits for
\* its children. An error ends the provides of the remaining keys, as an event.
QueryReturns ==
    /\ mpc = "running" /\ \A w \in QWorker : evLeft[w] = 0
    /\ \/ keysLeft > 0 /\ mpc' = "call" /\ UNCHANGED <<keysLeft, finals>>
       \/ /\ keysLeft = 0 \/ kind = "provide"
          /\ mpc' = "results" /\ keysLeft' = 0
          /\ \/ kind \in {"query", "findprovs"}
                /\ \E n \in finals..MaxFinal : finals' = n
             \/ kind \in {"findpeer", "get"} /\ finals' = 1
             \/ kind \in {"provide", "put"} /\ finals' \in {0, 1}
    /\ UNCHANGED <<kind, cctx, evLeft, evClosed, fpc, outClosed, published, emitted, broken>>

\* The results, published one by one; for findprovs also while the query runs.
Result ==
    /\ finals > 0 /\ Publish /\ finals' = finals - 1
    /\ UNCHANGED <<kind, cctx, mpc, keysLeft, evLeft, evClosed, outClosed, emitted>>

CloseEvents ==
    /\ mpc = "results" /\ finals = 0
    /\ mpc' = "ended" /\ evClosed' = TRUE
    /\ UNCHANGED <<kind, cctx, keysLeft, evLeft, finals, fpc, outClosed, published, emitted, broken>>

ForwardStopping ==
    /\ fpc = "have"
    /\ \/ emitted' = emitted + 1 /\ fpc' = "recv"
       \/ UNCHANGED emitted /\ fpc' = "done"
    /\ outClosed' = (fpc' = "done")
    /\ UNCHANGED <<kind, cctx, mpc, keysLeft, evLeft, finals, evClosed, published, broken>>

ForwardTwice ==
    /\ fpc = "have"
    /\ emitted' = emitted + 2 /\ fpc' = "recv"
    /\ UNCHANGED <<outClosed, kind, cctx, mpc, keysLeft, evLeft, finals, evClosed, published, broken>>

\* The forwarder: an event goes to the client, or is dropped when the client is
\* gone; then it returns, but for findpeer and get, which go on draining.
Forward ==
    /\ fpc = "have"
    /\ \/ emitted' = emitted + 1 /\ fpc' = "recv"
       \/ cctx = "gone" /\ UNCHANGED emitted
          /\ fpc' = IF kind \in {"findpeer", "get"} THEN "recv" ELSE "done"
    /\ outClosed' = (fpc' = "done")
    /\ UNCHANGED <<kind, cctx, mpc, keysLeft, evLeft, finals, evClosed, published, broken>>

ForwarderEnds ==
    /\ fpc = "recv" /\ evClosed
    /\ fpc' = "done" /\ outClosed' = TRUE
    /\ UNCHANGED <<kind, cctx, mpc, keysLeft, evLeft, finals, evClosed, published, emitted, broken>>

ClientLeaves ==
    /\ cctx = "live" /\ mpc \notin {"idle", "refused"} /\ cctx' = "gone"
    /\ UNCHANGED <<kind, mpc, keysLeft, evLeft, finals, evClosed, fpc, outClosed, published,
                   emitted, broken>>

CNext == \/ Command \/ StartCall \/ QueryReturns \/ Result \/ CloseEvents
         \/ \E w \in QWorker : WorkerPublish(w) \/ Stream(w)
         \/ Forward \/ ForwarderEnds \/ ClientLeaves

CSpec == CInit /\ [][CNext]_cvars

\* Goroutines that can step do; a live client reads what it is sent.
CFairSpec ==
    /\ CSpec
    /\ WF_cvars(StartCall) /\ WF_cvars(QueryReturns) /\ WF_cvars(CloseEvents)
    /\ SF_cvars(Result) /\ \A w \in QWorker : SF_cvars(WorkerPublish(w))
    /\ WF_cvars(Forward \/ ForwarderEnds)

-----------------------------------------------------------------------------
(* Properties                                                              *)

\* Nothing publishes an event after the channel is closed, which would panic:
\* the call outlives its query's workers.
NoLateEvent == ~broken

\* A client that stays gets every event that was published.
AllForwarded == (outClosed /\ cctx = "live") => emitted = published

\* A command ends, output and goroutines, also when the client is gone and the
\* forwarder no longer reads.
DhtCommandEnds == (mpc = "call") ~> (mpc = "ended" /\ outClosed)
=============================================================================
