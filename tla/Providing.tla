----------------------------- MODULE Providing ------------------------------
(***************************************************************************)
(* How bitswap announces new blocks (exchange/bitswap/bitswap.go and       *)
(* workers.go): HasBlock sends the key down newBlocks, provideCollector    *)
(* keeps what provideKeys has no room for, and provideWorker starts a      *)
(* bounded number of calls of network.Provide.                             *)
(***************************************************************************)
EXTENDS Naturals, Sequences, FiniteSets

CONSTANTS
    PqKey,            \* block keys
    PqNoKey,          \* no key
    NewCap,         \* HasBlockBufferSize
    KeysCap,        \* provideKeysBufferSize
    ProvideMax,     \* provideWorkerMax
    MaxAccepted     \* bound: keys that HasBlock accepts

ASSUME PqAssumption ==
    /\ PqNoKey \notin PqKey
    /\ NewCap \in Nat /\ KeysCap \in Nat /\ ProvideMax \in Nat

VARIABLES
    newBlocks,      \* the channel Bitswap.newBlocks
    nextKey,        \* provideCollector: nextKey, PqNoKey when keysOut is nil
    toProvide,      \* provideCollector: toProvide
    provideKeys,    \* the channel Bitswap.provideKeys
    pkClosed,       \* provideKeys has been closed
    held,           \* provideWorker: the key that waits for a token
    inflight,       \* tokens taken: calls of network.Provide under way
    workers,        \* the goroutines of the two that still run
    closing,        \* the process is closing
    ctxDone,        \* the context of the workers is done
    accepted,       \* the keys HasBlock has handed over, in order
    started         \* the keys Provide was called for, in order

pqVars == <<newBlocks, nextKey, toProvide, provideKeys, pkClosed, held,
            inflight, workers, closing, ctxDone, accepted, started>>

\* Types of the provide queue; at most ProvideMax announcements in flight.
PqTypeOK ==
    /\ newBlocks \in Seq(PqKey) /\ Len(newBlocks) <= NewCap
    /\ nextKey \in PqKey \cup {PqNoKey}
    /\ toProvide \in Seq(PqKey)
    /\ provideKeys \in Seq(PqKey) /\ Len(provideKeys) <= KeysCap
    /\ pkClosed \in BOOLEAN
    /\ held \in PqKey \cup {PqNoKey}
    /\ inflight \in 0..ProvideMax
    /\ workers \subseteq {"provideCollector", "provideWorker"}
    /\ closing \in BOOLEAN
    /\ ctxDone \in BOOLEAN
    /\ accepted \in Seq(PqKey)
    /\ started \in Seq(PqKey)

PqInit ==
    /\ newBlocks = <<>> /\ nextKey = PqNoKey /\ toProvide = <<>>
    /\ provideKeys = <<>> /\ pkClosed = FALSE
    /\ held = PqNoKey /\ inflight = 0
    /\ workers = {"provideCollector", "provideWorker"}
    /\ closing = FALSE /\ ctxDone = FALSE
    /\ accepted = <<>> /\ started = <<>>

\* The end of receiveBlockFrom.  A caller that finds no room waits, and gives
\* up when the process closes.
HasBlock(k) ==
    /\ ~closing
    /\ Len(accepted) < MaxAccepted
    /\ Len(newBlocks) < NewCap
    /\ newBlocks' = Append(newBlocks, k)
    /\ accepted' = Append(accepted, k)
    /\ UNCHANGED <<nextKey, toProvide, provideKeys, pkClosed, held, inflight,
                   workers, closing, ctxDone, started>>

\* Mutant: a key that arrives while another waits to be sent replaces it.
CollectKeyReplacing ==
    /\ "provideCollector" \in workers
    /\ newBlocks # <<>>
    /\ newBlocks' = Tail(newBlocks)
    /\ nextKey' = Head(newBlocks) /\ UNCHANGED toProvide
    /\ UNCHANGED <<provideKeys, pkClosed, held, inflight, workers, closing,
                   ctxDone, accepted, started>>

\* provideCollector receives from newBlocks.
CollectKey ==
    /\ "provideCollector" \in workers
    /\ newBlocks # <<>>
    /\ newBlocks' = Tail(newBlocks)
    /\ IF nextKey = PqNoKey
       THEN nextKey' = Head(newBlocks) /\ UNCHANGED toProvide
       ELSE toProvide' = Append(toProvide, Head(newBlocks)) /\ UNCHANGED nextKey
    /\ UNCHANGED <<provideKeys, pkClosed, held, inflight, workers, closing,
                   ctxDone, accepted, started>>

\* Mutant: once the channel is muted the collector does not look at its list.
FeedKeyOnce ==
    /\ "provideCollector" \in workers
    /\ nextKey # PqNoKey
    /\ Len(provideKeys) < KeysCap
    /\ provideKeys' = Append(provideKeys, nextKey)
    /\ nextKey' = PqNoKey /\ UNCHANGED toProvide
    /\ UNCHANGED <<newBlocks, pkClosed, held, inflight, workers, closing,
                   ctxDone, accepted, started>>

\* provideCollector sends on provideKeys.
FeedKey ==
    /\ "provideCollector" \in workers
    /\ nextKey # PqNoKey
    /\ Len(provideKeys) < KeysCap
    /\ provideKeys' = Append(provideKeys, nextKey)
    /\ IF toProvide # <<>>
       THEN nextKey' = Head(toProvide) /\ toProvide' = Tail(toProvide)
       ELSE nextKey' = PqNoKey /\ UNCHANGED toProvide
    /\ UNCHANGED <<newBlocks, pkClosed, held, inflight, workers, closing,
                   ctxDone, accepted, started>>

CollectorReturns ==
    /\ "provideCollector" \in workers
    /\ ctxDone
    /\ workers' = workers \ {"provideCollector"}
    /\ pkClosed' = TRUE
    /\ UNCHANGED <<newBlocks, nextKey, toProvide, provideKeys, held, inflight,
                   closing, ctxDone, accepted, started>>

\* provideWorker takes a key, and then waits for one of the tokens.
TakeKey ==
    /\ "provideWorker" \in workers
    /\ held = PqNoKey
    /\ provideKeys # <<>>
    /\ held' = Head(provideKeys)
    /\ provideKeys' = Tail(provideKeys)
    /\ UNCHANGED <<newBlocks, nextKey, toProvide, pkClosed, inflight, workers,
                   closing, ctxDone, accepted, started>>

\* Mutant: the semaphore is not taken.
GoProvideFreely ==
    /\ "provideWorker" \in workers
    /\ held # PqNoKey
    /\ inflight' = inflight + 1
    /\ started' = Append(started, held)
    /\ held' = PqNoKey
    /\ UNCHANGED <<newBlocks, nextKey, toProvide, provideKeys, pkClosed,
                   workers, closing, ctxDone, accepted>>

GoProvide ==
    /\ "provideWorker" \in workers
    /\ held # PqNoKey
    /\ inflight < ProvideMax
    /\ inflight' = inflight + 1
    /\ started' = Append(started, held)
    /\ held' = PqNoKey
    /\ UNCHANGED <<newBlocks, nextKey, toProvide, provideKeys, pkClosed,
                   workers, closing, ctxDone, accepted>>

\* Mutant: the token is not put back.
ProvideReturnsKeeping ==
    /\ inflight > 0
    /\ UNCHANGED pqVars

\* network.Provide returns, with its timeout at the latest.
ProvideReturns ==
    /\ inflight > 0
    /\ inflight' = inflight - 1
    /\ UNCHANGED <<newBlocks, nextKey, toProvide, provideKeys, pkClosed, held,
                   workers, closing, ctxDone, accepted, started>>

\* Mutant: a worker that waits for a token does not look at the process.
WorkerReturnsIdle ==
    /\ "provideWorker" \in workers
    /\ held = PqNoKey
    /\ closing /\ inflight = 0
    /\ workers' = workers \ {"provideWorker"}
    /\ held' = PqNoKey
    /\ UNCHANGED <<newBlocks, nextKey, toProvide, provideKeys, pkClosed,
                   inflight, closing, ctxDone, accepted, started>>

\* The worker returns when the process closes, with or without a key in hand,
\* and when the channel is closed and empty.
WorkerReturns ==
    /\ "provideWorker" \in workers
    /\ closing \/ (pkClosed /\ provideKeys = <<>> /\ held = PqNoKey)
    /\ workers' = workers \ {"provideWorker"}
    /\ held' = PqNoKey
    /\ UNCHANGED <<newBlocks, nextKey, toProvide, provideKeys, pkClosed,
                   inflight, closing, ctxDone, accepted, started>>

\* Close, after which the context is cancelled, or a cancelled parent context,
\* after which the process closes.
Closing ==
    /\ ~closing
    /\ closing' = TRUE
    /\ UNCHANGED <<newBlocks, nextKey, toProvide, provideKeys, pkClosed, held,
                   inflight, workers, ctxDone, accepted, started>>

CtxDone ==
    /\ ~ctxDone
    /\ ctxDone' = TRUE
    /\ UNCHANGED <<newBlocks, nextKey, toProvide, provideKeys, pkClosed, held,
                   inflight, workers, closing, accepted, started>>

PqNext ==
    \/ \E k \in PqKey : HasBlock(k)
    \/ CollectKey \/ FeedKey \/ CollectorReturns
    \/ TakeKey \/ GoProvide \/ ProvideReturns \/ WorkerReturns
    \/ Closing \/ CtxDone

PqSpec == PqInit /\ [][PqNext]_pqVars

\* The goroutines run; a call of Provide ends; each of the two ways to shut
\* down brings the other about.
PqFairness ==
    /\ WF_pqVars(CollectKey) /\ WF_pqVars(FeedKey) /\ WF_pqVars(CollectorReturns)
    /\ WF_pqVars(TakeKey) /\ WF_pqVars(GoProvide) /\ WF_pqVars(WorkerReturns)
    /\ WF_pqVars(ProvideReturns)
    /\ WF_pqVars(closing /\ CtxDone) /\ WF_pqVars(ctxDone /\ Closing)

PqFairSpec == PqSpec /\ PqFairness

(***************************************************************************)
(* Properties.                                                             *)
(***************************************************************************)
Opt(k) == IF k = PqNoKey THEN <<>> ELSE <<k>>

\* While the worker runs, no key that HasBlock handed over is lost,
\* duplicated or overtaken on its way through the two channels, the
\* collector's list and the worker: what has been provided, what each of them
\* holds and what is still in the first channel make up the keys in order.
NothingLost ==
    "provideWorker" \in workers =>
        accepted = started \o Opt(held) \o provideKeys \o Opt(nextKey)
                           \o toProvide \o newBlocks

\* Every key handed over is provided, however many come at once, unless
\* bitswap is shut down.
AllProvided ==
    \A n \in 1..MaxAccepted :
        Len(accepted) >= n ~> Len(started) >= n \/ closing \/ ctxDone

\* A shutdown ends both goroutines.
WorkersEnd == closing ~> workers = {}

-----------------------------------------------------------------------------
(***************************************************************************)
(* Requests for blocks outside a session and the search for their          *)
(* providers (exchange/bitswap/bitswap.go, workers.go, notifications,      *)
(* network/ipfs_impl.go): GetBlocks puts its keys on the wantlist and asks *)
(* providerQueryManager to search for the first one, rebroadcastWorker     *)
(* asks again for a key that stays wanted.                                 *)
(***************************************************************************)

CONSTANTS
    PrKey,            \* block keys
    Request,        \* calls of GetBlocks
    Keys,           \* the sequence of keys each of them is given
    Impatient,      \* bound: the calls whose context may end
    Rebroadcast,    \* the requester that stands for rebroadcastWorker
    FindCap,        \* sizeBatchRequestChan
    RbIdle, RbStopped   \* rebroadcastWorker waits for its ticker, has returned

\* GetBlocks returns at once when it is given no key.
ASSUME PrAssumption ==
    \A r \in Request : Keys[r] \in Seq(PrKey) /\ Keys[r] # <<>>

VARIABLES
    wl,             \* the wantlist: which requests want a key
    caller,         \* where the call of GetBlocks is
    remaining,      \* the keys its goroutine still waits for
    promise,        \* blocks published to it and not received yet
    running,        \* the requests whose goroutine runs
    cancelled,      \* the requests whose context is done
    findKeys,       \* the channel Bitswap.findKeys
    kset,           \* providerQueryManager: keys being searched for
    queries,        \* its goroutines: how many search for a key
    manager,        \* providerQueryManager runs
    rb,             \* rebroadcastWorker: RbIdle, the key it sends, or RbStopped
    prCtxDone         \* the context of the workers is done

prVars == <<wl, caller, remaining, promise, running, cancelled,
            findKeys, kset, queries, manager, rb, prCtxDone>>
reqVars == <<caller, remaining, promise, running, cancelled>>
mgrVars == <<kset, queries, manager>>

PrInit ==
    /\ wl = [k \in PrKey |-> {}]
    /\ caller = [r \in Request |-> "new"]
    /\ remaining = [r \in Request |-> {}]
    /\ promise = [r \in Request |-> {}]
    /\ running = {}
    /\ cancelled = {}
    /\ findKeys = <<>>
    /\ kset = {} /\ queries = [k \in PrKey |-> 0]
    /\ manager = TRUE
    /\ rb = RbIdle
    /\ prCtxDone = FALSE

Unwant(r, ks) == [k \in PrKey |-> IF k \in ks THEN wl[k] \ {r} ELSE wl[k]]

\* GetBlocks subscribes, puts the keys on the wantlist, starts its goroutine
\* and goes on to send the first key to the query manager.
GetBlocks(r) ==
    LET ks == {Keys[r][i] : i \in DOMAIN Keys[r]} IN
    /\ caller[r] = "new"
    /\ ~prCtxDone
    /\ wl' = [k \in PrKey |-> IF k \in ks THEN wl[k] \cup {r} ELSE wl[k]]
    /\ remaining' = [remaining EXCEPT ![r] = ks]
    /\ running' = running \cup {r}
    /\ caller' = [caller EXCEPT ![r] = "sending"]
    /\ UNCHANGED <<promise, cancelled, findKeys, mgrVars, rb, prCtxDone>>

SendFindKey(r) ==
    /\ caller[r] = "sending"
    /\ Len(findKeys) < FindCap
    /\ findKeys' = Append(findKeys, [key |-> Keys[r][1], by |-> r])
    /\ caller' = [caller EXCEPT ![r] = "returned"]
    /\ UNCHANGED <<wl, remaining, promise, running, cancelled, mgrVars,
                   rb, prCtxDone>>

GetBlocksCancelled(r) ==
    /\ caller[r] = "sending"
    /\ r \in cancelled
    /\ caller' = [caller EXCEPT ![r] = "error"]
    /\ UNCHANGED <<wl, remaining, promise, running, cancelled, findKeys,
                   mgrVars, rb, prCtxDone>>

CancelCtx(r) ==
    /\ r \in Impatient
    /\ caller[r] # "new"
    /\ r \notin cancelled
    /\ cancelled' = cancelled \cup {r}
    /\ UNCHANGED <<wl, caller, remaining, promise, running, findKeys,
                   mgrVars, rb, prCtxDone>>

\* receiveBlockFrom publishes a block: every subscription that still waits
\* for it gets it, once.
Publish(k) ==
    /\ promise' = [r \in Request |->
           IF r \in running /\ k \in remaining[r]
           THEN promise[r] \cup {k} ELSE promise[r]]
    /\ promise' # promise
    /\ UNCHANGED <<wl, caller, remaining, running, cancelled, findKeys,
                   mgrVars, rb, prCtxDone>>

\* Mutant: the key is taken off the request's list but not off the wantlist.
ReceiveBlockKeeping(r, k) ==
    /\ r \in running
    /\ k \in promise[r]
    /\ promise' = [promise EXCEPT ![r] = @ \ {k}]
    /\ remaining' = [remaining EXCEPT ![r] = @ \ {k}]
    /\ UNCHANGED <<wl, caller, running, cancelled, findKeys, mgrVars,
                   rb, prCtxDone>>

\* The goroutine of GetBlocks receives a block and hands it to its reader, or
\* its context is done; either way the want is gone.
ReceiveBlock(r, k) ==
    /\ r \in running
    /\ k \in promise[r]
    /\ promise' = [promise EXCEPT ![r] = @ \ {k}]
    /\ remaining' = [remaining EXCEPT ![r] = @ \ {k}]
    /\ wl' = Unwant(r, {k})
    /\ UNCHANGED <<caller, running, cancelled, findKeys, mgrVars, rb,
                   prCtxDone>>

\* The goroutine ends: all blocks are there, the context is done, or the
\* subscriptions are shut down.  The deferred call cancels what remains.
GetBlocksEnds(r) ==
    /\ r \in running
    /\ remaining[r] = {} \/ r \in cancelled \/ prCtxDone
    /\ running' = running \ {r}
    /\ wl' = Unwant(r, remaining[r])
    /\ promise' = [promise EXCEPT ![r] = {}]
    /\ UNCHANGED <<caller, remaining, cancelled, findKeys, mgrVars, rb,
                   prCtxDone>>

\* Mutant: the set of active keys is not consulted.
ReceiveFindKeyAgain ==
    /\ manager
    /\ findKeys # <<>>
    /\ LET e == Head(findKeys) IN
        IF e.by \in cancelled
        THEN UNCHANGED <<kset, queries>>
        ELSE /\ kset' = kset \cup {e.key}
             /\ queries' = [queries EXCEPT ![e.key] = @ + 1]
    /\ findKeys' = Tail(findKeys)
    /\ UNCHANGED <<wl, reqVars, manager, rb, prCtxDone>>

\* Mutant: a key whose search is over stays in the set.
QueryEndsKeeping(k) ==
    /\ queries[k] > 0
    /\ queries' = [queries EXCEPT ![k] = @ - 1]
    /\ UNCHANGED <<wl, reqVars, findKeys, kset, manager, rb, prCtxDone>>

\* providerQueryManager takes a request: cancelled ones are dropped, and so
\* are those for a key that is being searched for already.
ReceiveFindKey ==
    /\ manager
    /\ findKeys # <<>>
    /\ LET e == Head(findKeys) IN
        IF e.by \in cancelled \/ e.key \in kset
        THEN UNCHANGED <<kset, queries>>
        ELSE /\ kset' = kset \cup {e.key}
             /\ queries' = [queries EXCEPT ![e.key] = @ + 1]
    /\ findKeys' = Tail(findKeys)
    /\ UNCHANGED <<wl, reqVars, manager, rb, prCtxDone>>

\* FindProvidersAsync and every ConnectTo are over, or timed out.
QueryEnds(k) ==
    /\ queries[k] > 0
    /\ queries' = [queries EXCEPT ![k] = @ - 1]
    /\ kset' = kset \ {k}
    /\ UNCHANGED <<wl, reqVars, findKeys, manager, rb, prCtxDone>>

ManagerReturns ==
    /\ manager
    /\ prCtxDone
    /\ manager' = FALSE
    /\ UNCHANGED <<wl, reqVars, findKeys, kset, queries, rb, prCtxDone>>

\* rebroadcastWorker's ticker: some key of the wantlist is chosen, and sent
\* without a look at the context.
Rebroadcasting(k) ==
    /\ rb = RbIdle
    /\ wl[k] # {}
    /\ rb' = k
    /\ UNCHANGED <<wl, reqVars, findKeys, mgrVars, prCtxDone>>

RebroadcastSend ==
    /\ rb \in PrKey
    /\ Len(findKeys) < FindCap
    /\ findKeys' = Append(findKeys, [key |-> rb, by |-> Rebroadcast])
    /\ rb' = RbIdle
    /\ UNCHANGED <<wl, reqVars, mgrVars, prCtxDone>>

\* Mutant: the worker does not look at its parent context.
RebroadcastReturnsNever ==
    /\ rb = RbIdle /\ prCtxDone /\ manager
    /\ rb' = RbStopped
    /\ UNCHANGED <<wl, reqVars, findKeys, mgrVars, prCtxDone>>

RebroadcastReturns ==
    /\ rb = RbIdle
    /\ prCtxDone
    /\ rb' = RbStopped
    /\ UNCHANGED <<wl, reqVars, findKeys, mgrVars, prCtxDone>>

Close ==
    /\ ~prCtxDone
    /\ prCtxDone' = TRUE
    /\ UNCHANGED <<wl, reqVars, findKeys, mgrVars, rb>>

RequestStep(r) ==
    \/ SendFindKey(r) \/ GetBlocksCancelled(r) \/ GetBlocksEnds(r)
    \/ \E k \in PrKey : ReceiveBlock(r, k)

PrNext ==
    \/ \E r \in Request : GetBlocks(r) \/ RequestStep(r) \/ CancelCtx(r)
    \/ \E k \in PrKey : Publish(k) \/ Rebroadcasting(k) \/ QueryEnds(k)
    \/ ReceiveFindKey \/ ManagerReturns
    \/ RebroadcastSend \/ RebroadcastReturns \/ Close

PrSpec == PrInit /\ [][PrNext]_prVars

\* Goroutines run and searches time out.  rebroadcastWorker chooses at random,
\* so a key that is wanted again and again is chosen some time.
PrFairness ==
    /\ \A r \in Request : WF_prVars(RequestStep(r))
    /\ WF_prVars(ReceiveFindKey) /\ WF_prVars(ManagerReturns)
    /\ \A k \in PrKey : WF_prVars(QueryEnds(k))
    /\ WF_prVars(RebroadcastSend) /\ WF_prVars(RebroadcastReturns)
    /\ \A k \in PrKey : SF_prVars(Rebroadcasting(k))

PrFairSpec == PrSpec /\ PrFairness

(***************************************************************************)
(* Properties.                                                             *)
(***************************************************************************)

\* A key is on the wantlist for a request exactly while the goroutine of the
\* request still waits for it: no want outlives its request, and no block that
\* is still waited for stops being wanted.
WantsExact ==
    \A k \in PrKey : wl[k] = {r \in running : k \in remaining[r]}

\* A key is in the active set exactly while one search for it runs, and there
\* is never a second one.
OneQueryPerKey ==
    \A k \in PrKey : queries[k] = (IF k \in kset THEN 1 ELSE 0)

\* The two books of the requests outside a session are exact: the wantlist
\* says what the calls of GetBlocks still wait for, and the active set of
\* providerQueryManager what is being searched for, each key once.
SearchExact == WantsExact /\ OneQueryPerKey

\* A key that stays wanted is searched for, also when the search that its
\* request asked for was dropped, cancelled or over too soon.
WantedIsSearched ==
    \A k \in PrKey : wl[k] # {} ~> k \in kset \/ wl[k] = {} \/ prCtxDone

\* rebroadcastWorker sends on a full channel that nobody receives from.
RebroadcastBlocked == rb \in PrKey /\ Len(findKeys) = FindCap /\ ~manager

\* After a shutdown both workers return, except that rebroadcastWorker may
\* stay blocked in its send.
CloseEnds == prCtxDone ~> ~manager /\ (rb = RbStopped \/ RebroadcastBlocked)

-----------------------------------------------------------------------------
(***************************************************************************)
(* The reprovider (exchange/reprovide): Run, with the goroutine that       *)
(* answers triggers while a round runs; Reprovide; Trigger, as 'bitswap    *)
(* reprovide' calls it; and the goroutines of NewPinnedProvider that feed  *)
(* a round.                                                                *)
(***************************************************************************)

CONSTANTS RKey,             \* keys: roots, children, single blocks
          Kids,             \* Kids[k]: the blocks below k
          Insecure,         \* keys whose hash is refused (ValidateCid)
          FirstDirect,      \* the direct pins at first
          FirstRecursive,   \* the recursive pins at first
          Strategies,       \* configured strategy: "all", "pinned", "roots"
          Caller,           \* callers of Trigger
          MaxPins           \* bound on changes of the pins

VARIABLES strat, direct, recursive, pins,    \* configuration and pins
          rpdone,                            \* rp.ctx is done
          run,                               \* "select", "range", "provide", "finish", "ended"
          done,                              \* the trigger accepted last: its doneFunc (never reset)
          mute,                              \* goroutines answering triggers: "on", "cancelled"
          src,                               \* pinSet's goroutine: "start", "direct", "recursive", "closed"
          pending, seen,                     \* keys it has still to add, and those it added
          hand,                              \* the key NewPinnedProvider's goroutine holds
          key, provided, roundErr,           \* the round
          trig,                              \* "idle", "sending", "waiting", "ok", "error", "cancelled"
          through,                           \* history: keys to provide during the whole round
          partial,                           \* history: the enumeration of this round failed
          honest                             \* history: who was told "ok" was told the truth

pinv == <<strat, direct, recursive, pins>>
feed == <<src, pending, seen, hand>>
round == <<key, provided, roundErr>>
hist == <<through, partial, honest>>
rpvars == <<pinv, rpdone, run, done, mute, feed, round, trig, hist>>

Below(S) == S \cup UNION {Kids[k] : k \in S}
Wanted(d, r) == IF strat = "roots" THEN d \cup r ELSE d \cup Below(r)

-----------------------------------------------------------------------------
(* Run and Reprovide                                                       *)

StartRound ==
    /\ run = "select"
    /\ run' = "range" /\ src' = "start" /\ mute' = mute \cup {"on"}
    /\ through' = Wanted(direct, recursive)
    /\ UNCHANGED <<pinv, rpdone, pending, seen, hand, round, partial, honest>>
SelectTrigger(c) ==
    /\ trig[c] = "sending" /\ done' = {c} /\ trig' = [trig EXCEPT ![c] = "waiting"] /\ StartRound
SelectAfter == StartRound /\ UNCHANGED <<done, trig>>
SelectDone ==
    /\ run = "select" /\ rpdone
    /\ run' = "ended" /\ UNCHANGED <<pinv, rpdone, done, mute, feed, round, trig, hist>>

\* A key from the channel: one whose hash is insecure is passed over.
RpTakeKey ==
    /\ run = "range" /\ hand # <<>> /\ hand' = <<>>
    /\ IF hand[1] \in Insecure THEN UNCHANGED <<run, key>> ELSE run' = "provide" /\ key' = {hand[1]}
    /\ UNCHANGED <<pinv, rpdone, done, mute, src, pending, seen, provided, roundErr, trig, hist>>
\* The channel is closed: all was sent, or its goroutine saw the context done.
ClosedWhenSent == src = "closed" /\ hand = <<>>
ChannelClosed == (src = "closed" /\ hand = <<>>) \/ rpdone
RangeEnds ==
    /\ run = "range" /\ ChannelClosed
    /\ run' = "finish" /\ hand' = <<>>
    /\ UNCHANGED <<pinv, rpdone, done, mute, src, pending, seen, round, trig, hist>>
Provided ==
    /\ run = "provide" /\ run' = "range" /\ provided' = provided \cup key /\ key' = {}
    /\ UNCHANGED <<pinv, rpdone, done, mute, feed, roundErr, trig, hist>>
\* The retries are used up: the round ends with the error, its producers wait on.
ProvideGoesOn ==
    /\ run = "provide" /\ run' = "range" /\ key' = {}
    /\ UNCHANGED <<pinv, rpdone, done, mute, feed, provided, roundErr, trig, hist>>
ProvideFails ==
    /\ run = "provide" /\ run' = "finish" /\ roundErr' = TRUE /\ key' = {}
    /\ UNCHANGED <<pinv, rpdone, done, mute, feed, provided, trig, hist>>

Whole == through \ Insecure \subseteq provided
\* done(err), also when its caller has long returned.
DoneOnSuccess == trig' = [c \in Caller |-> IF c \in done /\ trig[c] = "waiting" /\ ~roundErr THEN "ok" ELSE trig[c]]
DoneWithoutError == trig' = [c \in Caller |-> IF c \in done /\ trig[c] = "waiting" THEN "ok" ELSE trig[c]]
Done == trig' = [c \in Caller |-> IF c \in done /\ trig[c] = "waiting"
                                  THEN IF roundErr THEN "error" ELSE "ok" ELSE trig[c]]
\* The round's locals are gone; the producers of a round that failed stay blocked
\* and take part in nothing.
Forget == /\ src' = "closed" /\ pending' = {} /\ seen' = {} /\ hand' = <<>>
          /\ provided' = {} /\ roundErr' = FALSE /\ through' = {} /\ partial' = FALSE /\ UNCHANGED key
RoundEnds ==
    /\ run = "finish" /\ run' = "select" /\ Done
    /\ mute' = (mute \ {"on"}) \cup {"cancelled"}
    /\ honest' = (honest /\ ((\E c \in Caller : trig[c] # trig'[c] /\ trig'[c] = "ok") => (Whole \/ partial \/ rpdone)))
    /\ Forget /\ UNCHANGED <<pinv, rpdone, done>>

\* muteTrigger's goroutine answers that the reprovider is already running; once
\* cancelled it may still take a trigger before it sees that.
Muted(c) ==
    /\ mute # {} /\ trig[c] = "sending" /\ trig' = [trig EXCEPT ![c] = "error"]
    /\ UNCHANGED <<pinv, rpdone, run, done, mute, feed, round, hist>>
MuteEnds ==
    /\ mute' = (IF rpdone THEN {} ELSE mute \ {"cancelled"}) /\ mute' # mute
    /\ UNCHANGED <<pinv, rpdone, run, done, feed, round, trig, hist>>

-----------------------------------------------------------------------------
(* pinSet: the direct keys, then the recursive ones with what is below them;   *)
(* each key once.  AllKeysChan is one list.                                 *)

ReadDirect ==
    /\ src = "start"
    /\ IF strat = "all" THEN src' = "recursive" /\ pending' = Wanted(direct, recursive)
       ELSE src' = "direct" /\ pending' = direct
    /\ UNCHANGED <<pinv, rpdone, run, done, mute, seen, hand, round, trig, hist>>
ReadRecursive ==
    /\ src = "direct" /\ pending = {}
    /\ src' = "recursive" /\ pending' = Wanted({}, recursive) \ seen
    /\ UNCHANGED <<pinv, rpdone, run, done, mute, seen, hand, round, trig, hist>>
\* set.add, and the goroutine of NewPinnedProvider takes it.
AddKey(k) ==
    /\ k \in pending /\ hand = <<>> /\ run \in {"range", "provide"} /\ ~rpdone
    /\ pending' = pending \ {k} /\ seen' = seen \cup {k} /\ hand' = <<k>>
    /\ UNCHANGED <<pinv, rpdone, run, done, mute, src, round, trig, hist>>
SourceEnds ==
    /\ src = "recursive" /\ pending = {} /\ src' = "closed"
    /\ UNCHANGED <<pinv, rpdone, run, done, mute, pending, seen, hand, round, trig, hist>>
\* EnumerateChildren fails: logged, and the set is closed as if it were whole.
EnumerateFails ==
    /\ src = "recursive" /\ strat = "pinned" /\ pending # {} /\ src' = "closed" /\ pending' = {} /\ partial' = TRUE
    /\ UNCHANGED <<pinv, rpdone, run, done, mute, seen, hand, round, trig, through, honest>>

-----------------------------------------------------------------------------
Call(c) ==
    /\ trig[c] = "idle" /\ trig' = [trig EXCEPT ![c] = "sending"]
    /\ UNCHANGED <<pinv, rpdone, run, done, mute, feed, round, hist>>
\* The request's context, or rp.ctx while the trigger is not taken.
CallCancelled(c) ==
    /\ trig[c] \in {"sending", "waiting"} /\ trig' = [trig EXCEPT ![c] = "cancelled"]
    /\ UNCHANGED <<pinv, rpdone, run, done, mute, feed, round, hist>>
CallRefused(c) == rpdone /\ trig[c] = "sending" /\ CallCancelled(c)
Shutdown ==
    /\ ~rpdone /\ rpdone' = TRUE
    /\ UNCHANGED <<pinv, run, done, mute, feed, round, trig, hist>>
\* What a round cannot miss when the pins change: what is still to be provided,
\* but for a key that a recursive pin no longer holds.  A direct pin that takes
\* over between the two reads of pinSet is not seen by either of them.
Still(d, r) == {k \in through \cap Wanted(d, r) : k \in Wanted({}, recursive) => k \in Wanted({}, r)}
\* The pins change: a recursive pin takes the place of a direct one.
PinsChange(d, r) ==
    /\ pins < MaxPins /\ pins' = pins + 1 /\ <<d, r>> # <<direct, recursive>>
    /\ direct' = d /\ recursive' = r /\ through' = Still(d, r)
    /\ UNCHANGED <<strat, rpdone, run, done, mute, feed, round, trig, partial, honest>>
PinRecursive(k) == k \notin recursive /\ PinsChange(direct \ {k}, recursive \cup {k})
PinDirect(k) == k \notin recursive /\ PinsChange(direct \cup {k}, recursive)
Unpin(k) == PinsChange(direct \ {k}, recursive \ {k})

RpInit ==
    /\ strat \in Strategies /\ direct = FirstDirect /\ recursive = FirstRecursive /\ pins = 0 /\ rpdone = FALSE
    /\ run = "select" /\ done = {} /\ mute = {} /\ src = "closed" /\ pending = {} /\ seen = {} /\ hand = <<>>
    /\ key = {} /\ provided = {} /\ roundErr = FALSE
    /\ trig = [c \in Caller |-> "idle"] /\ through = {} /\ partial = FALSE /\ honest = TRUE
RunSteps == RpTakeKey \/ RangeEnds \/ RoundEnds
Feeding == ReadDirect \/ ReadRecursive \/ SourceEnds \/ \E k \in RKey : AddKey(k)
TriggerTaken == \E c \in Caller : SelectTrigger(c) \/ Muted(c)
RpNext ==
    \/ RunSteps \/ Feeding \/ TriggerTaken \/ MuteEnds \/ SelectDone \/ SelectAfter
    \/ Provided \/ ProvideFails \/ EnumerateFails \/ Shutdown
    \/ \E c \in Caller : Call(c) \/ CallCancelled(c)
    \/ \E k \in RKey : PinRecursive(k) \/ PinDirect(k) \/ Unpin(k)
RpSpec == RpInit /\ [][RpNext]_rpvars
\* Goroutines run, and a Provide returns, at last with an error; a trigger that is
\* sent is taken when someone receives, and a select does not pass over a context
\* that is done for ever.
RpFairSpec ==
    /\ RpSpec /\ WF_rpvars(RunSteps) /\ WF_rpvars(Feeding) /\ WF_rpvars(Provided \/ ProvideFails)
    /\ WF_rpvars(MuteEnds) /\ SF_rpvars(SelectDone) /\ SF_rpvars(TriggerTaken)
    /\ WF_rpvars(\E c \in Caller : CallRefused(c))

-----------------------------------------------------------------------------
\* A round that ends without an error has provided every key that was to be
\* provided from its start to its end, whatever was pinned or unpinned meanwhile:
\* unless the enumeration failed, the node is closing, or the key came from
\* below a recursive pin to a direct one in the midst of the round.
RoundProvides == (run = "finish" /\ ~roundErr /\ ~partial /\ ~rpdone) => Whole

\* Trigger returns no error only when the round it started did all of it.
TriggerHonest == honest

\* A round of the reprovider that ends without an error provided every key
\* that was to be provided all through it, and Trigger reports no success for
\* a round that did not.
ReprovideHonest == RoundProvides /\ TriggerHonest

\* Every Trigger returns: with the round's result, or that one is running.
TriggerReturns == \A c \in Caller : trig[c] \in {"sending", "waiting"} ~> trig[c] \notin {"sending", "waiting"}

\* When the node closes, Run ends and no goroutine that answers triggers is left.
RunEnds == rpdone ~> (run = "ended" /\ mute = {})
=============================================================================
