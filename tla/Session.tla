------------------------------ MODULE Session ------------------------------
(***************************************************************************)
(* A bitswap session (exchange/bitswap/session.go): the event loop that    *)
(* keeps at most activeWantsLimit wants out at a time and queues the rest, *)
(* the GetBlocks calls that share the session (get.go), their              *)
(* subscriptions (notifications/notifications.go), and the goroutines of   *)
(* Bitswap.receiveBlockFrom that hand it blocks (bitswap.go).              *)
(*                                                                         *)
(* A rendezvous on one of the session's channels is one step of the loop   *)
(* and the other party.  The want manager is seen through what it is told: *)
(* requests reach it in the order they are sent, so `wanted' is the set of *)
(* keys it holds for the session.  Which peers are told is left out.       *)
(***************************************************************************)
EXTENDS Naturals, Sequences, SequencesExt

CONSTANTS
    Key,            \* the cids
    Caller,         \* users of the session
    Receiver,       \* goroutines that receive a block
    Requests,       \* the key lists a caller may ask for
    Limit,          \* activeWantsLimit
    InterestSize,   \* the size of the interest cache
    MaxQueue,       \* bound on the list of the queue when a call starts
    Env,            \* what may happen beside blocks arriving as asked
    None            \* no key

AllEnv == {"stray", "cancel", "close"}

ASSUME SessionAssumption ==
    /\ Requests \subseteq Seq(Key)
    /\ \A ks \in Requests : IsInjective(ks)
    /\ Limit \in Nat \ {0}
    /\ InterestSize \in Nat \ {0}
    /\ MaxQueue \in Nat
    /\ Env \subseteq AllEnv
    /\ None \notin Key

VARIABLES
    ses,            \* "open", "closing" once the context is done, "removed"
    live,           \* Session.liveWants
    elems, eset,    \* Session.tofetch: the list of the queue and its set
    interest,       \* Session.interest, the key used least recently first
    wanted,         \* the keys the want manager holds for the session
    store,          \* the blocks in the blockstore
    pc,             \* where the GetBlocks call of a caller is
    keys,           \* the keys it asks for
    sub,            \* the keys it is subscribed to
    promise,        \* blocks published to it and not yet taken
    remaining,      \* the keys it has not taken a block for
    recv,           \* by receiver, the step it is at and its block
    dropped         \* keys the end of a call took off the queue, not asked again

loopVars == <<live, elems, eset, interest>>
callVars == <<pc, keys, sub, promise, remaining>>
vars == <<ses, loopVars, wanted, store, callVars, recv, dropped>>

Step == {"idle", "put", "offer", "cancel"}
CallStep == {"idle", "missed", "fetch", "wait", "cancel"}

\* Types of a session's loop, its calls and the receivers of blocks.
TypeOK ==
    /\ ses \in {"open", "closing", "removed"}
    /\ live \subseteq Key
    /\ elems \in Seq(Key)
    /\ eset \subseteq ToSet(elems)
    /\ interest \in Seq(Key)
    /\ Len(interest) <= InterestSize
    /\ wanted \subseteq Key
    /\ store \subseteq Key
    /\ pc \in [Caller -> CallStep]
    /\ keys \in [Caller -> Seq(Key)]
    /\ sub \in [Caller -> SUBSET Key]
    /\ promise \in [Caller -> SUBSET Key]
    /\ remaining \in [Caller -> SUBSET Key]
    /\ recv \in [Receiver -> [step : Step, key : Key \cup {None}]]
    /\ dropped \subseteq Key

Init ==
    /\ ses = "open"
    /\ live = {}
    /\ elems = <<>> /\ eset = {}
    /\ interest = <<>>
    /\ wanted = {}
    /\ store = {}
    /\ pc = [c \in Caller |-> "idle"]
    /\ keys = [c \in Caller |-> <<>>]
    /\ sub = [c \in Caller |-> {}]
    /\ promise = [c \in Caller |-> {}]
    /\ remaining = [c \in Caller |-> {}]
    /\ recv = [r \in Receiver |-> [step |-> "idle", key |-> None]]
    /\ dropped = {}

----------------------------------------------------------------------------
(* The queue, the interest cache and the want manager.                     *)

\* interest.Add as it would be if the cache were never trimmed.
InterestAddUnbounded(lru, k) == Append(Remove(lru, k), k)

\* interest.Add: the key becomes the most recent, the oldest one is evicted.
InterestAdd(lru, k) ==
    LET fresh == Append(Remove(lru, k), k)
    IN  IF Len(fresh) > InterestSize THEN Tail(fresh) ELSE fresh

\* tofetch.Push of the keys ks: a key the queue has is not added again.
Push(ks) ==
    /\ elems' = elems \o SelectSeq(ks, LAMBDA k : k \notin eset)
    /\ eset' = eset \cup ToSet(ks)

\* The places of the keys of q in the list of the queue.
Places(q) == {i \in DOMAIN elems : elems[i] \in q}

\* wm.WantBlocks with the session's context: lost if the context is done.
WantBlocks(ks) ==
    \/ wanted' = wanted \cup ks
    \/ ses # "open" /\ wanted' = wanted

\* wantBlocks: the keys become live and are asked for.
wantBlocks(ks) == live' = live \cup ks /\ WantBlocks(ks)

\* notif.Publish: each subscription is to the first block of a key only.
Publish(k) ==
    /\ promise' = [c \in Caller |-> IF k \in sub[c] THEN promise[c] \cup {k}
                                    ELSE promise[c]]
    /\ sub' = [c \in Caller |-> sub[c] \ {k}]

----------------------------------------------------------------------------
(* The callers.                                                            *)

\* The block service does not find the keys locally, and turns to the session.
Miss(c, ks) ==
    /\ pc[c] = "idle"
    /\ Len(elems) + Len(ks) <= MaxQueue
    /\ ToSet(ks) \cap store = {}
    /\ pc' = [pc EXCEPT ![c] = "missed"]
    /\ keys' = [keys EXCEPT ![c] = ks]
    /\ remaining' = [remaining EXCEPT ![c] = ToSet(ks)]
    /\ UNCHANGED <<ses, loopVars, wanted, store, sub, promise, recv, dropped>>

\* getBlocksImpl subscribes; a session that was shut down gives it a closed
\* channel, and it goes on to cancel its keys.
Subscribe(c) ==
    /\ pc[c] = "missed"
    /\ \/ /\ ses # "removed"
          /\ pc' = [pc EXCEPT ![c] = "fetch"]
          /\ sub' = [sub EXCEPT ![c] = ToSet(keys[c])]
       \/ /\ ses = "removed"
          /\ pc' = [pc EXCEPT ![c] = "cancel"]
          /\ UNCHANGED sub
    /\ UNCHANGED <<ses, loopVars, wanted, store, keys, promise, remaining,
                   recv, dropped>>

\* fetch hands the keys to the loop, which asks for as many as the limit
\* leaves room for and queues the others.
NewReqs(c) ==
    /\ pc[c] = "fetch"
    /\ ses # "removed"
    /\ pc' = [pc EXCEPT ![c] = "wait"]
    /\ interest' = FoldLeft(InterestAdd, interest, keys[c])
    /\ LET ks == keys[c]
       IN  \E toadd \in 0..Len(ks) :
             /\ toadd = Max({0, Min({Len(ks), Limit - Cardinality(live)})})
             /\ wantBlocks(ToSet(SubSeq(ks, 1, toadd)))
             /\ Push(SubSeq(ks, toadd + 1, Len(ks)))
    /\ dropped' = dropped \ ToSet(keys[c])
    /\ UNCHANGED <<ses, store, keys, sub, promise, remaining, recv>>

\* fetch gives up: the session's context is done.
FetchSkipped(c) ==
    /\ pc[c] = "fetch"
    /\ ses # "open"
    /\ pc' = [pc EXCEPT ![c] = "wait"]
    /\ UNCHANGED <<ses, loopVars, wanted, store, keys, sub, promise,
                   remaining, recv, dropped>>

\* handleIncoming takes a block and passes it on.
Take(c, k) ==
    /\ pc[c] = "wait"
    /\ k \in promise[c]
    /\ promise' = [promise EXCEPT ![c] = @ \ {k}]
    /\ remaining' = [remaining EXCEPT ![c] = @ \ {k}]
    /\ UNCHANGED <<ses, loopVars, wanted, store, pc, keys, sub, recv, dropped>>

\* handleIncoming ends as the subscription is closed: it got a block for every
\* key, or the session was shut down.
Finish(c) ==
    /\ pc[c] = "wait"
    /\ sub[c] \cup promise[c] = {} \/ ses = "removed"
    /\ pc' = [pc EXCEPT ![c] = "cancel"]
    /\ sub' = [sub EXCEPT ![c] = {}]
    /\ promise' = [promise EXCEPT ![c] = {}]
    /\ UNCHANGED <<ses, loopVars, wanted, store, keys, remaining, recv, dropped>>

\* The context of a call is cancelled, wherever the call is.
CancelContext(c) ==
    /\ "cancel" \in Env
    /\ pc[c] \in {"missed", "fetch", "wait"}
    /\ pc' = [pc EXCEPT ![c] = "cancel"]
    /\ sub' = [sub EXCEPT ![c] = {}]
    /\ promise' = [promise EXCEPT ![c] = {}]
    /\ UNCHANGED <<ses, loopVars, wanted, store, keys, remaining, recv, dropped>>

\* cancelWants: the loop takes the keys that are left off its queue, or the
\* session's context is done and nobody listens.
CancelKeys(c) ==
    /\ pc[c] = "cancel"
    /\ pc' = [pc EXCEPT ![c] = "idle"]
    /\ \/ /\ ses # "removed"
          /\ eset' = eset \ remaining[c]
          /\ dropped' = dropped \cup (eset \cap remaining[c])
       \/ ses # "open" /\ UNCHANGED <<eset, dropped>>
    /\ UNCHANGED <<ses, live, elems, interest, wanted, store, keys, sub,
                   promise, remaining, recv>>

----------------------------------------------------------------------------
(* Blocks.                                                                 *)

\* A block arrives and is stored: a peer answers a want of the session or,
\* "stray", it was added locally, asked for elsewhere or sent twice.
Arrive(r, k) ==
    /\ recv[r].step = "idle"
    /\ k \in wanted \/ "stray" \in Env
    /\ store' = store \cup {k}
    /\ recv' = [recv EXCEPT ![r] = [step |-> "put", key |-> k]]
    /\ UNCHANGED <<ses, loopVars, wanted, callVars, dropped>>

\* SessionsForBlock: the interest cache has the key or the loop, asked by
\* isLiveWant, still wants it.
Interested(k) ==
    /\ ses # "removed"
    /\ k \in ToSet(interest) \cup live \cup eset

SessionsForBlock(r) ==
    /\ recv[r].step = "put"
    /\ \/ /\ Interested(recv[r].key)
          /\ recv' = [recv EXCEPT ![r] = [step |-> "offer", key |-> recv[r].key]]
       \/ /\ ~Interested(recv[r].key) \/ ses # "open"
          /\ ses = "removed" \/ recv[r].key \notin ToSet(interest)
          /\ recv' = [recv EXCEPT ![r] = [step |-> "idle", key |-> None]]
    /\ UNCHANGED <<ses, loopVars, wanted, store, callVars, dropped>>

\* receiveBlock as it would be if the key it pops were not asked for.
receiveBlockDropsNext(k) ==
    LET q == IF k \in live THEN eset ELSE eset \ {k}
    IN  /\ k \in live \cup eset
        /\ Publish(k)
        /\ live' = live \ {k}
        /\ \/ /\ Places(q) = {}
              /\ elems' = <<>>
              /\ eset' = q
           \/ \E i \in Places(q) :
                /\ \A j \in Places(q) : i <= j
                /\ elems' = SubSeq(elems, i + 1, Len(elems))
                /\ eset' = q \ {elems[i]}
        /\ UNCHANGED wanted

\* receiveBlock, in the loop: the block is published and the first key of the
\* queue takes its place among the live wants.
receiveBlock(k) ==
    LET q == IF k \in live THEN eset ELSE eset \ {k}
    IN  /\ k \in live \cup eset
        /\ Publish(k)
        /\ \/ /\ Places(q) = {}
              /\ elems' = <<>>
              /\ eset' = q
              /\ live' = live \ {k}
              /\ UNCHANGED wanted
           \/ \E i \in Places(q) :
                /\ \A j \in Places(q) : i <= j
                /\ elems' = SubSeq(elems, i + 1, Len(elems))
                /\ eset' = q \ {elems[i]}
                /\ live' = (live \ {k}) \cup {elems[i]}
                /\ WantBlocks({elems[i]})

\* receiveBlockFrom offers the block to the loop.
Offer(r) ==
    /\ recv[r].step = "offer"
    /\ recv' = [recv EXCEPT ![r] = [step |-> "cancel", key |-> recv[r].key]]
    /\ \/ /\ ses # "removed"
          /\ receiveBlock(recv[r].key)
       \/ /\ ses # "open" \/ recv[r].key \notin live \cup eset
          /\ UNCHANGED <<live, elems, eset, wanted, sub, promise>>
    /\ UNCHANGED <<ses, interest, store, pc, keys, remaining, dropped>>

\* Bitswap.receiveBlockFrom cancels the want of the session.
CancelWants(r) ==
    /\ recv[r].step = "cancel"
    /\ wanted' = wanted \ {recv[r].key}
    /\ recv' = [recv EXCEPT ![r] = [step |-> "idle", key |-> None]]
    /\ UNCHANGED <<ses, loopVars, store, callVars, dropped>>

----------------------------------------------------------------------------
(* The session.                                                            *)

\* Tick as it would be if the timer only looked for providers.
TickSilent ==
    /\ ses # "removed"
    /\ UNCHANGED vars

\* The timer of the loop: everything live is asked for again.
Tick ==
    /\ ses # "removed"
    /\ WantBlocks(live)
    /\ UNCHANGED <<ses, loopVars, store, callVars, recv, dropped>>

CloseContext ==
    /\ "close" \in Env
    /\ ses = "open"
    /\ ses' = "closing"
    /\ UNCHANGED <<loopVars, wanted, store, callVars, recv, dropped>>

\* removeSession as it would be if it only shut the subscriptions down.
removeSessionKeepsWants ==
    /\ ses = "closing"
    /\ ses' = "removed"
    /\ UNCHANGED <<loopVars, wanted, store, callVars, recv, dropped>>

\* removeSession: the subscriptions are shut down, the live wants cancelled,
\* and the session leaves the list of sessions.
removeSession ==
    /\ ses = "closing"
    /\ ses' = "removed"
    /\ wanted' = wanted \ live
    /\ UNCHANGED <<loopVars, store, callVars, recv, dropped>>

CallNext(c) ==
    \/ \E ks \in Requests : Miss(c, ks)
    \/ Subscribe(c)
    \/ NewReqs(c)
    \/ FetchSkipped(c)
    \/ \E k \in Key : Take(c, k)
    \/ Finish(c)
    \/ CancelContext(c)
    \/ CancelKeys(c)

RecvNext(r) ==
    \/ \E k \in Key : Arrive(r, k)
    \/ SessionsForBlock(r)
    \/ Offer(r)
    \/ CancelWants(r)

Next ==
    \/ \E c \in Caller : CallNext(c)
    \/ \E r \in Receiver : RecvNext(r)
    \/ Tick
    \/ CloseContext
    \/ removeSession

Spec == Init /\ [][Next]_vars

\* The goroutines run, the timer fires and the peers answer what they are
\* asked; nothing makes a caller ask or a context end.  An answer is only put
\* off while all of the model's receivers are busy.
FairSpec ==
    /\ Spec
    /\ \A c \in Caller :
        /\ WF_vars(Subscribe(c))
        /\ WF_vars(NewReqs(c) \/ FetchSkipped(c))
        /\ WF_vars((\E k \in Key : Take(c, k)) \/ Finish(c))
        /\ WF_vars(CancelKeys(c))
    /\ \A r \in Receiver : WF_vars(SessionsForBlock(r) \/ Offer(r) \/ CancelWants(r))
    /\ \A k \in Key : SF_vars(k \in wanted /\ \E r \in Receiver : Arrive(r, k))
    /\ WF_vars(Tick)
    /\ WF_vars(removeSession)

----------------------------------------------------------------------------
(* Properties.                                                             *)

\* The keys whose want a receiver is about to cancel.
Cancelling == {recv[r].key : r \in {r \in Receiver : recv[r].step = "cancel"}}

\* The wantlist holds no key for the session that it does not count as live,
\* except while the goroutine that delivered the block has its CancelWants
\* still to do; once the session is removed, no key but those.
WantedCovered ==
    wanted \subseteq (IF ses = "removed" THEN {} ELSE live) \cup Cancelling

\* While the session is open, a key that a GetBlocks call waits for is live or
\* queued: no arrival of blocks makes the loop forget it.  Only the end of
\* another call on the session, which cancels the keys it has left, does.
AwaitedTracked ==
    ses = "open" =>
        \A c \in Caller :
            pc[c] = "wait" => sub[c] \subseteq live \cup eset \cup dropped

\* If peers answer, every GetBlocks call comes to its end: it gets all its
\* blocks however few wants the limit lets out at a time, unless the end of
\* another call dropped one of its keys.
CallEnds ==
    \A c \in Caller : pc[c] = "missed" ~> (pc[c] = "idle" \/ sub[c] \cap dropped # {})
============================================================================
