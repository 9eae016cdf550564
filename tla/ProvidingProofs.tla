-------------------------- MODULE ProvidingProofs ---------------------------
(***************************************************************************)
(* Proofs about the parts of Providing: the queue of keys to provide loses *)
(* nothing, the books of the provider search are exact, and a round of the *)
(* reprovider does what it reports, for any keys, requests and capacities. *)
(***************************************************************************)
EXTENDS Providing, SequenceTheorems, TLAPS

(***************************************************************************)
(* The queue of keys to provide.                                           *)
(***************************************************************************)

\* The inductive invariant: the collector keeps keys on its list only while
\* it has one to send, so that the next key from newBlocks may go first.
PqInv ==
    /\ PqTypeOK
    /\ NothingLost
    /\ nextKey = PqNoKey => toProvide = <<>>

\* What one of the goroutines holds is a sequence of no key or of one.
LEMMA OptType == \A k \in PqKey \cup {PqNoKey} : Opt(k) \in Seq(PqKey)
BY DEF Opt

\* The sequences of keys are closed under what is done with them.
LEMMA Closed ==
    /\ <<>> \in Seq(PqKey)
    /\ \A s, t \in Seq(PqKey) : s \o t \in Seq(PqKey)
    /\ \A s \in Seq(PqKey), x \in PqKey : Append(s, x) \in Seq(PqKey)
BY ConcatProperties

\* Who holds no key adds none.
LEMMA NoKeyHeld == \A s \in Seq(PqKey) : s \o <<>> = s
BY ConcatEmptySeq

\* A key that is received from a channel comes before what stays there.
LEMMA Received ==
    ASSUME NEW s \in Seq(PqKey), NEW t \in Seq(PqKey), t # <<>>
    PROVE  /\ Head(t) \in PqKey /\ Tail(t) \in Seq(PqKey) /\ Len(Tail(t)) <= Len(t)
           /\ s \o <<Head(t)>> \o Tail(t) = s \o t
<1>1. Head(t) \in PqKey /\ Tail(t) \in Seq(PqKey) /\ Len(Tail(t)) = Len(t) - 1
    BY HeadTailProperties
<1>2. t = <<Head(t)>> \o Tail(t)
    OBVIOUS
<1>3. <<Head(t)>> \in Seq(PqKey)
    BY <1>1
<1>4. s \o <<Head(t)>> \o Tail(t) = s \o (<<Head(t)>> \o Tail(t))
    <2> DEFINE h == <<Head(t)>>
               r == Tail(t)
    <2>1. h \in Seq(PqKey) /\ r \in Seq(PqKey)
        BY Zenon, <1>1, <1>3
    <2> HIDE DEF h, r
    <2>2. s \o h \o r = s \o (h \o r)
        BY SMTT(30), <2>1, ConcatAssociative
    <2> QED
        BY Zenon, <2>2 DEF h, r
<1> QED
    BY <1>1, <1>2, <1>4

\* Append adds a sequence of one.
LEMMA AppendOne == \A s \in Seq(PqKey), x \in PqKey : Append(s, x) = s \o <<x>>
BY AppendIsConcat

\* A key that is sent comes after what the channel holds.
LEMMA SentLast ==
    ASSUME NEW s \in Seq(PqKey), NEW t \in Seq(PqKey), NEW x \in PqKey
    PROVE  /\ s \o Append(t, x) = s \o t \o <<x>>
           /\ s \o Append(t, x) = Append(s \o t, x)
<1> DEFINE u == <<x>>
<1>1. u \in Seq(PqKey) /\ s \o t \in Seq(PqKey)
    BY Closed
<1>2. Append(t, x) = t \o u /\ Append(s \o t, x) = s \o t \o u
    BY Zenon, <1>1, AppendOne
<1> HIDE DEF u
<1>3. s \o t \o u = s \o (t \o u)
    BY SMTT(30), <1>1, ConcatAssociative
<1> QED
    BY Zenon, <1>2, <1>3 DEF u

\* The keys up to each stage: started or in the worker's hand, in provideKeys,
\* in the collector's hand, on its list.
Worker == started \o Opt(held)
Fed == Worker \o provideKeys
Collected == Fed \o Opt(nextKey)
Listed == Collected \o toProvide

\* All of them are sequences of keys.
LEMMA Stages ==
    PqTypeOK => /\ started \in Seq(PqKey) /\ Worker \in Seq(PqKey)
                /\ Fed \in Seq(PqKey) /\ Collected \in Seq(PqKey)
                /\ Listed \in Seq(PqKey)
<1> SUFFICES ASSUME PqTypeOK
             PROVE  /\ started \in Seq(PqKey) /\ Worker \in Seq(PqKey)
                    /\ Fed \in Seq(PqKey) /\ Collected \in Seq(PqKey)
                    /\ Listed \in Seq(PqKey)
    OBVIOUS
<1>1. /\ started \in Seq(PqKey) /\ provideKeys \in Seq(PqKey) /\ toProvide \in Seq(PqKey)
      /\ Opt(held) \in Seq(PqKey) /\ Opt(nextKey) \in Seq(PqKey)
    BY Zenon, OptType DEF PqTypeOK
<1>2. Worker \in Seq(PqKey)
    BY Zenon, <1>1, Closed DEF Worker
<1>3. Fed \in Seq(PqKey)
    BY Zenon, <1>1, <1>2, Closed DEF Fed
<1>4. Collected \in Seq(PqKey)
    BY Zenon, <1>1, <1>3, Closed DEF Collected
<1> QED
    BY Zenon, <1>1, <1>2, <1>3, <1>4, Closed DEF Listed

\* An empty queue has lost nothing.
LEMMA PqInitInv == PqInit => PqInv
<1> SUFFICES ASSUME PqInit
             PROVE  PqInv
    OBVIOUS
<1>1. PqTypeOK
    <2>1. Len(<<>>) <= NewCap /\ Len(<<>>) <= KeysCap /\ 0 \in 0..ProvideMax
        BY PqAssumption
    <2> QED
        BY Zenon, <2>1, Closed DEF PqInit, PqTypeOK
<1>2. Opt(PqNoKey) = <<>>
    BY DEF Opt
<1>3. NothingLost
    BY Zenon, <1>2, NoKeyHeld, Closed DEF PqInit, NothingLost
<1> QED
    BY Zenon, <1>1, <1>3 DEF PqInv, PqInit

\* Every step keeps the types.
LEMMA PqTypeStep == PqInv /\ [PqNext]_pqVars => PqTypeOK'
<1> SUFFICES ASSUME PqInv, [PqNext]_pqVars
             PROVE  PqTypeOK'
    OBVIOUS
<1> USE PqAssumption
<1>0. PqTypeOK
    BY Zenon DEF PqInv
<1>1. ASSUME NEW k \in PqKey, HasBlock(k)
      PROVE  PqTypeOK'
    BY <1>0, <1>1 DEF HasBlock, PqTypeOK
<1>2. ASSUME CollectKey
      PROVE  PqTypeOK'
    <2>1. /\ Head(newBlocks) \in PqKey /\ Tail(newBlocks) \in Seq(PqKey)
          /\ Len(Tail(newBlocks)) <= NewCap
        BY <1>0, <1>2, Received DEF CollectKey, PqTypeOK
    <2> QED
        BY Zenon, <1>0, <1>2, <2>1, Closed DEF CollectKey, PqTypeOK
<1>3. ASSUME FeedKey
      PROVE  PqTypeOK'
    <2>1. toProvide # <<>> => Head(toProvide) \in PqKey /\ Tail(toProvide) \in Seq(PqKey)
        BY <1>0, Received DEF PqTypeOK
    <2>2. provideKeys' \in Seq(PqKey) /\ Len(provideKeys') <= KeysCap
        BY <1>0, <1>3 DEF FeedKey, PqTypeOK
    <2> QED
        BY Zenon, <1>0, <1>3, <2>1, <2>2 DEF FeedKey, PqTypeOK
<1>4. ASSUME CollectorReturns
      PROVE  PqTypeOK'
    BY Zenon, <1>0, <1>4 DEF CollectorReturns, PqTypeOK
<1>5. ASSUME TakeKey
      PROVE  PqTypeOK'
    <2>1. /\ Head(provideKeys) \in PqKey /\ Tail(provideKeys) \in Seq(PqKey)
          /\ Len(Tail(provideKeys)) <= KeysCap
        BY <1>0, <1>5, Received DEF TakeKey, PqTypeOK
    <2> QED
        BY Zenon, <1>0, <1>5, <2>1 DEF TakeKey, PqTypeOK
<1>6. ASSUME GoProvide
      PROVE  PqTypeOK'
    <2>1. inflight' \in 0..ProvideMax
        BY <1>0, <1>6 DEF GoProvide, PqTypeOK
    <2>2. held \in PqKey
        BY Zenon, <1>0, <1>6 DEF GoProvide, PqTypeOK
    <2> QED
        BY Zenon, <1>0, <1>6, <2>1, <2>2, Closed DEF GoProvide, PqTypeOK
<1>7. ASSUME ProvideReturns
      PROVE  PqTypeOK'
    <2>1. inflight' \in 0..ProvideMax
        BY <1>0, <1>7 DEF ProvideReturns, PqTypeOK
    <2> QED
        BY Zenon, <1>0, <1>7, <2>1 DEF ProvideReturns, PqTypeOK
<1>8. ASSUME WorkerReturns
      PROVE  PqTypeOK'
    BY Zenon, <1>0, <1>8 DEF WorkerReturns, PqTypeOK
<1>9. ASSUME Closing \/ CtxDone \/ UNCHANGED pqVars
      PROVE  PqTypeOK'
    BY Zenon, <1>0, <1>9 DEF Closing, CtxDone, pqVars, PqTypeOK
<1> QED
    BY Zenon, <1>1, <1>2, <1>3, <1>4, <1>5, <1>6, <1>7, <1>8, <1>9 DEF PqNext

\* The keys as NothingLost lists them.
LEMMA InOrder == NothingLost <=> ("provideWorker" \in workers => accepted = Listed \o newBlocks)
BY Zenon DEF NothingLost, Listed, Collected, Fed, Worker

\* Every step moves a key from one place to the next, or moves none.
LEMMA PqOrderStep == PqInv /\ PqTypeOK' /\ [PqNext]_pqVars => NothingLost'
<1> SUFFICES ASSUME PqInv, PqTypeOK', [PqNext]_pqVars, "provideWorker" \in workers'
             PROVE  (accepted = Listed \o newBlocks)'
    BY Zenon, InOrder DEF NothingLost, Listed, Collected, Fed, Worker
<1>0. PqTypeOK /\ Opt(PqNoKey) = <<>>
    BY Zenon DEF PqInv, Opt
<1>s. /\ started \in Seq(PqKey) /\ Worker \in Seq(PqKey) /\ Fed \in Seq(PqKey)
      /\ Collected \in Seq(PqKey) /\ Listed \in Seq(PqKey)
    BY Zenon, <1>0, Stages
<1>t. /\ provideKeys \in Seq(PqKey) /\ newBlocks \in Seq(PqKey) /\ toProvide \in Seq(PqKey)
    BY Zenon, <1>0 DEF PqTypeOK
<1>k. \A k \in PqKey : Opt(k) = <<k>>
    BY Zenon, PqAssumption DEF Opt
<1>w. "provideWorker" \in workers => accepted = Listed \o newBlocks
    BY Zenon, InOrder DEF PqInv
<1>1. ASSUME NEW k \in PqKey, HasBlock(k)
      PROVE  (accepted = Listed \o newBlocks)'
    <2>1. accepted = Listed \o newBlocks /\ Listed' = Listed
        BY Zenon, <1>1, <1>w DEF HasBlock, Listed, Collected, Fed, Worker
    <2>2. Listed \o Append(newBlocks, k) = Append(Listed \o newBlocks, k)
        BY Zenon, <1>s, <1>t, SentLast
    <2> QED
        BY Zenon, <1>1, <2>1, <2>2 DEF HasBlock
<1>2. ASSUME CollectKey
      PROVE  (accepted = Listed \o newBlocks)'
    <2> DEFINE h == Head(newBlocks)
    <2>1. accepted = Listed \o newBlocks /\ accepted' = accepted /\ Fed' = Fed
        BY Zenon, <1>2, <1>w DEF CollectKey, Fed, Worker
    <2>2. h \in PqKey /\ newBlocks' = Tail(newBlocks) /\ Listed \o <<h>> \o Tail(newBlocks) = Listed \o newBlocks
        BY Zenon, <1>2, <1>s, <1>t, Received DEF CollectKey
    <2>3. CASE nextKey = PqNoKey
        <3>1. toProvide = <<>> /\ toProvide' = <<>> /\ nextKey' = h
            BY Zenon, <1>2, <2>3 DEF PqInv, CollectKey
        <3>2. Listed = Fed
            BY Zenon, <1>0, <1>s, <2>3, <3>1, NoKeyHeld DEF Listed, Collected
        <3>3. Collected' = Fed \o <<h>> /\ Collected' \in Seq(PqKey)
            <4>1. Opt(h) = <<h>> /\ Opt(h) \in Seq(PqKey)
                BY Zenon, <1>k, <2>2, OptType
            <4> QED
                BY Zenon, <1>s, <2>1, <3>1, <4>1, Closed DEF Collected
        <3>4. Listed' = Fed \o <<h>>
            BY Zenon, <3>1, <3>3, NoKeyHeld DEF Listed
        <3> QED
            BY Zenon, <2>1, <2>2, <3>2, <3>4
    <2>4. CASE nextKey # PqNoKey
        <3>1. toProvide' = Append(toProvide, h) /\ Collected' = Collected
            BY Zenon, <1>2, <2>1, <2>4 DEF CollectKey, Collected
        <3>2. Listed' = Listed \o <<h>>
            BY Zenon, <1>s, <1>t, <2>2, <3>1, SentLast DEF Listed
        <3> QED
            BY Zenon, <2>1, <2>2, <3>2
    <2> QED
        BY Zenon, <2>3, <2>4
<1>3. ASSUME FeedKey
      PROVE  (accepted = Listed \o newBlocks)'
    <2>1. /\ accepted = Listed \o newBlocks /\ accepted' = accepted
          /\ newBlocks' = newBlocks /\ Worker' = Worker
        BY Zenon, <1>3, <1>w DEF FeedKey, Worker
    <2>2. nextKey \in PqKey /\ provideKeys' = Append(provideKeys, nextKey)
        BY Zenon, <1>0, <1>3 DEF FeedKey, PqTypeOK
    <2>3. Fed' = Collected
        <3>1. Worker \o Append(provideKeys, nextKey) = Worker \o provideKeys \o <<nextKey>>
            BY ZenonT(60), <1>s, <1>t, <2>2, SentLast
        <3> QED
            BY Zenon, <1>k, <2>1, <2>2, <3>1 DEF Fed, Collected
    <2>4. CASE toProvide = <<>>
        <3>1. toProvide' = <<>> /\ nextKey' = PqNoKey
            BY Zenon, <1>3, <2>4 DEF FeedKey
        <3> QED
            BY Zenon, <1>0, <1>s, <2>1, <2>3, <2>4, <3>1, NoKeyHeld DEF
                Listed, Collected
    <2>5. CASE toProvide # <<>>
        <3>1. toProvide' = Tail(toProvide) /\ nextKey' = Head(toProvide)
            BY Zenon, <1>3, <2>5 DEF FeedKey
        <3>2. Head(toProvide) \in PqKey /\ Collected \o <<Head(toProvide)>> \o Tail(toProvide) = Collected \o toProvide
            BY Zenon, <1>s, <1>t, <2>5, Received
        <3>3. Collected' = Collected \o <<Head(toProvide)>>
            BY Zenon, <1>k, <2>3, <3>1, <3>2 DEF Collected
        <3> QED
            BY Zenon, <2>1, <3>1, <3>2, <3>3 DEF Listed
    <2> QED
        BY Zenon, <2>4, <2>5
<1>4. ASSUME TakeKey
      PROVE  (accepted = Listed \o newBlocks)'
    <2>1. /\ accepted = Listed \o newBlocks /\ accepted' = accepted /\ started' = started
          /\ newBlocks' = newBlocks /\ nextKey' = nextKey /\ toProvide' = toProvide
          /\ provideKeys # <<>> /\ held = PqNoKey
          /\ held' = Head(provideKeys) /\ provideKeys' = Tail(provideKeys)
        BY Zenon, <1>4, <1>w DEF TakeKey
    <2>2. /\ Head(provideKeys) \in PqKey
          /\ started \o <<Head(provideKeys)>> \o Tail(provideKeys) = started \o provideKeys
        BY Zenon, <1>s, <1>t, <2>1, Received
    <2>3. Fed' = Fed
        BY Zenon, <1>0, <1>s, <1>k, <2>1, <2>2, NoKeyHeld DEF Fed, Worker
    <2> QED
        BY Zenon, <2>1, <2>3 DEF Listed, Collected
<1>5. ASSUME GoProvide
      PROVE  (accepted = Listed \o newBlocks)'
    <2>1. /\ accepted = Listed \o newBlocks /\ accepted' = accepted
          /\ newBlocks' = newBlocks /\ nextKey' = nextKey /\ toProvide' = toProvide
          /\ provideKeys' = provideKeys /\ held \in PqKey /\ held' = PqNoKey
          /\ started' = Append(started, held)
        BY Zenon, <1>0, <1>5, <1>w DEF GoProvide, PqTypeOK
    <2>2. Worker' = Worker
        <3>1. Opt(held) = <<held>> /\ Opt(held)' = <<>>
            BY Zenon, <1>0, <1>k, <2>1 DEF Opt
        <3>2. Append(started, held) = started \o <<held>> /\ Append(started, held) \in Seq(PqKey)
            BY Zenon, <1>s, <2>1, AppendOne, Closed
        <3>3. Append(started, held) \o <<>> = Append(started, held)
            BY Zenon, <3>2, NoKeyHeld
        <3> QED
            BY Zenon, <2>1, <3>1, <3>2, <3>3 DEF Worker
    <2> QED
        BY Zenon, <2>1, <2>2 DEF Listed, Collected, Fed
<1>6. ASSUME CollectorReturns \/ ProvideReturns \/ Closing \/ CtxDone \/ UNCHANGED pqVars
      PROVE  (accepted = Listed \o newBlocks)'
    BY Zenon, <1>6, <1>w
    DEF CollectorReturns, ProvideReturns, Closing, CtxDone, pqVars, Listed,
        Collected, Fed, Worker
<1>7. ASSUME WorkerReturns
      PROVE  FALSE
    BY Zenon, <1>7 DEF WorkerReturns
<1> QED
    BY Zenon, <1>1, <1>2, <1>3, <1>4, <1>5, <1>6, <1>7 DEF PqNext

\* No key that HasBlock handed over is lost, doubled or overtaken before
\* provideWorker provides it, whatever the capacities of the two channels and
\* however many keys come at once.
THEOREM NoKeyLost == PqSpec => []NothingLost
<1>1. PqInv /\ [PqNext]_pqVars => PqInv'
    <2> SUFFICES ASSUME PqInv, [PqNext]_pqVars
                 PROVE  PqInv'
        OBVIOUS
    <2>1. PqTypeOK' /\ NothingLost'
        BY Zenon, PqTypeStep, PqOrderStep
    <2>2. (nextKey = PqNoKey => toProvide = <<>>)'
        <3>1. CASE CollectKey
            <4>1. Head(newBlocks) \in PqKey
                BY Zenon, <3>1, Received, Closed DEF PqInv, PqTypeOK, CollectKey
            <4> QED
                BY Zenon, <3>1, <4>1, PqAssumption DEF PqInv, CollectKey
        <3>2. CASE FeedKey
            <4>1. toProvide # <<>> => Head(toProvide) \in PqKey
                BY Zenon, Received, Closed DEF PqInv, PqTypeOK
            <4> QED
                BY Zenon, <3>2, <4>1, PqAssumption DEF FeedKey
        <3>3. CASE UNCHANGED <<nextKey, toProvide>>
            BY Zenon, <3>3 DEF PqInv
        <3> QED
            BY Zenon, <3>1, <3>2, <3>3
            DEF PqNext, HasBlock, CollectorReturns, TakeKey, GoProvide,
                ProvideReturns, WorkerReturns, Closing, CtxDone, pqVars
    <2> QED
        BY Zenon, <2>1, <2>2 DEF PqInv
<1>2. PqInv => NothingLost
    BY Zenon DEF PqInv
<1> QED
    BY <1>1, <1>2, PqInitInv, PTL DEF PqSpec

(***************************************************************************)
(* The search for providers.                                               *)
(***************************************************************************)

\* The calls of GetBlocks: their goroutine runs only after they subscribed.
CallsOK ==
    /\ caller \in [Request -> {"new", "sending", "returned", "error"}]
    /\ remaining \in [Request -> SUBSET PrKey]
    /\ running \subseteq {r \in Request : caller[r] # "new"}

\* The requests that wait for providerQueryManager, and its searches.
SearchesOK ==
    /\ findKeys \in Seq([key : PrKey, by : Request \cup {Rebroadcast}])
    /\ queries \in [PrKey -> Nat]

PrInv == CallsOK /\ SearchesOK /\ WantsExact /\ OneQueryPerKey

\* Every step keeps the wantlist exact: GetBlocks adds the keys of a request
\* that has none there, and each way a request ends takes them off.
LEMMA WantsStep == PrInv /\ [PrNext]_prVars => CallsOK' /\ WantsExact'
<1> SUFFICES ASSUME PrInv, [PrNext]_prVars
             PROVE  CallsOK' /\ WantsExact'
    OBVIOUS
<1>0. CallsOK /\ WantsExact
    BY Zenon DEF PrInv
<1>1. ASSUME NEW r \in Request, GetBlocks(r)
      PROVE  CallsOK' /\ WantsExact'
    <2> DEFINE ks == {Keys[r][i] : i \in DOMAIN Keys[r]}
    <2>1. ks \subseteq PrKey
        BY PrAssumption
    <2>2. /\ caller[r] = "new" /\ running' = running \cup {r}
          /\ caller' = [caller EXCEPT ![r] = "sending"]
          /\ remaining' = [remaining EXCEPT ![r] = ks]
          /\ wl' = [k \in PrKey |-> IF k \in ks THEN wl[k] \cup {r} ELSE wl[k]]
        BY Zenon, <1>1 DEF GetBlocks
    <2> HIDE DEF ks
    <2>3. CallsOK'
        BY <1>0, <2>1, <2>2 DEF CallsOK
    <2>4. r \notin running /\ remaining'[r] = ks
        BY <1>0, <2>2 DEF CallsOK
    <2>5. \A q \in running : remaining'[q] = remaining[q]
        BY <1>0, <2>2, <2>4 DEF CallsOK
    <2>6. WantsExact'
        BY <1>0, <2>2, <2>4, <2>5 DEF WantsExact
    <2> QED
        BY Zenon, <2>3, <2>6
<1>2. ASSUME NEW r \in Request, NEW k \in PrKey, ReceiveBlock(r, k)
      PROVE  CallsOK' /\ WantsExact'
    <2>1. /\ r \in running /\ running' = running /\ caller' = caller
          /\ remaining' = [remaining EXCEPT ![r] = remaining[r] \ {k}]
          /\ wl' = Unwant(r, {k})
        BY Zenon, <1>2 DEF ReceiveBlock
    <2>2. CallsOK'
        BY <1>0, <2>1 DEF CallsOK
    <2>3. remaining'[r] = remaining[r] \ {k} /\ \A q \in running \ {r} : remaining'[q] = remaining[q]
        BY <1>0, <2>1 DEF CallsOK
    <2>4. WantsExact'
        BY <1>0, <2>1, <2>3 DEF WantsExact, Unwant
    <2> QED
        BY Zenon, <2>2, <2>4
<1>3. ASSUME NEW r \in Request, GetBlocksEnds(r)
      PROVE  CallsOK' /\ WantsExact'
    <2>1. /\ running' = running \ {r} /\ caller' = caller /\ remaining' = remaining
          /\ wl' = Unwant(r, remaining[r])
        BY Zenon, <1>3 DEF GetBlocksEnds
    <2> QED
        BY <1>0, <2>1 DEF WantsExact, Unwant, CallsOK
<1>4. ASSUME NEW r \in Request, SendFindKey(r) \/ GetBlocksCancelled(r)
      PROVE  CallsOK' /\ WantsExact'
    <2>1. /\ running' = running /\ remaining' = remaining /\ wl' = wl
          /\ caller[r] = "sending"
          /\ \/ caller' = [caller EXCEPT ![r] = "returned"]
             \/ caller' = [caller EXCEPT ![r] = "error"]
        BY Zenon, <1>4 DEF SendFindKey, GetBlocksCancelled
    <2>2. CallsOK'
        BY <1>0, <2>1 DEF CallsOK
    <2>3. WantsExact'
        BY Zenon, <1>0, <2>1 DEF WantsExact
    <2> QED
        BY Zenon, <2>2, <2>3
<1>5. ASSUME UNCHANGED <<wl, caller, remaining, running>>
      PROVE  CallsOK' /\ WantsExact'
    BY Zenon, <1>0, <1>5 DEF CallsOK, WantsExact
<1> QED
    BY Zenon, <1>1, <1>2, <1>3, <1>4, <1>5
    DEF PrNext, RequestStep, CancelCtx, Publish, Rebroadcasting, QueryEnds,
        ReceiveFindKey, ManagerReturns, RebroadcastSend, RebroadcastReturns,
        Close, prVars, reqVars

\* Every step keeps the active set exact: a search starts only for a key that
\* is not in it, and takes its key out when it is over.
LEMMA QueriesStep == PrInv /\ [PrNext]_prVars => SearchesOK' /\ OneQueryPerKey'
<1> SUFFICES ASSUME PrInv, [PrNext]_prVars
             PROVE  SearchesOK' /\ OneQueryPerKey'
    OBVIOUS
<1> DEFINE Find == [key : PrKey, by : Request \cup {Rebroadcast}]
<1>0. findKeys \in Seq(Find) /\ queries \in [PrKey -> Nat] /\ OneQueryPerKey
    BY Zenon DEF PrInv, SearchesOK
<1>1. ASSUME NEW r \in Request, SendFindKey(r)
      PROVE  SearchesOK' /\ OneQueryPerKey'
    <2> DEFINE e == [key |-> Keys[r][1], by |-> r]
    <2>1. Keys[r][1] \in PrKey
        BY PrAssumption
    <2>2. e \in Find
        BY Zenon, <2>1
    <2>3. findKeys' = Append(findKeys, e) /\ queries' = queries /\ kset' = kset
        BY Zenon, <1>1 DEF SendFindKey, mgrVars
    <2> HIDE DEF e, Find
    <2>4. findKeys' \in Seq(Find)
        BY <1>0, <2>2, <2>3
    <2> QED
        BY Zenon, <1>0, <2>3, <2>4 DEF SearchesOK, OneQueryPerKey, Find
<1>2. ASSUME RebroadcastSend
      PROVE  SearchesOK' /\ OneQueryPerKey'
    <2> DEFINE e == [key |-> rb, by |-> Rebroadcast]
    <2>1. e \in Find
        BY Zenon, <1>2 DEF RebroadcastSend
    <2>2. findKeys' = Append(findKeys, e) /\ queries' = queries /\ kset' = kset
        BY Zenon, <1>2 DEF RebroadcastSend, mgrVars
    <2> HIDE DEF e, Find
    <2>3. findKeys' \in Seq(Find)
        BY <1>0, <2>1, <2>2
    <2> QED
        BY Zenon, <1>0, <2>2, <2>3 DEF SearchesOK, OneQueryPerKey, Find
<1>3. ASSUME ReceiveFindKey
      PROVE  SearchesOK' /\ OneQueryPerKey'
    <2> DEFINE k == Head(findKeys).key
    <2>1. findKeys # <<>> /\ findKeys' = Tail(findKeys)
        BY Zenon, <1>3 DEF ReceiveFindKey
    <2>2. findKeys' \in Seq(Find) /\ Head(findKeys) \in Find
        <3> HIDE DEF Find
        <3> QED
            BY <1>0, <2>1
    <2>3. k \in PrKey
        BY Zenon, <2>2
    <2>4. \/ kset' = kset /\ queries' = queries
          \/ /\ k \notin kset /\ kset' = kset \cup {k}
             /\ queries' = [queries EXCEPT ![k] = queries[k] + 1]
        BY Zenon, <1>3 DEF ReceiveFindKey
    <2> HIDE DEF k
    <2>5. queries' \in [PrKey -> Nat] /\ OneQueryPerKey'
        BY <1>0, <2>3, <2>4 DEF OneQueryPerKey
    <2> QED
        BY Zenon, <2>2, <2>5 DEF SearchesOK
<1>4. ASSUME NEW k \in PrKey, QueryEnds(k)
      PROVE  SearchesOK' /\ OneQueryPerKey'
    <2>1. /\ queries[k] > 0 /\ queries' = [queries EXCEPT ![k] = queries[k] - 1]
          /\ kset' = kset \ {k} /\ findKeys' = findKeys
        BY Zenon, <1>4 DEF QueryEnds
    <2> HIDE DEF Find
    <2>2. queries' \in [PrKey -> Nat] /\ OneQueryPerKey'
        BY <1>0, <2>1 DEF OneQueryPerKey
    <2> QED
        BY Zenon, <1>0, <2>1, <2>2 DEF SearchesOK, Find
<1>5. ASSUME UNCHANGED <<findKeys, queries, kset>>
      PROVE  SearchesOK' /\ OneQueryPerKey'
    BY Zenon, <1>0, <1>5 DEF SearchesOK, OneQueryPerKey
<1> QED
    BY Zenon, <1>1, <1>2, <1>3, <1>4, <1>5
    DEF PrNext, RequestStep, GetBlocks, ReceiveBlock, GetBlocksEnds,
        GetBlocksCancelled, CancelCtx, Publish, Rebroadcasting,
        ManagerReturns, RebroadcastReturns, Close, prVars, mgrVars

\* The wantlist holds a key for a call of GetBlocks exactly while the call
\* waits for it, and a key is in the active set of providerQueryManager
\* exactly while its one search runs: for any calls, keys and capacity.
THEOREM BooksAreExact == PrSpec => []SearchExact
<1>1. PrInit => PrInv
    <2> SUFFICES ASSUME PrInit
                 PROVE  PrInv
        OBVIOUS
    <2>1. CallsOK /\ WantsExact
        BY Zenon DEF PrInit, CallsOK, WantsExact
    <2>2. SearchesOK
        BY DEF PrInit, SearchesOK
    <2>3. OneQueryPerKey
        BY Zenon DEF PrInit, OneQueryPerKey
    <2> QED
        BY Zenon, <2>1, <2>2, <2>3 DEF PrInv
<1>2. PrInv /\ [PrNext]_prVars => PrInv'
    BY Zenon, WantsStep, QueriesStep DEF PrInv
<1>3. PrInv => SearchExact
    BY Zenon DEF PrInv, SearchExact
<1> QED
    BY <1>1, <1>2, <1>3, PTL DEF PrSpec

(***************************************************************************)
(* The reprovider.                                                         *)
(***************************************************************************)

\* The key that the goroutine of NewPinnedProvider holds.
InHand == IF hand = <<>> THEN {} ELSE {hand[1]}

\* The keys that this round has provided or still gets to.
Reached == provided \cup key \cup InHand

\* Between two rounds there is nothing left of the last one.
Cleared ==
    /\ src = "closed" /\ pending = {} /\ seen = {} /\ hand = <<>>
    /\ provided = {} /\ ~roundErr /\ through = {} /\ ~partial

\* What a round that has not failed owes, by how far pinSet has got: before
\* the direct pins are read every key is found there or below a recursive
\* pin; then those that are not reached are below a recursive pin; then all
\* are reached or about to be.  set.add passes over what is in the set, which
\* has been reached.
RoundOwes ==
    /\ seen \ Insecure \subseteq Reached
    /\ src = "start" => through \subseteq Wanted(direct, recursive)
    /\ src = "direct" => through \ Insecure \subseteq
                             Reached \cup pending \cup Wanted({}, recursive)
    /\ src \in {"recursive", "closed"} /\ ~partial =>
           through \ Insecure \subseteq Reached \cup pending
    /\ src = "closed" => pending = {}

RpInv ==
    /\ run \in {"select", "range", "provide", "finish", "ended"}
    /\ src \in {"start", "direct", "recursive", "closed"}
    /\ run # "provide" => key = {}
    /\ run \in {"select", "ended"} => Cleared
    /\ run = "finish" /\ ~rpdone /\ ~roundErr => src = "closed" /\ hand = <<>>
    /\ run \in {"range", "provide", "finish"} /\ ~rpdone /\ ~roundErr => RoundOwes
    /\ honest

\* What a step of the others leaves alone.
LEMMA RpOthers ==
    ASSUME RpInv, UNCHANGED <<pinv, rpdone, run, feed, round, hist>>
    PROVE  RpInv'
BY Zenon
DEF RpInv, pinv, feed, round, hist, Cleared, RoundOwes, Reached, InHand, Wanted,
    Below

\* A round starts with nothing reached, and owes all that is to be provided.
LEMMA RpStart == ASSUME RpInv, StartRound PROVE RpInv'
<1>1. /\ run' = "range" /\ src' = "start" /\ through' = Wanted(direct, recursive)
      /\ UNCHANGED <<direct, recursive, strat, rpdone, pending, seen, hand, key,
                     provided, roundErr, partial, honest>>
    BY Zenon DEF StartRound, pinv, round
<1>2. Cleared /\ key = {} /\ honest
    BY Zenon DEF StartRound, RpInv
<1>3. RoundOwes'
    BY Zenon, <1>1, <1>2 DEF Cleared, RoundOwes, Wanted, Below
<1> QED
    BY Zenon, <1>1, <1>2, <1>3 DEF RpInv

\* A key that is taken from the channel is at hand, or its hash is insecure.
LEMMA RpTake == ASSUME RpInv, RpTakeKey PROVE RpInv'
<1>1. /\ run = "range" /\ hand # <<>> /\ hand' = <<>> /\ key = {}
      /\ UNCHANGED <<direct, recursive, strat, rpdone, src, pending, seen, provided,
                     roundErr, through, partial, honest>>
      /\ \/ hand[1] \in Insecure /\ run' = "range" /\ key' = {}
         \/ run' = "provide" /\ key' = {hand[1]}
    BY Zenon DEF RpTakeKey, pinv, hist, RpInv
<1>2. Reached \subseteq Reached' \cup Insecure
    BY Zenon, <1>1 DEF Reached, InHand
<1>3. RoundOwes => RoundOwes'
    BY Zenon, <1>1, <1>2 DEF RoundOwes, Wanted, Below
<1> QED
    BY Zenon, <1>1, <1>3 DEF RpInv

\* The channel is closed when all was sent, unless the node is closing.
LEMMA RpRange == ASSUME RpInv, RangeEnds PROVE RpInv'
<1>1. /\ run = "range" /\ run' = "finish" /\ hand' = <<>> /\ ChannelClosed
      /\ UNCHANGED <<direct, recursive, strat, rpdone, src, pending, seen, key, provided,
                     roundErr, through, partial, honest>>
    BY Zenon DEF RangeEnds, pinv, hist, round
<1>2. ~rpdone => src = "closed" /\ hand = <<>>
    BY Zenon, <1>1 DEF ChannelClosed
<1>3. ~rpdone /\ RoundOwes => RoundOwes'
    BY Zenon, <1>1, <1>2 DEF RoundOwes, Reached, InHand, Wanted, Below
<1> QED
    BY Zenon, <1>1, <1>2, <1>3 DEF RpInv

\* Provide succeeded for the key, or the round failed.
LEMMA RpProvide == ASSUME RpInv, Provided \/ ProvideFails PROVE RpInv'
<1>1. CASE Provided
    <2>1. /\ run = "provide" /\ run' = "range" /\ provided' = provided \cup key /\ key' = {}
          /\ UNCHANGED <<direct, recursive, strat, rpdone, src, pending, seen, hand,
                         roundErr, through, partial, honest>>
        BY Zenon, <1>1 DEF Provided, pinv, hist, feed
    <2>2. Reached' = Reached
        BY Zenon, <2>1 DEF Reached, InHand
    <2>3. RoundOwes => RoundOwes'
        BY Zenon, <2>1, <2>2 DEF RoundOwes, Wanted, Below
    <2> QED
        BY Zenon, <2>1, <2>3 DEF RpInv
<1>2. CASE ProvideFails
    BY Zenon, <1>2 DEF ProvideFails, RpInv, pinv, hist, feed
<1> QED
    BY Zenon, <1>1, <1>2

\* A round that ends without an error has reached all it owed, so that done
\* tells the truth.
LEMMA RpEnd == ASSUME RpInv, RoundEnds PROVE RpInv'
<1>1. RoundProvides
    BY Zenon DEF RpInv, RoundProvides, RoundOwes, Reached, InHand, Whole
<1>2. \A c \in Caller : trig[c] # trig'[c] /\ trig'[c] = "ok" => ~roundErr
    BY DEF RoundEnds, Done
<1>3. honest'
    BY Zenon, <1>1, <1>2 DEF RoundEnds, RpInv, RoundProvides
<1>4. Cleared' /\ run' = "select" /\ key' = {}
    BY Zenon DEF RoundEnds, Forget, Cleared, RpInv
<1> QED
    BY Zenon, <1>3, <1>4 DEF RpInv, Cleared

\* What is to be provided is a direct pin, or what the recursive pins hold.
LEMMA WantedParts == \A d, r : Wanted(d, r) = d \cup Wanted({}, r)
BY Zenon DEF Wanted

\* pinSet reads the direct pins, or AllKeysChan lists all there is.
LEMMA RpDirect == ASSUME RpInv, ReadDirect PROVE RpInv'
<1>1. /\ src = "start"
      /\ UNCHANGED <<direct, recursive, strat, rpdone, run, seen, hand, key, provided,
                     roundErr, through, partial, honest>>
      /\ \/ src' = "recursive" /\ pending' = Wanted(direct, recursive)
         \/ src' = "direct" /\ pending' = direct
    BY Zenon DEF ReadDirect, pinv, hist, round
<1>2. Reached' = Reached /\ Wanted({}, recursive)' = Wanted({}, recursive)
    BY Zenon, <1>1 DEF Reached, InHand, Wanted, Below
<1>w. Wanted(direct, recursive) = direct \cup Wanted({}, recursive)
    BY Zenon, WantedParts
<1>3. ASSUME RoundOwes
      PROVE  RoundOwes'
    <2>1. through \subseteq direct \cup Wanted({}, recursive) /\ seen \ Insecure \subseteq Reached
        BY Zenon, <1>1, <1>3, <1>w DEF RoundOwes
    <2>2. CASE src' = "recursive" /\ pending' = Wanted(direct, recursive)
        BY Zenon, <1>1, <1>2, <1>w, <2>1, <2>2 DEF RoundOwes
    <2>3. CASE src' = "direct" /\ pending' = direct
        BY Zenon, <1>1, <1>2, <2>1, <2>3 DEF RoundOwes
    <2> QED
        BY Zenon, <1>1, <2>2, <2>3
<1> QED
    BY Zenon, <1>1, <1>3 DEF RpInv, Cleared

\* Then the recursive ones; what set.add passes over has been reached.
LEMMA RpRecursive == ASSUME RpInv, ReadRecursive PROVE RpInv'
<1>1. /\ src = "direct" /\ pending = {} /\ src' = "recursive"
      /\ pending' = Wanted({}, recursive) \ seen
      /\ UNCHANGED <<direct, recursive, strat, rpdone, run, seen, hand, key, provided,
                     roundErr, through, partial, honest>>
    BY Zenon DEF ReadRecursive, pinv, hist, round
<1>2. Reached' = Reached
    BY Zenon, <1>1 DEF Reached, InHand
<1>3. RoundOwes => RoundOwes'
    BY Zenon, <1>1, <1>2 DEF RoundOwes
<1> QED
    BY Zenon, <1>1, <1>3 DEF RpInv, Cleared

\* A key goes from pinSet to the goroutine of NewPinnedProvider.
LEMMA RpAdd == ASSUME RpInv, NEW k, AddKey(k) PROVE RpInv'
<1>1. /\ k \in pending /\ hand = <<>> /\ run \in {"range", "provide"}
      /\ pending' = pending \ {k} /\ seen' = seen \cup {k} /\ hand' = <<k>>
      /\ UNCHANGED <<direct, recursive, strat, rpdone, run, src, key, provided,
                     roundErr, through, partial, honest>>
    BY Zenon DEF AddKey, pinv, hist, round
<1>2. InHand = {} /\ InHand' = {k}
    BY <1>1 DEF InHand
<1>3. /\ Reached' = Reached \cup {k} /\ Wanted({}, recursive)' = Wanted({}, recursive)
      /\ Wanted(direct, recursive)' = Wanted(direct, recursive)
    BY Zenon, <1>1, <1>2 DEF Reached, Wanted, Below
<1>4. RoundOwes => RoundOwes'
    BY Zenon, <1>1, <1>3 DEF RoundOwes
<1> QED
    BY Zenon, <1>1, <1>4 DEF RpInv

\* The set is closed, with everything in it or after an enumeration failed.
LEMMA RpSource == ASSUME RpInv, SourceEnds \/ EnumerateFails PROVE RpInv'
<1>1. /\ src = "recursive" /\ src' = "closed" /\ pending' = {}
      /\ UNCHANGED <<direct, recursive, strat, rpdone, run, seen, hand, key, provided,
                     roundErr, through, honest>>
      /\ (pending = {} /\ partial' = partial) \/ partial'
    BY Zenon DEF SourceEnds, EnumerateFails, pinv, hist, round
<1>2. Reached' = Reached
    BY Zenon, <1>1 DEF Reached, InHand
<1>3. RoundOwes => RoundOwes'
    BY Zenon, <1>1, <1>2 DEF RoundOwes
<1> QED
    BY Zenon, <1>1, <1>3 DEF RpInv, Cleared

\* The pins change: what the round owes is still where it is looked for.
LEMMA RpPins == ASSUME RpInv, NEW d, NEW r, PinsChange(d, r) PROVE RpInv'
<1>1. /\ direct' = d /\ recursive' = r /\ through' = Still(d, r)
      /\ UNCHANGED <<strat, rpdone, run, src, pending, seen, hand, key, provided,
                     roundErr, partial, honest>>
    BY Zenon DEF PinsChange, feed, round
<1>2. /\ Reached' = Reached /\ Wanted(direct, recursive)' = Wanted(d, r)
      /\ Wanted({}, recursive)' = Wanted({}, r)
    BY Zenon, <1>1 DEF Reached, InHand, Wanted, Below
<1>3. /\ through' \subseteq through \cap Wanted(d, r)
      /\ \A k \in through' : k \in Wanted({}, recursive) => k \in Wanted({}, r)
    BY Zenon, <1>1 DEF Still
<1>4. RoundOwes => RoundOwes'
    BY Zenon, <1>1, <1>2, <1>3 DEF RoundOwes
<1>5. Cleared => Cleared'
    BY Zenon, <1>1, <1>3 DEF Cleared
<1> QED
    BY Zenon, <1>1, <1>4, <1>5 DEF RpInv

\* A round of the reprovider that ends without an error has provided every
\* key that was to be provided all through it, and Trigger reports success for
\* no other round: for any pins, graphs, callers and changes of the pins.
THEOREM ReproviderIsHonest == RpSpec => []ReprovideHonest
<1>1. RpInit => RpInv
    BY Zenon DEF RpInit, RpInv, Cleared
<1>2. RpInv /\ [RpNext]_rpvars => RpInv'
    <2> SUFFICES ASSUME RpInv, [RpNext]_rpvars
                 PROVE  RpInv'
        OBVIOUS
    <2>1. CASE RunSteps \/ Provided \/ ProvideFails
        BY Zenon, <2>1, RpTake, RpRange, RpEnd, RpProvide DEF RunSteps
    <2>2. CASE Feeding \/ EnumerateFails
        BY Zenon, <2>2, RpDirect, RpRecursive, RpAdd, RpSource DEF Feeding
    <2>3. CASE SelectAfter \/ \E c \in Caller : SelectTrigger(c)
        BY Zenon, <2>3, RpStart DEF SelectAfter, SelectTrigger
    <2>4. CASE SelectDone \/ Shutdown
        <3>1. CASE SelectDone
            BY Zenon, <3>1 DEF SelectDone, RpInv, Cleared, feed, round, hist
        <3>2. CASE Shutdown
            BY Zenon, <3>2 DEF Shutdown, RpInv, Cleared, feed, round, hist
        <3> QED
            BY Zenon, <2>4, <3>1, <3>2
    <2>5. CASE \/ MuteEnds \/ UNCHANGED rpvars
               \/ \E c \in Caller : Muted(c) \/ Call(c) \/ CallCancelled(c)
        BY Zenon, <2>5, RpOthers DEF MuteEnds, Muted, Call, CallCancelled, rpvars
    <2>6. CASE \E k \in RKey : PinRecursive(k) \/ PinDirect(k) \/ Unpin(k)
        BY Zenon, <2>6, RpPins DEF PinRecursive, PinDirect, Unpin
    <2> QED
        BY Zenon, <2>1, <2>2, <2>3, <2>4, <2>5, <2>6 DEF RpNext, TriggerTaken
<1>3. RpInv => ReprovideHonest
    BY Zenon
    DEF RpInv, ReprovideHonest, RoundProvides, TriggerHonest, RoundOwes, Reached,
        InHand, Whole
<1> QED
    BY <1>1, <1>2, <1>3, PTL DEF RpSpec
=============================================================================
