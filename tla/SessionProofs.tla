--------------------------- MODULE SessionProofs ---------------------------
(***************************************************************************)
(* Proofs about Session, for any keys, callers, receivers and requests,    *)
(* any limit on the live wants and any size of the interest cache.         *)
(***************************************************************************)
EXTENDS Session, TLAPS

\* What the proofs need to know of the types of the variables.
Shape ==
    /\ ses \in {"open", "closing", "removed"}
    /\ pc \in [Caller -> CallStep]
    /\ keys \in [Caller -> Seq(Key)]
    /\ sub \in [Caller -> SUBSET Key]
    /\ promise \in [Caller -> SUBSET Key]
    /\ remaining \in [Caller -> SUBSET Key]
    /\ recv \in [Receiver -> [step : Step, key : Key \cup {None}]]

\* The elements of a list are found at its positions.
LEMMA Elements ==
    ASSUME NEW s \in Seq(Key)
    PROVE  ToSet(s) = {s[i] : i \in 1..Len(s)}
<1>1. DOMAIN s = 1..Len(s)
    OBVIOUS
<1> QED
    BY <1>1, Zenon DEF ToSet

\* Cutting a list in two loses none of its elements: a request is either
\* asked for or queued.
LEMMA CutSequence ==
    ASSUME NEW s \in Seq(Key), NEW n \in 0..Len(s)
    PROVE  ToSet(s) \subseteq ToSet(SubSeq(s, 1, n)) \cup ToSet(SubSeq(s, n + 1, Len(s)))
<1> DEFINE front == SubSeq(s, 1, n)
           back == SubSeq(s, n + 1, Len(s))
<1>1. front \in Seq(Key) /\ back \in Seq(Key)
    OBVIOUS
<1>2. ASSUME NEW i \in 1..Len(s)
      PROVE  s[i] \in ToSet(front) \cup ToSet(back)
    <2>1. CASE i <= n
        <3>1. i \in 1..Len(front) /\ front[i] = s[i]
            BY <2>1
        <3> HIDE DEF front
        <3> QED
            BY Zenon, <1>1, <3>1, Elements
    <2>2. CASE i > n
        <3>1. i - n \in 1..Len(back) /\ back[i - n] = s[i]
            BY <2>2
        <3> HIDE DEF back
        <3> QED
            BY ZenonT(30), <1>1, <3>1, Elements
    <2> QED
        BY <2>1, <2>2
<1>3. ToSet(s) = {s[i] : i \in 1..Len(s)}
    BY Zenon, Elements
<1> QED
    BY Zenon, <1>2, <1>3

\* The elements of a request are keys.
LEMMA ElementsAreKeys ==
    ASSUME NEW s \in Seq(Key)
    PROVE  ToSet(s) \subseteq Key
BY Elements

\* The session starts in shape.
LEMMA ShapeInit == Init => Shape
<1> SUFFICES ASSUME Init
             PROVE  Shape
    OBVIOUS
<1> QED
    BY DEF Init, Shape, CallStep, Step

\* Every step of a caller, a receiver or the loop keeps the shape.
LEMMA ShapeStep == Shape /\ [Next]_vars => Shape'
<1> SUFFICES ASSUME Shape, [Next]_vars
             PROVE  Shape'
    OBVIOUS
<1> USE DEF Shape, CallStep, Step
<1>1. ASSUME NEW c \in Caller, NEW ks \in Requests, Miss(c, ks)
      PROVE  Shape'
    BY Zenon, <1>1, SessionAssumption, ElementsAreKeys DEF Miss, loopVars, callVars
<1>2. ASSUME NEW c \in Caller, Subscribe(c)
      PROVE  Shape'
    <2>1. ToSet(keys[c]) \subseteq Key
        BY Zenon, ElementsAreKeys
    <2>2. sub' \in [Caller -> SUBSET Key]
        BY ZenonT(30), <1>2, <2>1 DEF Subscribe
    <2>3. pc' \in [Caller -> CallStep]
        BY Zenon, <1>2 DEF Subscribe
    <2> QED
        BY Zenon, <1>2, <2>2, <2>3 DEF Subscribe
<1>3. ASSUME NEW c \in Caller, NewReqs(c)
      PROVE  Shape'
    BY Zenon, <1>3 DEF NewReqs, loopVars, callVars
<1>4. ASSUME NEW c \in Caller, FetchSkipped(c)
      PROVE  Shape'
    BY Zenon, <1>4 DEF FetchSkipped, loopVars, callVars
<1>5. ASSUME NEW c \in Caller, NEW k \in Key, Take(c, k)
      PROVE  Shape'
    BY Zenon, <1>5 DEF Take, loopVars, callVars
<1>6. ASSUME NEW c \in Caller, Finish(c)
      PROVE  Shape'
    BY Zenon, <1>6 DEF Finish, loopVars, callVars
<1>7. ASSUME NEW c \in Caller, CancelContext(c)
      PROVE  Shape'
    BY Zenon, <1>7 DEF CancelContext, loopVars, callVars
<1>8. ASSUME NEW c \in Caller, CancelKeys(c)
      PROVE  Shape'
    BY Zenon, <1>8 DEF CancelKeys, loopVars, callVars
<1>9. ASSUME NEW r \in Receiver, NEW k \in Key, Arrive(r, k)
      PROVE  Shape'
    BY Zenon, <1>9 DEF Arrive, loopVars, callVars
<1>10. ASSUME NEW r \in Receiver, SessionsForBlock(r)
       PROVE  Shape'
    <2>1. recv[r].key \in Key \cup {None}
        OBVIOUS
    <2>2. recv' \in [Receiver -> [step : Step, key : Key \cup {None}]]
        <3>1. PICK v \in [step : Step, key : Key \cup {None}] :
                recv' = [recv EXCEPT ![r] = v]
            BY Zenon, <1>10, <2>1 DEF SessionsForBlock
        <3> QED
            BY Zenon, <3>1
    <2> QED
        BY Zenon, <1>10, <2>2 DEF SessionsForBlock, callVars
<1>11. ASSUME NEW r \in Receiver, Offer(r)
       PROVE  Shape'
    <2>1. recv' \in [Receiver -> [step : Step, key : Key \cup {None}]]
        BY Zenon, <1>11 DEF Offer
    <2>2. sub' \in [Caller -> SUBSET Key] /\ promise' \in [Caller -> SUBSET Key]
        <3>1. CASE Publish(recv[r].key)
            BY Zenon, <3>1 DEF Publish
        <3>2. CASE UNCHANGED <<sub, promise>>
            BY Zenon, <3>2
        <3> QED
            BY ZenonT(30), <1>11, <3>1, <3>2 DEF Offer, receiveBlock
    <2> QED
        BY Zenon, <1>11, <2>1, <2>2 DEF Offer
<1>12. ASSUME NEW r \in Receiver, CancelWants(r)
       PROVE  Shape'
    BY Zenon, <1>12 DEF CancelWants, loopVars, callVars
<1>13. ASSUME Tick
       PROVE  Shape'
    BY Zenon, <1>13 DEF Tick, loopVars, callVars
<1>14. ASSUME CloseContext
       PROVE  Shape'
    BY Zenon, <1>14 DEF CloseContext, loopVars, callVars
<1>15. ASSUME removeSession
       PROVE  Shape'
    BY Zenon, <1>15 DEF removeSession, loopVars, callVars
<1>16. CASE UNCHANGED vars
    BY Zenon, <1>16 DEF vars, loopVars, callVars
<1> QED
    BY ZenonT(30), <1>1, <1>2, <1>3, <1>4, <1>5, <1>6, <1>7, <1>8, <1>9,
        <1>10, <1>11, <1>12, <1>13, <1>14, <1>15, <1>16 DEF Next, CallNext,
        RecvNext

(***************************************************************************)
(* The wantlist.  Every want of the session is put on the wantlist by the  *)
(* loop, which counts it live; a key stops being live in the step that     *)
(* leaves its receiver with a CancelWants to do.                           *)
(***************************************************************************)

\* Every step keeps the wantlist covered by the live wants and the receivers
\* that are about to cancel.
LEMMA CoveredStep == Shape /\ WantedCovered /\ [Next]_vars => WantedCovered'
<1> SUFFICES ASSUME Shape, WantedCovered, [Next]_vars
             PROVE  WantedCovered'
    OBVIOUS
<1>a. ASSUME recv' = recv
      PROVE  Cancelling' = Cancelling
    BY Zenon, <1>a DEF Cancelling
<1> USE DEF WantedCovered
<1>1. ASSUME NEW c \in Caller, NEW ks \in Requests, Miss(c, ks)
      PROVE  WantedCovered'
    BY ZenonT(30), <1>1, <1>a DEF Miss, loopVars, callVars
<1>2. ASSUME NEW c \in Caller, Subscribe(c)
      PROVE  WantedCovered'
    BY Zenon, <1>2, <1>a DEF Subscribe, loopVars, callVars
<1>3. ASSUME NEW c \in Caller, NewReqs(c)
      PROVE  WantedCovered'
    BY Zenon, <1>3, <1>a DEF NewReqs, wantBlocks, WantBlocks
<1>4. ASSUME NEW c \in Caller, FetchSkipped(c)
      PROVE  WantedCovered'
    BY Zenon, <1>4, <1>a DEF FetchSkipped, loopVars, callVars
<1>5. ASSUME NEW c \in Caller, NEW k \in Key, Take(c, k)
      PROVE  WantedCovered'
    BY Zenon, <1>5, <1>a DEF Take, loopVars, callVars
<1>6. ASSUME NEW c \in Caller, Finish(c)
      PROVE  WantedCovered'
    BY Zenon, <1>6, <1>a DEF Finish, loopVars, callVars
<1>7. ASSUME NEW c \in Caller, CancelContext(c)
      PROVE  WantedCovered'
    BY Zenon, <1>7, <1>a DEF CancelContext, loopVars, callVars
<1>8. ASSUME NEW c \in Caller, CancelKeys(c)
      PROVE  WantedCovered'
    BY Zenon, <1>8, <1>a DEF CancelKeys, loopVars, callVars
<1>9. ASSUME NEW r \in Receiver, NEW k \in Key, Arrive(r, k)
      PROVE  WantedCovered'
    <2>1. Cancelling \subseteq Cancelling'
        BY Zenon, <1>9 DEF Arrive, Cancelling, Shape
    <2> QED
        BY ZenonT(30), <1>9, <2>1 DEF Arrive, loopVars
<1>10. ASSUME NEW r \in Receiver, SessionsForBlock(r)
       PROVE  WantedCovered'
    <2>1. Cancelling \subseteq Cancelling'
        BY Zenon, <1>10 DEF SessionsForBlock, Cancelling, Shape
    <2> QED
        BY ZenonT(30), <1>10, <2>1 DEF SessionsForBlock, loopVars
<1>11. ASSUME NEW r \in Receiver, Offer(r)
       PROVE  WantedCovered'
    <2>1. Cancelling \subseteq Cancelling' /\ recv[r].key \in Cancelling'
        BY Zenon, <1>11 DEF Offer, Cancelling, Shape
    <2>2. CASE receiveBlock(recv[r].key)
        BY ZenonT(30), <1>11, <2>1, <2>2 DEF Offer, receiveBlock, WantBlocks
    <2>3. CASE UNCHANGED <<live, wanted>>
        BY ZenonT(30), <1>11, <2>1, <2>3 DEF Offer
    <2> QED
        BY ZenonT(30), <1>11, <2>2, <2>3 DEF Offer
<1>12. ASSUME NEW r \in Receiver, CancelWants(r)
       PROVE  WantedCovered'
    <2>1. Cancelling \subseteq Cancelling' \cup {recv[r].key}
        BY Zenon, <1>12 DEF CancelWants, Cancelling, Shape
    <2> QED
        BY Zenon, <1>12, <2>1 DEF CancelWants, loopVars
<1>13. ASSUME Tick
       PROVE  WantedCovered'
    BY ZenonT(30), <1>13, <1>a DEF Tick, WantBlocks, loopVars
<1>14. ASSUME CloseContext
       PROVE  WantedCovered'
    BY ZenonT(30), <1>14, <1>a DEF CloseContext, loopVars, callVars
<1>15. ASSUME removeSession
       PROVE  WantedCovered'
    BY ZenonT(30), <1>15, <1>a DEF removeSession, loopVars, callVars
<1>16. CASE UNCHANGED vars
    BY Zenon, <1>16 DEF vars, loopVars, callVars, Cancelling
<1> QED
    BY ZenonT(30), <1>1, <1>2, <1>3, <1>4, <1>5, <1>6, <1>7, <1>8, <1>9,
        <1>10, <1>11, <1>12, <1>13, <1>14, <1>15, <1>16 DEF Next, CallNext,
        RecvNext

\* The wantlist of the node holds a key for a session only while the session
\* counts it live or its CancelWants is on the way: a removed session leaves
\* nothing behind, whatever arrives or is cancelled while it goes.
THEOREM WantsAreCovered == Spec => []WantedCovered
<1>1. Init => Shape /\ WantedCovered
    BY Zenon, ShapeInit DEF Init, WantedCovered
<1>2. Shape /\ WantedCovered /\ [Next]_vars => (Shape /\ WantedCovered)'
    BY Zenon, ShapeStep, CoveredStep
<1> QED
    BY <1>1, <1>2, PTL DEF Spec

(***************************************************************************)
(* What callers wait for.  A call that has subscribed and not yet handed   *)
(* its keys to the loop waits for nothing but these keys.                  *)
(***************************************************************************)
Asked ==
    \A c \in Caller : pc[c] = "fetch" => sub[c] \subseteq ToSet(keys[c])

\* No step subscribes a call to a key it does not ask for.
LEMMA AskedStep ==
    ASSUME Shape, Asked, [Next]_vars
    PROVE  Asked'
<1> USE DEF Shape, Asked
<1>1. ASSUME NEW c \in Caller, NEW ks \in Requests, Miss(c, ks)
      PROVE  Asked'
    BY Zenon, <1>1 DEF Miss, loopVars, callVars
<1>2. ASSUME NEW c \in Caller, Subscribe(c)
      PROVE  Asked'
    BY Zenon, <1>2 DEF Subscribe
<1>3. ASSUME NEW c \in Caller, NewReqs(c)
      PROVE  Asked'
    BY Zenon, <1>3 DEF NewReqs, loopVars, callVars
<1>4. ASSUME NEW c \in Caller, FetchSkipped(c)
      PROVE  Asked'
    BY Zenon, <1>4 DEF FetchSkipped, loopVars, callVars
<1>5. ASSUME NEW c \in Caller, NEW k \in Key, Take(c, k)
      PROVE  Asked'
    BY Zenon, <1>5 DEF Take, loopVars, callVars
<1>6. ASSUME NEW c \in Caller, Finish(c)
      PROVE  Asked'
    BY Zenon, <1>6 DEF Finish, loopVars, callVars
<1>7. ASSUME NEW c \in Caller, CancelContext(c)
      PROVE  Asked'
    BY Zenon, <1>7 DEF CancelContext
<1>8. ASSUME NEW c \in Caller, CancelKeys(c)
      PROVE  Asked'
    BY Zenon, <1>8 DEF CancelKeys, loopVars, callVars
<1>9. ASSUME NEW r \in Receiver, NEW k \in Key, Arrive(r, k)
      PROVE  Asked'
    BY Zenon, <1>9 DEF Arrive, loopVars, callVars
<1>10. ASSUME NEW r \in Receiver, SessionsForBlock(r)
       PROVE  Asked'
    BY Zenon, <1>10 DEF SessionsForBlock, loopVars, callVars
<1>11. ASSUME NEW r \in Receiver, Offer(r)
       PROVE  Asked'
    <2>1. CASE Publish(recv[r].key)
        BY Zenon, <1>11, <2>1 DEF Offer, Publish
    <2>2. CASE UNCHANGED <<sub, promise>>
        BY ZenonT(30), <1>11, <2>2 DEF Offer
    <2> QED
        BY ZenonT(30), <1>11, <2>1, <2>2 DEF Offer, receiveBlock
<1>12. ASSUME NEW r \in Receiver, CancelWants(r)
       PROVE  Asked'
    BY Zenon, <1>12 DEF CancelWants, loopVars, callVars
<1>13. ASSUME Tick
       PROVE  Asked'
    BY Zenon, <1>13 DEF Tick, loopVars, callVars
<1>14. ASSUME CloseContext
       PROVE  Asked'
    BY Zenon, <1>14 DEF CloseContext, loopVars, callVars
<1>15. ASSUME removeSession
       PROVE  Asked'
    BY Zenon, <1>15 DEF removeSession, loopVars, callVars
<1>16. CASE UNCHANGED vars
    BY Zenon, <1>16 DEF vars, loopVars, callVars
<1> QED
    BY ZenonT(30), <1>1, <1>2, <1>3, <1>4, <1>5, <1>6, <1>7, <1>8, <1>9,
        <1>10, <1>11, <1>12, <1>13, <1>14, <1>15, <1>16 DEF Next, CallNext,
        RecvNext

\* Every step keeps the awaited keys live, queued or recorded as dropped.
LEMMA AwaitedStep ==
    ASSUME Shape, Asked, AwaitedTracked, [Next]_vars
    PROVE  AwaitedTracked'
<1> USE DEF Shape, AwaitedTracked
<1>1. ASSUME NEW c \in Caller, NEW ks \in Requests, Miss(c, ks)
      PROVE  AwaitedTracked'
    BY Zenon, <1>1 DEF Miss, loopVars, callVars
<1>2. ASSUME NEW c \in Caller, Subscribe(c)
      PROVE  AwaitedTracked'
    BY Zenon, <1>2 DEF Subscribe, loopVars, callVars
<1>3. ASSUME NEW c \in Caller, NewReqs(c)
      PROVE  AwaitedTracked'
    <2>1. PICK toadd \in 0..Len(keys[c]) :
            /\ live' = live \cup ToSet(SubSeq(keys[c], 1, toadd))
            /\ eset' = eset \cup ToSet(SubSeq(keys[c], toadd + 1, Len(keys[c])))
        BY Zenon, <1>3 DEF NewReqs, wantBlocks, Push
    <2>2. ToSet(keys[c]) \subseteq live' \cup eset'
        BY ZenonT(30), <2>1, CutSequence
    <2>3. sub[c] \subseteq ToSet(keys[c])
        BY Zenon, <1>3 DEF NewReqs, Asked
    <2> QED
        BY ZenonT(30), <1>3, <2>1, <2>2, <2>3 DEF NewReqs
<1>4. ASSUME NEW c \in Caller, FetchSkipped(c)
      PROVE  AwaitedTracked'
    BY Zenon, <1>4 DEF FetchSkipped, loopVars, callVars
<1>5. ASSUME NEW c \in Caller, NEW k \in Key, Take(c, k)
      PROVE  AwaitedTracked'
    BY Zenon, <1>5 DEF Take, loopVars, callVars
<1>6. ASSUME NEW c \in Caller, Finish(c)
      PROVE  AwaitedTracked'
    BY Zenon, <1>6 DEF Finish, loopVars, callVars
<1>7. ASSUME NEW c \in Caller, CancelContext(c)
      PROVE  AwaitedTracked'
    BY Zenon, <1>7 DEF CancelContext, loopVars, callVars
<1>8. ASSUME NEW c \in Caller, CancelKeys(c)
      PROVE  AwaitedTracked'
    BY ZenonT(30), <1>8 DEF CancelKeys
<1>9. ASSUME NEW r \in Receiver, NEW k \in Key, Arrive(r, k)
      PROVE  AwaitedTracked'
    BY Zenon, <1>9 DEF Arrive, loopVars, callVars
<1>10. ASSUME NEW r \in Receiver, SessionsForBlock(r)
       PROVE  AwaitedTracked'
    BY Zenon, <1>10 DEF SessionsForBlock, loopVars, callVars
<1>11. ASSUME NEW r \in Receiver, Offer(r)
       PROVE  AwaitedTracked'
    <2>1. CASE receiveBlock(recv[r].key)
        <3>1. (live \cup eset) \ {recv[r].key} \subseteq live' \cup eset'
            BY Zenon, <2>1 DEF receiveBlock
        <3>2. sub' = [d \in Caller |-> sub[d] \ {recv[r].key}]
            BY Zenon, <2>1 DEF receiveBlock, Publish
        <3> QED
            BY ZenonT(30), <1>11, <3>1, <3>2 DEF Offer
    <2>2. CASE UNCHANGED <<live, eset, sub>>
        BY ZenonT(30), <1>11, <2>2 DEF Offer
    <2> QED
        BY ZenonT(30), <1>11, <2>1, <2>2 DEF Offer
<1>12. ASSUME NEW r \in Receiver, CancelWants(r)
       PROVE  AwaitedTracked'
    BY Zenon, <1>12 DEF CancelWants, loopVars, callVars
<1>13. ASSUME Tick
       PROVE  AwaitedTracked'
    BY Zenon, <1>13 DEF Tick, loopVars, callVars
<1>14. ASSUME CloseContext
       PROVE  AwaitedTracked'
    BY Zenon, <1>14 DEF CloseContext, loopVars, callVars
<1>15. ASSUME removeSession
       PROVE  AwaitedTracked'
    BY Zenon, <1>15 DEF removeSession, loopVars, callVars
<1>16. CASE UNCHANGED vars
    BY ZenonT(30), <1>16 DEF vars, loopVars, callVars
<1> QED
    BY ZenonT(30), <1>1, <1>2, <1>3, <1>4, <1>5, <1>6, <1>7, <1>8, <1>9,
        <1>10, <1>11, <1>12, <1>13, <1>14, <1>15, <1>16 DEF Next, CallNext,
        RecvNext

\* The loop never forgets a key that a GetBlocks call on the open session
\* waits for, unless the end of another call took it off the queue.
THEOREM AwaitedAreTracked == Spec => []AwaitedTracked
<1> DEFINE Inv == Shape /\ Asked /\ AwaitedTracked
<1>1. Init => Inv
    BY Zenon, ShapeInit DEF Init, Asked, AwaitedTracked
<1>2. Inv /\ [Next]_vars => Inv'
    BY ZenonT(30), ShapeStep, AskedStep, AwaitedStep
<1>3. Inv => AwaitedTracked
    OBVIOUS
<1> QED
    BY <1>1, <1>2, <1>3, PTL DEF Spec
============================================================================
