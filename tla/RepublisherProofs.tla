------------------------- MODULE RepublisherProofs -------------------------
(***************************************************************************)
(* Proofs about Republisher, for any callers, updates and failures.        *)
(***************************************************************************)
EXTENDS Republisher, TLAPS

(***************************************************************************)
(* What the loop has read is current, unless a token is there or on its    *)
(* way; what it has published is the newest that was, and it owes an       *)
(* answer only to a caller whose value it has yet to read, has read, or    *)
(* has published.                                                          *)
(***************************************************************************)
Fresh ==
    ~Closing /\ pc[Run] \in {"put", "mark"} /\ topub[Run] # val =>
        token \/ \E c \in Caller : pc[c] = "signal"

Ordered ==
    ~Closing =>
        /\ lastpub <= sink
        /\ pc[Run] = "put" => sink <= topub[Run]
        /\ pc[Run] = "mark" => sink = topub[Run]

Answered ==
    ~Closing =>
        \A c \in Caller : pc[c] = "answer" =>
            /\ pc[Run] \in {"put", "mark"} => goal[c] <= topub[Run]
            /\ pc[Run] = "reply" => goal[c] <= sink \/ goal[c] <= failed

----------------------------------------------------------------------------

\* The steps of the callers, of the loop and of publish.
LEMMA NextCases ==
    [Next]_vars <=>
        \/ \E c \in Caller : Update(c)
        \/ \E c \in Caller : Signal(c)
        \/ \E c \in Caller : Check(c)
        \/ \E c \in Caller : PubNow(c)
        \/ \E c \in Caller : Cancel(c)
        \/ Wake \/ Restart \/ Timeout \/ Reply \/ Exit
        \/ \E p \in Publisher : Read(p)
        \/ \E p \in Publisher : pubfunc(p)
        \/ \E p \in Publisher : pubfuncFails(p)
        \/ \E p \in Publisher : MarkPublished(p)
        \/ UNCHANGED vars
BY Zenon DEF Next, CallNext, LoopNext, publish

\* Every step keeps the variables in their types, and answers only callers.
LEMMA TypeStep == TypeOK /\ [Next]_vars => TypeOK'
<1> SUFFICES ASSUME TypeOK, [Next]_vars PROVE TypeOK'
  OBVIOUS
<1> USE TypeOK, RepublisherAssumption
    DEF TypeOK, Goto, After, Publisher, CallStep, CloseStep, LoopStep
<1>1. ASSUME NEW c \in Caller, Update(c) PROVE TypeOK'
  BY <1>1 DEF Update
<1>2. ASSUME NEW c \in Caller, Signal(c) PROVE TypeOK'
  BY Zenon, <1>2 DEF Signal
<1>3. ASSUME NEW c \in Caller, Check(c) PROVE TypeOK'
  BY ZenonT(30), <1>3 DEF Check
<1>4. ASSUME NEW c \in Caller, PubNow(c) PROVE TypeOK'
  BY Zenon, <1>4 DEF PubNow
<1>5. ASSUME NEW c \in Caller, Cancel(c) PROVE TypeOK'
  BY Zenon, <1>5 DEF Cancel
<1>6. CASE Wake
  BY Zenon, <1>6 DEF Wake
<1>7. CASE Restart
  BY Zenon, <1>7 DEF Restart
<1>8. CASE Timeout
  BY Zenon, <1>8 DEF Timeout
<1>9. CASE Reply
  BY Zenon, <1>9 DEF Reply
<1>10. CASE Exit
  BY Zenon, <1>10 DEF Exit
<1>11. ASSUME NEW p \in Publisher, Read(p) PROVE TypeOK'
  BY <1>11 DEF Read
<1>12. ASSUME NEW p \in Publisher, pubfunc(p) PROVE TypeOK'
  BY Zenon, <1>12 DEF pubfunc
<1>13. ASSUME NEW p \in Publisher, pubfuncFails(p) PROVE TypeOK'
  BY Zenon, <1>13 DEF pubfuncFails
<1>14. ASSUME NEW p \in Publisher, MarkPublished(p) PROVE TypeOK'
  BY Zenon, <1>14 DEF MarkPublished
<1>15. CASE UNCHANGED vars
  BY Zenon, <1>15 DEF vars
<1>16. QED
  BY Zenon, <1>1, <1>2, <1>3, <1>4, <1>5, <1>6, <1>7, <1>8, <1>9, <1>10, <1>11,
      <1>12, <1>13, <1>14, <1>15, NextCases

\* A node that closes does not open again.
LEMMA ClosingStays == TypeOK /\ Closing /\ [Next]_vars => Closing'
<1> SUFFICES ASSUME TypeOK, Closing, [Next]_vars PROVE Closing'
  OBVIOUS
<1> USE TypeOK, Closing, RepublisherAssumption
    DEF TypeOK, Goto, After, Publisher, CallStep, CloseStep, LoopStep,
        Closing
<1>1. ASSUME NEW c \in Caller, Update(c) PROVE Closing'
  BY Zenon, <1>1 DEF Update
<1>2. ASSUME NEW c \in Caller, Signal(c) PROVE Closing'
  BY Zenon, <1>2 DEF Signal
<1>3. ASSUME NEW c \in Caller, Check(c) PROVE Closing'
  BY Zenon, <1>3 DEF Check
<1>4. ASSUME NEW c \in Caller, PubNow(c) PROVE Closing'
  BY Zenon, <1>4 DEF PubNow
<1>5. ASSUME NEW c \in Caller, Cancel(c) PROVE Closing'
  BY Zenon, <1>5 DEF Cancel
<1>6. CASE Wake
  BY Zenon, <1>6 DEF Wake
<1>7. CASE Restart
  BY Zenon, <1>7 DEF Restart
<1>8. CASE Timeout
  BY Zenon, <1>8 DEF Timeout
<1>9. CASE Reply
  BY Zenon, <1>9 DEF Reply
<1>10. CASE Exit
  BY Zenon, <1>10 DEF Exit
<1>11. ASSUME NEW p \in Publisher, Read(p) PROVE Closing'
  BY Zenon, <1>11 DEF Read
<1>12. ASSUME NEW p \in Publisher, pubfunc(p) PROVE Closing'
  BY Zenon, <1>12 DEF pubfunc
<1>13. ASSUME NEW p \in Publisher, pubfuncFails(p) PROVE Closing'
  BY Zenon, <1>13 DEF pubfuncFails
<1>14. ASSUME NEW p \in Publisher, MarkPublished(p) PROVE Closing'
  BY Zenon, <1>14 DEF MarkPublished
<1>15. CASE UNCHANGED vars
  BY Zenon, <1>15 DEF vars
<1>16. QED
  BY Zenon, <1>1, <1>2, <1>3, <1>4, <1>5, <1>6, <1>7, <1>8, <1>9, <1>10, <1>11,
      <1>12, <1>13, <1>14, <1>15, NextCases

\* The loop is the only one to publish until the node closes.
LEMMA OrderedStep ==
    ASSUME TypeOK, Ordered, [Next]_vars
    PROVE  Ordered'
<1> SUFFICES ASSUME ~Closing' PROVE Ordered'
  BY Zenon DEF Ordered
<1>0. ~Closing
  BY Zenon, ClosingStays
<1> USE <1>0, TypeOK, Ordered, RepublisherAssumption
    DEF Goto, After, Publisher, CallStep, CloseStep, LoopStep, Closing,
        TypeOK, Ordered
<1>1. ASSUME NEW c \in Caller, Update(c) PROVE Ordered'
  BY Zenon, <1>1 DEF Update
<1>2. ASSUME NEW c \in Caller, Signal(c) PROVE Ordered'
  BY Zenon, <1>2 DEF Signal
<1>3. ASSUME NEW c \in Caller, Check(c) PROVE Ordered'
  BY Zenon, <1>3 DEF Check
<1>4. ASSUME NEW c \in Caller, PubNow(c) PROVE Ordered'
  BY Zenon, <1>4 DEF PubNow
<1>5. ASSUME NEW c \in Caller, Cancel(c) PROVE Ordered'
  BY Zenon, <1>5 DEF Cancel
<1>6. CASE Wake
  BY Zenon, <1>6 DEF Wake
<1>7. CASE Restart
  BY Zenon, <1>7 DEF Restart
<1>8. CASE Timeout
  BY Zenon, <1>8 DEF Timeout
<1>9. CASE Reply
  BY Zenon, <1>9 DEF Reply
<1>10. CASE Exit
  BY Zenon, <1>10 DEF Exit
<1>11. ASSUME NEW p \in Publisher, Read(p) PROVE Ordered'
  BY <1>11 DEF Read
<1>12. ASSUME NEW p \in Publisher, pubfunc(p) PROVE Ordered'
  BY <1>12 DEF pubfunc
<1>13. ASSUME NEW p \in Publisher, pubfuncFails(p) PROVE Ordered'
  BY Zenon, <1>13 DEF pubfuncFails
<1>14. ASSUME NEW p \in Publisher, MarkPublished(p) PROVE Ordered'
  BY <1>14 DEF MarkPublished
<1>15. CASE UNCHANGED vars
  BY Zenon, <1>15 DEF vars
<1>16. QED
  BY Zenon, <1>1, <1>2, <1>3, <1>4, <1>5, <1>6, <1>7, <1>8, <1>9, <1>10, <1>11,
      <1>12, <1>13, <1>14, <1>15, NextCases

\* An update after the loop has read leaves a token behind.
LEMMA FreshStep ==
    ASSUME TypeOK, Fresh, [Next]_vars
    PROVE  Fresh'
<1> SUFFICES ASSUME ~Closing' PROVE Fresh'
  BY Zenon DEF Fresh
<1>0. ~Closing
  BY Zenon, ClosingStays
<1> USE <1>0, TypeOK, Fresh, RepublisherAssumption
    DEF Goto, After, Publisher, CallStep, CloseStep, LoopStep, Closing,
        TypeOK, Fresh
<1>1. ASSUME NEW c \in Caller, Update(c) PROVE Fresh'
  BY Zenon, <1>1 DEF Update
<1>2. ASSUME NEW c \in Caller, Signal(c) PROVE Fresh'
  BY Zenon, <1>2 DEF Signal
<1>3. ASSUME NEW c \in Caller, Check(c) PROVE Fresh'
  BY Zenon, <1>3 DEF Check
<1>4. ASSUME NEW c \in Caller, PubNow(c) PROVE Fresh'
  BY Zenon, <1>4 DEF PubNow
<1>5. ASSUME NEW c \in Caller, Cancel(c) PROVE Fresh'
  BY Zenon, <1>5 DEF Cancel
<1>6. CASE Wake
  BY Zenon, <1>6 DEF Wake
<1>7. CASE Restart
  BY Zenon, <1>7 DEF Restart
<1>8. CASE Timeout
  BY Zenon, <1>8 DEF Timeout
<1>9. CASE Reply
  BY Zenon, <1>9 DEF Reply
<1>10. CASE Exit
  BY Zenon, <1>10 DEF Exit
<1>11. ASSUME NEW p \in Publisher, Read(p) PROVE Fresh'
  BY Zenon, <1>11 DEF Read
<1>12. ASSUME NEW p \in Publisher, pubfunc(p) PROVE Fresh'
  BY Zenon, <1>12 DEF pubfunc
<1>13. ASSUME NEW p \in Publisher, pubfuncFails(p) PROVE Fresh'
  BY Zenon, <1>13 DEF pubfuncFails
<1>14. ASSUME NEW p \in Publisher, MarkPublished(p) PROVE Fresh'
  BY Zenon, <1>14 DEF MarkPublished
<1>15. CASE UNCHANGED vars
  BY Zenon, <1>15 DEF vars
<1>16. QED
  BY Zenon, <1>1, <1>2, <1>3, <1>4, <1>5, <1>6, <1>7, <1>8, <1>9, <1>10, <1>11,
      <1>12, <1>13, <1>14, <1>15, NextCases

\* The loop reads the value after it has taken a caller's channel.
LEMMA AnsweredStep ==
    ASSUME TypeOK, Ordered, Answered, [Next]_vars
    PROVE  Answered'
<1> SUFFICES ASSUME ~Closing' PROVE Answered'
  BY Zenon DEF Answered
<1>0. ~Closing
  BY Zenon, ClosingStays
<1> USE <1>0, TypeOK, Ordered, Answered, RepublisherAssumption
    DEF Goto, After, Publisher, CallStep, CloseStep, LoopStep, Closing,
        TypeOK, Ordered, Answered
<1>1. ASSUME NEW c \in Caller, Update(c) PROVE Answered'
  BY ZenonT(30), <1>1 DEF Update
<1>2. ASSUME NEW c \in Caller, Signal(c) PROVE Answered'
  BY Zenon, <1>2 DEF Signal
<1>3. ASSUME NEW c \in Caller, Check(c) PROVE Answered'
  BY ZenonT(30), <1>3 DEF Check
<1>4. ASSUME NEW c \in Caller, PubNow(c) PROVE Answered'
  BY Zenon, <1>4 DEF PubNow
<1>5. ASSUME NEW c \in Caller, Cancel(c) PROVE Answered'
  BY Zenon, <1>5 DEF Cancel
<1>6. CASE Wake
  BY Zenon, <1>6 DEF Wake
<1>7. CASE Restart
  BY Zenon, <1>7 DEF Restart
<1>8. CASE Timeout
  BY Zenon, <1>8 DEF Timeout
<1>9. CASE Reply
  BY Zenon, <1>9 DEF Reply
<1>10. CASE Exit
  BY Zenon, <1>10 DEF Exit
<1>11. ASSUME NEW p \in Publisher, Read(p) PROVE Answered'
  BY <1>11 DEF Read
<1>12. ASSUME NEW p \in Publisher, pubfunc(p) PROVE Answered'
  BY Zenon, <1>12 DEF pubfunc
<1>13. ASSUME NEW p \in Publisher, pubfuncFails(p) PROVE Answered'
  BY Zenon, <1>13 DEF pubfuncFails
<1>14. ASSUME NEW p \in Publisher, MarkPublished(p) PROVE Answered'
  BY ZenonT(30), <1>14 DEF MarkPublished
<1>15. CASE UNCHANGED vars
  BY Zenon, <1>15 DEF vars
<1>16. QED
  BY Zenon, <1>1, <1>2, <1>3, <1>4, <1>5, <1>6, <1>7, <1>8, <1>9, <1>10, <1>11,
      <1>12, <1>13, <1>14, <1>15, NextCases

\* No update is forgotten.
LEMMA UpdatePendingStep ==
    ASSUME TypeOK, Fresh, UpdatePending, [Next]_vars
    PROVE  UpdatePending'
<1> SUFFICES ASSUME ~Closing' PROVE UpdatePending'
  BY Zenon DEF UpdatePending
<1>0. ~Closing
  BY Zenon, ClosingStays
<1> USE <1>0, TypeOK, Fresh, UpdatePending, RepublisherAssumption
    DEF Goto, After, Publisher, CallStep, CloseStep, LoopStep, Closing,
        TypeOK, Fresh, UpdatePending
<1>1. ASSUME NEW c \in Caller, Update(c) PROVE UpdatePending'
  BY Zenon, <1>1 DEF Update
<1>2. ASSUME NEW c \in Caller, Signal(c) PROVE UpdatePending'
  BY Zenon, <1>2 DEF Signal
<1>3. ASSUME NEW c \in Caller, Check(c) PROVE UpdatePending'
  BY Zenon, <1>3 DEF Check
<1>4. ASSUME NEW c \in Caller, PubNow(c) PROVE UpdatePending'
  BY Zenon, <1>4 DEF PubNow
<1>5. ASSUME NEW c \in Caller, Cancel(c) PROVE UpdatePending'
  BY Zenon, <1>5 DEF Cancel
<1>6. CASE Wake
  BY Zenon, <1>6 DEF Wake
<1>7. CASE Restart
  BY Zenon, <1>7 DEF Restart
<1>8. CASE Timeout
  BY Zenon, <1>8 DEF Timeout
<1>9. CASE Reply
  BY Zenon, <1>9 DEF Reply
<1>10. CASE Exit
  BY Zenon, <1>10 DEF Exit
<1>11. ASSUME NEW p \in Publisher, Read(p) PROVE UpdatePending'
  BY Zenon, <1>11 DEF Read
<1>12. ASSUME NEW p \in Publisher, pubfunc(p) PROVE UpdatePending'
  BY Zenon, <1>12 DEF pubfunc
<1>13. ASSUME NEW p \in Publisher, pubfuncFails(p) PROVE UpdatePending'
  BY Zenon, <1>13 DEF pubfuncFails
<1>14. ASSUME NEW p \in Publisher, MarkPublished(p) PROVE UpdatePending'
  BY Zenon, <1>14 DEF MarkPublished
<1>15. CASE UNCHANGED vars
  BY Zenon, <1>15 DEF vars
<1>16. QED
  BY Zenon, <1>1, <1>2, <1>3, <1>4, <1>5, <1>6, <1>7, <1>8, <1>9, <1>10, <1>11,
      <1>12, <1>13, <1>14, <1>15, NextCases

----------------------------------------------------------------------------

\* Every variable keeps its type, and the loop owes an answer exactly to the
\* caller that waits for one.
THEOREM TypeCorrect == Spec => []TypeOK
<1>1. Init => TypeOK
  <2> SUFFICES ASSUME Init PROVE TypeOK
    OBVIOUS
  <2>1. /\ val \in 1..(MaxVal + 1)
        /\ lastpub \in 0..val /\ sink \in 0..val /\ failed \in 0..val
    BY RepublisherAssumption DEF Init
  <2>2. topub \in [Publisher -> 0..val] /\ goal \in [Caller -> 0..val]
    BY DEF Init
  <2>3. QED
    BY Zenon, <2>1, <2>2, RepublisherAssumption
    DEF Init, TypeOK, Publisher, CallStep, CloseStep, LoopStep
<1>2. QED
  BY <1>1, TypeStep, PTL DEF Spec

\* Until the node closes, the files root in the datastore is never replaced by
\* an older one: for any number of callers, updates and failed publications.
THEOREM OrderKept == Spec => OrderUntilClose
<1>1. Init => Ordered
  BY RepublisherAssumption DEF Init, Ordered, Publisher
<1>2. TypeOK /\ Ordered /\ [Next]_vars => Ordered'
  BY Zenon, OrderedStep
<1>3. TypeOK /\ Ordered /\ [Next]_vars => [sink' < sink => Closing]_vars
  <2> SUFFICES ASSUME TypeOK, Ordered, [Next]_vars, ~Closing, sink' < sink
               PROVE  FALSE
    OBVIOUS
  <2>0. sink' # sink
    BY DEF TypeOK
  <2>1. PICK p \in Publisher : pubfunc(p)
    BY Zenon, <2>0, NextCases DEF vars, Update, Signal, Check, PubNow, Cancel,
        Wake, Restart,
        Timeout, Reply, Exit, Read, pubfuncFails, MarkPublished
  <2>2. p = Run
    BY Zenon, <2>1 DEF pubfunc, Publisher, Closing, CloseStep
  <2>3. QED
    BY <2>1, <2>2 DEF pubfunc, Ordered, TypeOK, Publisher
<1>4. QED
  BY <1>1, <1>2, <1>3, TypeCorrect, PTL DEF Spec, OrderUntilClose

\* No update is forgotten while the node is open, unless pubfunc fails on it.
THEOREM NoneForgotten == Spec => []UpdatePending
<1>1. Init => Fresh /\ UpdatePending
  BY RepublisherAssumption DEF Init, Fresh, UpdatePending, Publisher
<1>2. TypeOK /\ Fresh /\ UpdatePending /\ [Next]_vars => Fresh' /\ UpdatePending'
  BY Zenon, FreshStep, UpdatePendingStep
<1>3. QED
  BY <1>1, <1>2, TypeCorrect, PTL DEF Spec

\* FlushPath returns from WaitPub only when what it flushed, or something
\* newer, is published or pubfunc failed on it.
THEOREM WaitKept == Spec => WaitPublished
<1> DEFINE Covered(c) == sink >= goal[c] \/ failed >= goal[c]
<1> DEFINE Returned == \A c \in Caller :
        pc[c] \in {"check", "answer"} /\ pc'[c] = "idle" /\ ~Closing
            => Covered(c)
<1>1. Init => Ordered /\ Answered
  BY RepublisherAssumption DEF Init, Ordered, Answered, Publisher
<1>2. TypeOK /\ Ordered /\ Answered /\ [Next]_vars => Ordered' /\ Answered'
  BY Zenon, OrderedStep, AnsweredStep
<1>3. TypeOK /\ Ordered /\ Answered /\ [Next]_vars => Returned
  <2> SUFFICES ASSUME TypeOK, Ordered, Answered, [Next]_vars, ~Closing,
                      NEW w \in Caller, pc[w] \in {"check", "answer"}, pc'[w] = "idle"
               PROVE  Covered(w)
    OBVIOUS
  <2> USE TypeOK, Ordered, Answered, RepublisherAssumption
      DEF TypeOK, Ordered, Answered, Goto, Publisher, Closing, CloseStep,
          LoopStep, CallStep, After
  <2>1. ASSUME NEW c \in Caller, Update(c) PROVE Covered(w)
    BY Zenon, <2>1 DEF Update
  <2>2. ASSUME NEW c \in Caller, Signal(c) PROVE Covered(w)
    BY Zenon, <2>2 DEF Signal
  <2>3. ASSUME NEW c \in Caller, Check(c) PROVE Covered(w)
    BY <2>3 DEF Check
  <2>4. ASSUME NEW c \in Caller, PubNow(c) PROVE Covered(w)
    BY Zenon, <2>4 DEF PubNow
  <2>5. ASSUME NEW c \in Caller, Cancel(c) PROVE Covered(w)
    BY Zenon, <2>5 DEF Cancel
  <2>6. CASE Wake
    BY Zenon, <2>6 DEF Wake
  <2>7. CASE Restart
    BY Zenon, <2>7 DEF Restart
  <2>8. CASE Timeout
    BY Zenon, <2>8 DEF Timeout
  <2>9. CASE Reply
    BY Zenon, <2>9 DEF Reply
  <2>10. CASE Exit
    BY Zenon, <2>10 DEF Exit
  <2>11. ASSUME NEW p \in Publisher, Read(p) PROVE Covered(w)
    BY Zenon, <2>11 DEF Read
  <2>12. ASSUME NEW p \in Publisher, pubfunc(p) PROVE Covered(w)
    BY Zenon, <2>12 DEF pubfunc
  <2>13. ASSUME NEW p \in Publisher, pubfuncFails(p) PROVE Covered(w)
    BY Zenon, <2>13 DEF pubfuncFails
  <2>14. ASSUME NEW p \in Publisher, MarkPublished(p) PROVE Covered(w)
    BY Zenon, <2>14 DEF MarkPublished
  <2>15. CASE UNCHANGED vars
    BY Zenon, <2>15 DEF vars
  <2>16. QED
    BY Zenon, <2>1, <2>2, <2>3, <2>4, <2>5, <2>6, <2>7, <2>8, <2>9, <2>10, <2>11,
        <2>12, <2>13, <2>14, <2>15, NextCases
<1>4. QED
  BY <1>1, <1>2, <1>3, TypeCorrect, PTL DEF Spec, WaitPublished
============================================================================
