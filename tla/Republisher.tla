---------------------------- MODULE Republisher ----------------------------
(***************************************************************************)
(* The republisher of a files root (mfs/system.go): changes of the root    *)
(* are announced with Update, a loop publishes the newest one after a      *)
(* pause, WaitPub waits for that, and Close publishes once more.           *)
(*                                                                         *)
(* WaitPub compares pointers, and Update brings a new one or the one that  *)
(* is there already, so values are numbered in the order they are set; 1   *)
(* is the root the node was started with, 0 is nil.                        *)
(***************************************************************************)
EXTENDS Naturals

CONSTANTS
    Caller,         \* users of the files API
    Run,            \* the republisher's loop
    Env,            \* what may happen beside updates
    MaxVal,         \* bound on the values that are set
    None            \* no caller

AllEnv == {"fail", "close"}

Publisher == Caller \cup {Run}

ASSUME RepublisherAssumption ==
    /\ Run \notin Caller
    /\ None \notin Caller
    /\ Env \subseteq AllEnv
    /\ MaxVal \in Nat

VARIABLES
    val,            \* Republisher.val
    lastpub,        \* Republisher.lastpub
    token,          \* the Publish channel has its token
    done,           \* the context is done
    pc,             \* where the caller, or the loop, is
    topub,          \* the value publish has read
    pubnowresp,     \* the caller the loop has to answer
    goal,           \* the value the caller announced last
    sink,           \* what pubfunc published last
    failed          \* the value of pubfunc's last failure

vars == <<val, lastpub, token, done, pc, topub, pubnowresp, goal, sink, failed>>

CloseStep == {"read", "put", "mark", "cancel"}
CallStep == {"idle", "signal", "check", "send", "answer"} \cup CloseStep
LoopStep == {"idle", "wait", "read", "put", "mark", "reply", "exit"}

\* Types of the republisher, and of the callers of Update, WaitPub and Close.
TypeOK ==
    /\ val \in 1..(MaxVal + 1)
    /\ lastpub \in 0..val
    /\ token \in BOOLEAN
    /\ done \in BOOLEAN
    /\ pc \in [Publisher -> CallStep \cup LoopStep]
    /\ pc[Run] \in LoopStep
    /\ \A c \in Caller : pc[c] \in CallStep
    /\ topub \in [Publisher -> 0..val]
    /\ pubnowresp \in Caller \cup {None}
    /\ pc[Run] = "reply" => pubnowresp # None
    /\ pc[Run] \in {"idle", "wait", "exit"} => pubnowresp = None
    /\ \A c \in Caller : pc[c] = "answer" <=> pubnowresp = c
    /\ goal \in [Caller -> 0..val]
    /\ sink \in 0..val
    /\ failed \in 0..val

\* NewRoot sets the value it has loaded and does not signal it.
Init ==
    /\ val = 1
    /\ lastpub = 0
    /\ token = FALSE
    /\ done = FALSE
    /\ pc = [p \in Publisher |-> "idle"]
    /\ topub = [p \in Publisher |-> 0]
    /\ pubnowresp = None
    /\ goal = [c \in Caller |-> 0]
    /\ sink = 1
    /\ failed = 0

\* Root.Close has called the republisher's Close, perhaps it has returned.
Closing == done \/ \E c \in Caller : pc[c] \in CloseStep

Goto(p, l) == pc' = [pc EXCEPT ![p] = l]

----------------------------------------------------------------------------
(* The callers.                                                            *)

\* Update sets the value, under the lock.
Update(c) ==
    /\ pc[c] = "idle"
    /\ \E v \in {val, val + 1} :
           /\ v <= MaxVal + 1
           /\ val' = v
           /\ goal' = [goal EXCEPT ![c] = v]
    /\ Goto(c, "signal")
    /\ UNCHANGED <<lastpub, token, done, topub, pubnowresp, sink, failed>>

\* Mutant: the channel has no buffer, and a token the loop is not there to take
\* is dropped.
SignalUnlessIdle(c) ==
    /\ pc[c] = "signal"
    /\ token' = (token \/ pc[Run] = "idle")
    /\ \/ Goto(c, "idle")
       \/ Goto(c, "check")
       \/ "close" \in Env /\ ~Closing /\ Goto(c, "read")
    /\ UNCHANGED <<val, lastpub, done, topub, pubnowresp, goal, sink, failed>>

\* It fills the Publish channel unless it is full.  The caller is a child that
\* closes, FlushPath, which goes on to wait, or Root.Close.
Signal(c) ==
    /\ pc[c] = "signal"
    /\ token' = TRUE
    /\ \/ Goto(c, "idle")
       \/ Goto(c, "check")
       \/ "close" \in Env /\ ~Closing /\ Goto(c, "read")
    /\ UNCHANGED <<val, lastpub, done, topub, pubnowresp, goal, sink, failed>>

\* WaitPub returns at once if the value was published.
Check(c) ==
    /\ pc[c] = "check"
    /\ IF lastpub = val THEN Goto(c, "idle") ELSE Goto(c, "send")
    /\ UNCHANGED <<val, lastpub, token, done, topub, pubnowresp, goal, sink, failed>>

\* Mutant: the loop takes WaitPub's channel while it publishes as well.
PubNowAnyTime(c) ==
    /\ pc[c] = "send"
    /\ pc[Run] \in {"wait", "put", "mark"}
    /\ pubnowresp = None
    /\ pc' = [pc EXCEPT ![c] = "answer",
                        ![Run] = IF pc[Run] = "wait" THEN "read" ELSE pc[Run]]
    /\ pubnowresp' = c
    /\ UNCHANGED <<val, lastpub, token, done, topub, goal, sink, failed>>

\* WaitPub's channel is taken by the loop, which only does so while it waits
\* for the timers.
PubNow(c) ==
    /\ pc[c] = "send"
    /\ pc[Run] = "wait"
    /\ pc' = [pc EXCEPT ![c] = "answer", ![Run] = "read"]
    /\ pubnowresp' = c
    /\ UNCHANGED <<val, lastpub, token, done, topub, goal, sink, failed>>

\* Mutant: Close publishes and leaves the loop running.
CancelForgotten(c) ==
    /\ pc[c] = "cancel"
    /\ Goto(c, "idle")
    /\ UNCHANGED <<val, lastpub, token, done, topub, pubnowresp, goal, sink, failed>>

\* Close cancels the context when it has published.
Cancel(c) ==
    /\ pc[c] = "cancel"
    /\ done' = TRUE
    /\ Goto(c, "idle")
    /\ UNCHANGED <<val, lastpub, token, topub, pubnowresp, goal, sink, failed>>

----------------------------------------------------------------------------
(* The loop.                                                               *)

\* A token starts the timers.
Wake ==
    /\ pc[Run] = "idle"
    /\ token
    /\ token' = FALSE
    /\ Goto(Run, "wait")
    /\ UNCHANGED <<val, lastpub, done, topub, pubnowresp, goal, sink, failed>>

\* Another token restarts the quick timer.
Restart ==
    /\ pc[Run] = "wait"
    /\ token
    /\ token' = FALSE
    /\ UNCHANGED <<val, lastpub, done, pc, topub, pubnowresp, goal, sink, failed>>

\* Mutant: only the quick timer is there, and it does not fire beside a token.
TimeoutQuick ==
    /\ pc[Run] = "wait"
    /\ ~token
    /\ Goto(Run, "read")
    /\ UNCHANGED <<val, lastpub, token, done, topub, pubnowresp, goal, sink, failed>>

\* The quick or the longer timer fires.
Timeout ==
    /\ pc[Run] = "wait"
    /\ Goto(Run, "read")
    /\ UNCHANGED <<val, lastpub, token, done, topub, pubnowresp, goal, sink, failed>>

\* Mutant: the loop does not forget whom it answered.
ReplyKept ==
    /\ pc[Run] = "reply"
    /\ pc' = [pc EXCEPT ![Run] = "idle", ![pubnowresp] = "idle"]
    /\ UNCHANGED <<val, lastpub, token, done, topub, pubnowresp, goal, sink, failed>>

\* The loop answers WaitPub, whether or not the value was published.
Reply ==
    /\ pc[Run] = "reply"
    /\ pc' = [pc EXCEPT ![Run] = "idle", ![pubnowresp] = "idle"]
    /\ pubnowresp' = None
    /\ UNCHANGED <<val, lastpub, token, done, topub, goal, sink, failed>>

\* The context is done.
Exit ==
    /\ pc[Run] \in {"idle", "wait"}
    /\ done
    /\ Goto(Run, "exit")
    /\ UNCHANGED <<val, lastpub, token, done, topub, pubnowresp, goal, sink, failed>>

----------------------------------------------------------------------------
(* publish, called by the loop and by Close.                               *)

\* Where the publisher goes on after publish.
After(p) == IF p # Run THEN "cancel"
            ELSE IF pubnowresp = None THEN "idle" ELSE "reply"

Read(p) ==
    /\ pc[p] = "read"
    /\ topub' = [topub EXCEPT ![p] = val]
    /\ Goto(p, "put")
    /\ UNCHANGED <<val, lastpub, token, done, pubnowresp, goal, sink, failed>>

pubfunc(p) ==
    /\ pc[p] = "put"
    /\ sink' = topub[p]
    /\ Goto(p, "mark")
    /\ UNCHANGED <<val, lastpub, token, done, topub, pubnowresp, goal, failed>>

pubfuncFails(p) ==
    /\ "fail" \in Env
    /\ pc[p] = "put"
    /\ failed' = topub[p]
    /\ Goto(p, After(p))
    /\ UNCHANGED <<val, lastpub, token, done, topub, pubnowresp, goal, sink>>

MarkPublished(p) ==
    /\ pc[p] = "mark"
    /\ lastpub' = topub[p]
    /\ Goto(p, After(p))
    /\ UNCHANGED <<val, token, done, topub, pubnowresp, goal, sink, failed>>

publish(p) == Read(p) \/ pubfunc(p) \/ pubfuncFails(p) \/ MarkPublished(p)

CallNext(c) == Update(c) \/ Signal(c) \/ Check(c) \/ PubNow(c) \/ Cancel(c)

LoopNext == Wake \/ Restart \/ Timeout \/ Reply \/ Exit

Next ==
    \/ \E c \in Caller : CallNext(c)
    \/ LoopNext
    \/ \E p \in Publisher : publish(p)

Spec == Init /\ [][Next]_vars

\* The loop runs and its timers fire, also while tokens keep coming: only the
\* quick timer is restarted.  A caller goes on with what it has begun.
FairSpec ==
    /\ Spec
    /\ WF_vars(Wake) /\ WF_vars(Timeout) /\ WF_vars(Reply)
    /\ \A p \in Publisher : WF_vars(publish(p))
    /\ \A c \in Caller : WF_vars(Signal(c) \/ Check(c) \/ Cancel(c)) /\ SF_vars(PubNow(c))

----------------------------------------------------------------------------
(* Properties.                                                             *)

\* An update is never forgotten: until the node closes, while the newest value
\* is not published and its publication has not failed, the Publish channel has
\* its token, or the token is on the way, or the loop is about to read or has
\* read that value.  A failed publication is logged and not tried again.
UpdatePending ==
    ~Closing /\ val > 1 /\ val \notin {lastpub, failed} =>
        \/ token
        \/ \E c \in Caller : pc[c] = "signal"
        \/ pc[Run] \in {"wait", "read"}
        \/ pc[Run] \in {"put", "mark"} /\ topub[Run] = val

\* The loop publishes values in the order they were set.  An older root
\* replaces a newer one in the datastore only when Close, which publishes
\* beside the loop, overtakes it.
OrderUntilClose == [][sink' < sink => Closing]_vars

\* "Returns immediately if lastpub value is consistent with the current value
\* val, else will block until val has been published": when FlushPath comes
\* back from WaitPub, what it has flushed, or something newer, is published, or
\* pubfunc failed on it.
WaitPublished ==
    [][\A c \in Caller :
        pc[c] \in {"check", "answer"} /\ pc'[c] = "idle" /\ ~Closing
            => sink >= goal[c] \/ failed >= goal[c]]_vars

\* Every update, or a newer one, is handed to pubfunc, which publishes it or
\* fails, unless the node closes.
UpdatePublished ==
    \A c \in Caller :
        pc[c] = "signal" ~> (sink >= goal[c] \/ failed >= goal[c] \/ Closing)

\* "else will block until val has been published": WaitPub does not block for
\* ever.
WaitReturns ==
    \A c \in Caller : pc[c] = "check" ~> pc[c] = "idle"
============================================================================
