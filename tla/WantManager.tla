---------------------------- MODULE WantManager ----------------------------
(***************************************************************************)
(* The asking side of bitswap (exchange/bitswap/wantmanager.go): the       *)
(* wantlists of the node, with the sessions that want each key             *)
(* (wantlist/wantlist.go), and for every connected peer a message queue    *)
(* that combines what is still to be said to it (message/message.go).      *)
(*                                                                         *)
(* Run handles one request or connection event at a time, and each is one  *)
(* step here; the queues of the peers run beside it.  The lists hold       *)
(* pointers to entries: AddEntry stores the entry it is given, so that     *)
(* the broadcast list, the whole list and the lists of peers that          *)
(* connected later can share one entry, and one set of sessions with it.   *)
(***************************************************************************)
EXTENDS Naturals, FiniteSets

CONSTANTS
    Peer,           \* the remote peers
    Key,            \* the cids
    Session,        \* the sessions and GetBlocks calls of this node
    Env,            \* what may go wrong
    MaxEvents,      \* bound on requests and connection events
    Nil             \* no message

AllEnv == {"disconnect", "fail"}

List == {"wl", "bcwl"} \cup Peer

Message == [full : {"full", "update"}, want : SUBSET Key, cancel : SUBSET Key]

ASSUME WantManagerAssumption ==
    /\ Env \subseteq AllEnv
    /\ MaxEvents \in Nat
    /\ {"wl", "bcwl"} \cap Peer = {}
    /\ Nil \notin Message

VARIABLES
    track,          \* SesTrk: by list and key, the sessions that want the key
    shared,         \* by key, the lists that hold the entry the bcwl holds
    refcnt,         \* msgQueue.refcnt; 0 where the peer has no queue
    out,            \* msgQueue.out
    work,           \* the peers whose msgQueue.work is full
    sending,        \* the message doWork is sending
    late,           \* messages of queues that were stopped while sending
    remote,         \* the wantlist of this node as the peer knows it
    asked,          \* by key, the sessions that broadcast it and did not cancel
    lost,           \* peers that missed a message, or got a late one, since
                    \* the last full wantlist
    events          \* requests and connection events so far

vars == <<track, shared, refcnt, out, work, sending, late, remote, asked, lost,
          events>>

peers == {p \in Peer : refcnt[p] > 0}

Wants(l) == {k \in Key : track[l][k] # {}}

\* Types of the wantlists, the message queues and what the peers were told.
TypeOK ==
    /\ track \in [List -> [Key -> SUBSET Session]]
    /\ shared \in [Key -> SUBSET List]
    /\ refcnt \in [Peer -> Nat]
    /\ out \in [Peer -> Message \cup {Nil}]
    /\ work \subseteq peers
    /\ sending \in [Peer -> Message \cup {Nil}]
    /\ late \in [Peer -> SUBSET Message]
    /\ remote \in [Peer -> SUBSET Key]
    /\ asked \in [Key -> SUBSET Session]
    /\ lost \subseteq Peer
    /\ events \in 0..MaxEvents

Init ==
    /\ track = [l \in List |-> [k \in Key |-> {}]]
    /\ shared = [k \in Key |-> {}]
    /\ refcnt = [p \in Peer |-> 0]
    /\ out = [p \in Peer |-> Nil]
    /\ work = {}
    /\ sending = [p \in Peer |-> Nil]
    /\ late = [p \in Peer |-> {}]
    /\ remote = [p \in Peer |-> {}]
    /\ asked = [k \in Key |-> {}]
    /\ lost = {}
    /\ events = 0

Event == events < MaxEvents /\ events' = events + 1

(***************************************************************************)
(* The messages.                                                           *)
(***************************************************************************)
Empty(m) == m = Nil \/ (m.want = {} /\ m.cancel = {})

\* A queue with no message starts one that adds to what the peer knows.
Held(p) == IF out[p] = Nil THEN [full |-> "update", want |-> {}, cancel |-> {}]
                           ELSE out[p]

\* The last thing said about a key is what counts.
AddEntry(m, k) == [m EXCEPT !.want = @ \cup {k}, !.cancel = @ \ {k}]
Cancel(m, k) == [m EXCEPT !.want = @ \ {k}, !.cancel = @ \cup {k}]

\* What the peer knows after message m.
Received(known, m) ==
    ((IF m.full = "full" THEN {} ELSE known) \cup m.want) \ m.cancel

(***************************************************************************)
(* Requests.  Targets is empty for a broadcast.                            *)
(***************************************************************************)

\* Session s is added to the lists in L.  Where the entry is shared, all
\* lists that share it get the session.
Tracked(L, k, s) ==
    LET reached == L \cup (IF L \cap shared[k] # {} THEN shared[k] ELSE {})
    IN  [l \in List |-> IF l \in reached THEN [track[l] EXCEPT ![k] = @ \cup {s}]
                                         ELSE track[l]]

\* AddWant as it would be if it signalled only for a new message.
AddWantQuietly(P, k) ==
    LET told == {p \in P : track[p][k] = {}}
    IN  /\ out' = [p \in Peer |-> IF p \in told THEN AddEntry(Held(p), k)
                                  ELSE IF p \in P THEN Held(p)
                                  ELSE out[p]]
        /\ work' = work \cup {p \in told : out[p] = Nil}

\* addMessage for a want, at the peers in P: said if the peer's list is new to it.
AddWant(P, k) ==
    LET told == {p \in P : track[p][k] = {}}
    IN  /\ out' = [p \in Peer |-> IF p \in told THEN AddEntry(Held(p), k)
                                  ELSE IF p \in P THEN Held(p)
                                  ELSE out[p]]
        /\ work' = work \cup told

\* AddCancel as it would be if it ignored the sessions that are left.
AddCancelAtOnce(P, k, s) ==
    LET told == {p \in P : s \in track[p][k]}
    IN  /\ out' = [p \in Peer |-> IF p \in told THEN Cancel(Held(p), k)
                                  ELSE IF p \in P THEN Held(p)
                                  ELSE out[p]]
        /\ work' = work \cup told

\* addMessage for a cancel: said if no session of the peer's list is left.
AddCancel(P, k, s) ==
    LET told == {p \in P : track[p][k] # {} /\ track[p][k] \subseteq {s}}
    IN  /\ out' = [p \in Peer |-> IF p \in told THEN Cancel(Held(p), k)
                                  ELSE IF p \in P THEN Held(p)
                                  ELSE out[p]]
        /\ work' = work \cup told

WantBroadcast(s, k) ==
    /\ Event
    /\ track' = Tracked({"bcwl", "wl"} \cup peers, k, s)
    /\ shared' = [shared EXCEPT ![k] =
                     CASE track["bcwl"][k] # {} -> @
                       [] track["bcwl"][k] = {} /\ track["wl"][k] # {} -> {"bcwl"}
                       [] OTHER -> {"bcwl", "wl"}]
    /\ asked' = [asked EXCEPT ![k] = @ \cup {s}]
    /\ AddWant(peers, k)
    /\ UNCHANGED <<refcnt, sending, late, remote, lost>>

WantFrom(s, k, targets) ==
    /\ Event
    /\ track' = Tracked({"wl"} \cup (targets \cap peers), k, s)
    /\ AddWant(targets \cap peers, k)
    /\ UNCHANGED <<shared, refcnt, sending, late, remote, asked, lost>>

\* A cancel is always a broadcast.
CancelWants(s, k) ==
    /\ Event
    /\ s \in track["wl"][k]
    /\ track' = [l \in List |-> [track[l] EXCEPT ![k] = @ \ {s}]]
    /\ shared' = [shared EXCEPT ![k] = IF track["bcwl"][k] \subseteq {s} THEN {} ELSE @]
    /\ asked' = [asked EXCEPT ![k] = @ \ {s}]
    /\ AddCancel(peers, k, s)
    /\ UNCHANGED <<refcnt, sending, late, remote, lost>>

(***************************************************************************)
(* Connections.                                                            *)
(***************************************************************************)

\* Connected as it would be if the new queue did not take over the sessions.
ConnectedUntracked(p) ==
    /\ Event
    /\ refcnt' = [refcnt EXCEPT ![p] = @ + 1]
    /\ IF p \in peers
       THEN UNCHANGED <<out, work>>
       ELSE /\ out' = [out EXCEPT ![p] = [full |-> "full", want |-> Wants("bcwl"),
                                          cancel |-> {}]]
            /\ work' = work \cup {p}
    /\ UNCHANGED <<track, shared, sending, late, remote, asked, lost>>

\* startPeerHandler.  A new queue begins with the broadcast list, whose
\* entries it shares.
Connected(p) ==
    /\ Event
    /\ refcnt' = [refcnt EXCEPT ![p] = @ + 1]
    /\ IF p \in peers
       THEN UNCHANGED <<track, shared, out, work>>
       ELSE /\ track' = [track EXCEPT ![p] = track["bcwl"]]
            /\ shared' = [k \in Key |-> IF track["bcwl"][k] # {} THEN shared[k] \cup {p}
                                                               ELSE shared[k]]
            /\ out' = [out EXCEPT ![p] = [full |-> "full", want |-> Wants("bcwl"),
                                          cancel |-> {}]]
            /\ work' = work \cup {p}
    /\ UNCHANGED <<sending, late, remote, asked, lost>>

\* Disconnected as it would be if it forgot to take the queue off the map.
DisconnectedKept(p) ==
    /\ Event
    /\ "disconnect" \in Env \/ refcnt[p] > 1
    /\ p \in peers
    /\ refcnt' = [refcnt EXCEPT ![p] = @ - 1]
    /\ UNCHANGED <<track, shared, out, work, sending, late, remote, asked, lost>>

\* stopPeerHandler.  With the last connection the peer drops what it knows,
\* and the queue is told to stop.  A message it was sending still gets there
\* if doWork was at ConnectTo, which connects again; and so does one it had
\* not picked up, for runQueue may see the work before it sees it is done.
Disconnected(p) ==
    /\ Event
    /\ "disconnect" \in Env \/ refcnt[p] > 1
    /\ p \in peers
    /\ refcnt' = [refcnt EXCEPT ![p] = @ - 1]
    /\ IF refcnt[p] > 1
       THEN UNCHANGED <<track, shared, out, work, sending, late, remote, lost>>
       ELSE /\ track' = [track EXCEPT ![p] = [k \in Key |-> {}]]
            /\ shared' = [k \in Key |-> shared[k] \ {p}]
            /\ late' = [late EXCEPT ![p] = @ \cup ({sending[p]} \ {Nil})
                           \cup (IF p \in work /\ ~Empty(out[p]) THEN {out[p]} ELSE {})]
            /\ out' = [out EXCEPT ![p] = Nil]
            /\ work' = work \ {p}
            /\ sending' = [sending EXCEPT ![p] = Nil]
            /\ remote' = [remote EXCEPT ![p] = {}]
            /\ lost' = lost \ {p}
    /\ UNCHANGED asked

(***************************************************************************)
(* runQueue of one peer.                                                   *)
(***************************************************************************)

\* Grab as it would be if a queue waited for the stopped one before it.
GrabAfterLate(p) ==
    /\ p \in work
    /\ sending[p] = Nil
    /\ late[p] = {}
    /\ work' = work \ {p}
    /\ IF Empty(out[p])
       THEN UNCHANGED <<out, sending>>
       ELSE /\ sending' = [sending EXCEPT ![p] = out[p]]
            /\ out' = [out EXCEPT ![p] = Nil]
    /\ UNCHANGED <<track, shared, refcnt, late, remote, asked, lost, events>>

\* doWork takes the message, if there is one.
Grab(p) ==
    /\ p \in work
    /\ sending[p] = Nil
    /\ work' = work \ {p}
    /\ IF Empty(out[p])
       THEN UNCHANGED <<out, sending>>
       ELSE /\ sending' = [sending EXCEPT ![p] = out[p]]
            /\ out' = [out EXCEPT ![p] = Nil]
    /\ UNCHANGED <<track, shared, refcnt, late, remote, asked, lost, events>>

SendMsg(p) ==
    /\ sending[p] # Nil
    /\ remote' = [remote EXCEPT ![p] = Received(@, sending[p])]
    /\ sending' = [sending EXCEPT ![p] = Nil]
    /\ lost' = IF sending[p].full = "full" THEN lost \ {p} ELSE lost
    /\ UNCHANGED <<track, shared, refcnt, out, work, late, asked, events>>

\* No sender can be opened: the message is dropped.
SendFails(p) ==
    /\ "fail" \in Env
    /\ sending[p] # Nil
    /\ sending' = [sending EXCEPT ![p] = Nil]
    /\ lost' = lost \cup {p}
    /\ UNCHANGED <<track, shared, refcnt, out, work, late, remote, asked, events>>

\* A message of a queue that was stopped arrives after all, or is given up.
LateMsg(p, m) ==
    /\ m \in late[p]
    /\ late' = [late EXCEPT ![p] = @ \ {m}]
    /\ \/ remote' = [remote EXCEPT ![p] = Received(@, m)] /\ lost' = lost \cup {p}
       \/ UNCHANGED <<remote, lost>>
    /\ UNCHANGED <<track, shared, refcnt, out, work, sending, asked, events>>

Queue(p) == Grab(p) \/ SendMsg(p)

Next ==
    \/ \E s \in Session, k \in Key :
           \/ WantBroadcast(s, k) \/ CancelWants(s, k)
           \/ \E targets \in (SUBSET Peer) \ {{}} : WantFrom(s, k, targets)
    \/ \E p \in Peer :
           \/ Connected(p) \/ Disconnected(p)
           \/ Queue(p) \/ SendFails(p)
           \/ \E m \in late[p] : LateMsg(p, m)

Spec == Init /\ [][Next]_vars

\* Every queue has a goroutine of its own, and its sends end.
FairSpec == Spec /\ \A p \in Peer : WF_vars(Queue(p))

(***************************************************************************)
(* Properties.                                                             *)
(***************************************************************************)

\* Once everything is sent, a connected peer knows exactly the keys that its
\* queue holds for it: combining messages, and the choice of what to say
\* again, lose nothing and leave nothing behind.  Only a message that could
\* not be sent, or one of a stopped queue that comes late, leaves the peer
\* with another wantlist, until it gets a full one.
PeersInSync ==
    \A p \in peers \ lost :
        Empty(out[p]) /\ sending[p] = Nil => remote[p] = Wants(p)

\* The sessions that asked for a key by broadcast are known to every queue,
\* so that the key stays wanted until the last of them cancels it; and no
\* queue holds a session that no longer wants the key, so that the cancel
\* goes out when the last one does.
SessionsTracked ==
    \A p \in peers, k \in Key :
        asked[k] \subseteq track[p][k] /\ track[p][k] \subseteq track["wl"][k]

\* The work signal is never lost: a queue that has something to say has its
\* signal, or gets to it when it is done with what it is sending.
WorkSignalled == \A p \in peers : ~Empty(out[p]) => p \in work

\* A key that a session asks for by broadcast gets to every connected peer,
\* unless it is cancelled, the peer leaves, or a message to it is lost.
WantIsTold ==
    \A p \in Peer, k \in Key :
        (p \in peers /\ asked[k] # {})
            ~> (k \in remote[p] \/ p \notin peers \/ p \in lost \/ asked[k] = {})
============================================================================
