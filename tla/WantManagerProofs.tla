------------------------- MODULE WantManagerProofs -------------------------
(***************************************************************************)
(* What holds of WantManager for any peers, keys and sessions: no session  *)
(* is lost from the lists that share entries, no work signal is lost, and  *)
(* combining messages leaves every peer with the wantlist its queue holds. *)
(***************************************************************************)
EXTENDS WantManager, TLAPS

(***************************************************************************)
(* Messages.                                                               *)
(***************************************************************************)

\* What the peer knows after message m, if there is one.
Told(known, m) == IF m = Nil THEN known ELSE Received(known, m)

IsFull(m) == m # Nil /\ m.full = "full"

\* AddEntry and Cancel change what a message says of one key only.
LEMMA MessageOps ==
    ASSUME NEW m \in Message, NEW k \in Key
    PROVE  /\ AddEntry(m, k) \in Message
           /\ AddEntry(m, k).full = m.full
           /\ AddEntry(m, k).want = m.want \cup {k}
           /\ AddEntry(m, k).cancel = m.cancel \ {k}
           /\ Cancel(m, k) \in Message
           /\ Cancel(m, k).full = m.full
           /\ Cancel(m, k).want = m.want \ {k}
           /\ Cancel(m, k).cancel = m.cancel \cup {k}
BY Zenon DEF Message, AddEntry, Cancel

\* The message a queue holds says what out says, and nothing if out is nil.
LEMMA HeldMessage ==
    ASSUME NEW p \in Peer, out[p] \in Message \cup {Nil}
    PROVE  /\ Held(p) \in Message
           /\ IsFull(Held(p)) <=> IsFull(out[p])
           /\ Empty(Held(p)) <=> Empty(out[p])
           /\ \A known \in SUBSET Key : Received(known, Held(p)) = Told(known, out[p])
<1>1. CASE out[p] = Nil
    <2> DEFINE blank == [full |-> "update", want |-> {}, cancel |-> {}]
    <2>1. Held(p) = blank /\ blank \in Message
        BY Zenon, <1>1 DEF Held, Message
    <2>2. blank # Nil
        BY Zenon, <2>1, WantManagerAssumption
    <2>3. blank.full = "update" /\ blank.want = {} /\ blank.cancel = {}
        OBVIOUS
    <2> HIDE DEF blank
    <2> QED
        BY Zenon, <1>1, <2>1, <2>2, <2>3 DEF IsFull, Empty, Received, Told
<1>2. CASE out[p] # Nil
    BY Zenon, <1>2 DEF Held, IsFull, Empty, Told
<1> QED
    BY Zenon, <1>1, <1>2

\* After AddEntry a peer knows the key, after Cancel it does not, and of the
\* other keys it knows what it knew without.
LEMMA ReceivedOps ==
    ASSUME NEW m \in Message, NEW k \in Key, NEW known \in SUBSET Key
    PROVE  /\ Received(known, AddEntry(m, k)) = Received(known, m) \cup {k}
           /\ Received(known, Cancel(m, k)) = Received(known, m) \ {k}
           /\ Received(known, m) \in SUBSET Key
           /\ ~Empty(AddEntry(m, k)) /\ ~Empty(Cancel(m, k))
           /\ IsFull(AddEntry(m, k)) <=> IsFull(m)
           /\ IsFull(Cancel(m, k)) <=> IsFull(m)
<1> DEFINE a == AddEntry(m, k)
           c == Cancel(m, k)
<1>1. /\ a \in Message /\ a.full = m.full
      /\ a.want = m.want \cup {k} /\ a.cancel = m.cancel \ {k}
    BY Zenon, MessageOps
<1>2. /\ c \in Message /\ c.full = m.full
      /\ c.want = m.want \ {k} /\ c.cancel = m.cancel \cup {k}
    BY Zenon, MessageOps
<1>3. a # Nil /\ c # Nil /\ m # Nil
    BY Zenon, <1>1, <1>2, WantManagerAssumption
<1>4. m.want \in SUBSET Key /\ m.cancel \in SUBSET Key
    BY Zenon DEF Message
<1> HIDE DEF a, c
<1>5. Received(known, a) = Received(known, m) \cup {k}
    BY Zenon, <1>1, <1>4 DEF Received
<1>6. Received(known, c) = Received(known, m) \ {k}
    BY Zenon, <1>2, <1>4 DEF Received
<1>7. Received(known, m) \in SUBSET Key
    BY Zenon, <1>4 DEF Received
<1>8. ~Empty(a) /\ ~Empty(c)
    BY Zenon, <1>1, <1>2, <1>3 DEF Empty
<1>9. (IsFull(a) <=> IsFull(m)) /\ (IsFull(c) <=> IsFull(m))
    BY Zenon, <1>1, <1>2, <1>3 DEF IsFull
<1> QED
    BY Zenon, <1>5, <1>6, <1>7, <1>8, <1>9 DEF a, c

\* The type of what a queue holds.
LEMMA OutType ==
    ASSUME TypeOK, NEW p \in Peer
    PROVE  out[p] \in Message \cup {Nil}
BY Zenon DEF TypeOK

\* addMessage at the peers in P: the other queues are left alone, no queue
\* starts or ends with a full wantlist, and a queue that got something to say
\* is signalled.
Queued(P) ==
    /\ out' \in [Peer -> Message \cup {Nil}]
    /\ work \subseteq work' /\ work' \subseteq peers
    /\ \A p \in Peer : /\ IsFull(out'[p]) <=> IsFull(out[p])
                       /\ p \notin P => out'[p] = out[p]
                       /\ ~Empty(out'[p]) => p \in work' \/ ~Empty(out[p])

\* After what is held for it, a peer in P knows key k as well.
TellsWant(P, k) ==
    \A p \in P, known \in SUBSET Key :
        Told(known, out'[p]) = IF track[p][k] = {} THEN Told(known, out[p]) \cup {k}
                                                   ELSE Told(known, out[p])

\* After what is held for it, a peer in P whose list had only session s for k
\* no longer knows k.
TellsCancel(P, k, s) ==
    \A p \in P, known \in SUBSET Key :
        Told(known, out'[p]) = IF track[p][k] # {} /\ track[p][k] \subseteq {s}
                               THEN Told(known, out[p]) \ {k}
                               ELSE Told(known, out[p])

\* addMessage for a want says the key to the peers whose list is new to it,
\* and signals their queues; nothing else changes for any peer.
LEMMA AddWantSays ==
    ASSUME TypeOK, NEW P \in SUBSET peers, NEW k \in Key, AddWant(P, k)
    PROVE  /\ Queued(P)
           /\ TellsWant(P, k)
<1> DEFINE told == {p \in P : track[p][k] = {}}
<1>1. /\ out' = [p \in Peer |-> IF p \in told THEN AddEntry(Held(p), k)
                                ELSE IF p \in P THEN Held(p)
                                ELSE out[p]]
      /\ work' = work \cup told
    BY Zenon DEF AddWant
<1>2. told \subseteq P /\ P \subseteq peers /\ peers \subseteq Peer /\ work \subseteq peers
    BY Zenon DEF peers, TypeOK
<1>3. \A p \in Peer : p \in told <=> p \in P /\ track[p][k] = {}
    OBVIOUS
<1> HIDE DEF told
<1>4. ASSUME NEW p \in Peer
      PROVE  /\ out'[p] \in Message \cup {Nil}
             /\ IsFull(out'[p]) <=> IsFull(out[p])
             /\ p \notin P => out'[p] = out[p]
             /\ ~Empty(out'[p]) => p \in work' \/ ~Empty(out[p])
             /\ \A known \in SUBSET Key :
                    Told(known, out'[p]) = IF p \in told
                                           THEN Told(known, out[p]) \cup {k}
                                           ELSE Told(known, out[p])
    <2>1. out[p] \in Message \cup {Nil} /\ Held(p) \in Message
        BY Zenon, OutType, HeldMessage
    <2>2. CASE p \in told
        <3>1. out'[p] = AddEntry(Held(p), k) /\ p \in work' /\ p \in P
            BY Zenon, <1>1, <1>2, <2>2
        <3>2. out'[p] \in Message /\ out'[p] # Nil
            BY <2>1, <3>1, MessageOps, WantManagerAssumption
        <3>3. IsFull(out'[p]) <=> IsFull(out[p])
            BY <2>1, <3>1, ReceivedOps, HeldMessage
        <3>4. ASSUME NEW known \in SUBSET Key
              PROVE  Told(known, out'[p]) = Told(known, out[p]) \cup {k}
            <4>1. Told(known, out'[p]) = Received(known, AddEntry(Held(p), k))
                BY Zenon, <3>1, <3>2 DEF Told
            <4> QED
                BY <4>1, <2>1, ReceivedOps, HeldMessage
        <3> QED
            BY Zenon, <2>2, <3>1, <3>2, <3>3, <3>4
    <2>3. CASE p \notin told /\ p \in P
        <3>1. out'[p] = Held(p)
            BY Zenon, <1>1, <2>3
        <3>2. out'[p] # Nil
            BY Zenon, <2>1, <3>1, WantManagerAssumption
        <3>3. \A known \in SUBSET Key : Told(known, out'[p]) = Received(known, Held(p))
            BY Zenon, <3>1, <3>2 DEF Told
        <3> QED
            BY Zenon, <2>1, <2>3, <3>1, <3>3, HeldMessage
    <2>4. CASE p \notin P
        BY Zenon, <1>1, <1>2, <2>1, <2>4
    <2> QED
        BY Zenon, <2>2, <2>3, <2>4
<1>5. out' \in [Peer -> Message \cup {Nil}]
    <2>1. out' = [p \in Peer |-> out'[p]]
        BY Zenon, <1>1
    <2> QED
        BY Zenon, <2>1, <1>4
<1>6. Queued(P)
    BY Zenon, <1>1, <1>2, <1>4, <1>5 DEF Queued
<1>7. \A p \in P : p \in Peer
    BY Zenon, <1>2
<1> QED
    BY Zenon, <1>3, <1>4, <1>6, <1>7 DEF TellsWant

\* addMessage for a cancel says it to the peers whose list has no other
\* session left, and signals their queues.
LEMMA AddCancelSays ==
    ASSUME TypeOK, NEW P \in SUBSET peers, NEW k \in Key, NEW s, AddCancel(P, k, s)
    PROVE  /\ Queued(P)
           /\ TellsCancel(P, k, s)
<1> DEFINE told == {p \in P : track[p][k] # {} /\ track[p][k] \subseteq {s}}
<1>1. /\ out' = [p \in Peer |-> IF p \in told THEN Cancel(Held(p), k)
                                ELSE IF p \in P THEN Held(p)
                                ELSE out[p]]
      /\ work' = work \cup told
    BY Zenon DEF AddCancel
<1>2. told \subseteq P /\ P \subseteq peers /\ peers \subseteq Peer /\ work \subseteq peers
    BY Zenon DEF peers, TypeOK
<1>3. \A p \in Peer : p \in told <=> p \in P /\ track[p][k] # {} /\ track[p][k] \subseteq {s}
    OBVIOUS
<1> HIDE DEF told
<1>4. ASSUME NEW p \in Peer
      PROVE  /\ out'[p] \in Message \cup {Nil}
             /\ IsFull(out'[p]) <=> IsFull(out[p])
             /\ p \notin P => out'[p] = out[p]
             /\ ~Empty(out'[p]) => p \in work' \/ ~Empty(out[p])
             /\ \A known \in SUBSET Key :
                    Told(known, out'[p]) = IF p \in told
                                           THEN Told(known, out[p]) \ {k}
                                           ELSE Told(known, out[p])
    <2>1. out[p] \in Message \cup {Nil} /\ Held(p) \in Message
        BY Zenon, OutType, HeldMessage
    <2>2. CASE p \in told
        <3>1. out'[p] = Cancel(Held(p), k) /\ p \in work' /\ p \in P
            BY Zenon, <1>1, <1>2, <2>2
        <3>2. out'[p] \in Message /\ out'[p] # Nil
            BY <2>1, <3>1, MessageOps, WantManagerAssumption
        <3>3. IsFull(out'[p]) <=> IsFull(out[p])
            BY <2>1, <3>1, ReceivedOps, HeldMessage
        <3>4. ASSUME NEW known \in SUBSET Key
              PROVE  Told(known, out'[p]) = Told(known, out[p]) \ {k}
            <4>1. Told(known, out'[p]) = Received(known, Cancel(Held(p), k))
                BY Zenon, <3>1, <3>2 DEF Told
            <4> QED
                BY <4>1, <2>1, ReceivedOps, HeldMessage
        <3> QED
            BY Zenon, <2>2, <3>1, <3>2, <3>3, <3>4
    <2>3. CASE p \notin told /\ p \in P
        <3>1. out'[p] = Held(p)
            BY Zenon, <1>1, <2>3
        <3>2. out'[p] # Nil
            BY Zenon, <2>1, <3>1, WantManagerAssumption
        <3>3. \A known \in SUBSET Key : Told(known, out'[p]) = Received(known, Held(p))
            BY Zenon, <3>1, <3>2 DEF Told
        <3> QED
            BY Zenon, <2>1, <2>3, <3>1, <3>3, HeldMessage
    <2>4. CASE p \notin P
        BY Zenon, <1>1, <1>2, <2>1, <2>4
    <2> QED
        BY Zenon, <2>2, <2>3, <2>4
<1>5. out' \in [Peer -> Message \cup {Nil}]
    <2>1. out' = [p \in Peer |-> out'[p]]
        BY Zenon, <1>1
    <2> QED
        BY Zenon, <2>1, <1>4
<1>6. Queued(P)
    BY Zenon, <1>1, <1>2, <1>4, <1>5 DEF Queued
<1>7. \A p \in P : p \in Peer
    BY Zenon, <1>2
<1> QED
    BY Zenon, <1>3, <1>4, <1>6, <1>7 DEF TellsCancel

(***************************************************************************)
(* The inductive invariant.                                                *)
(***************************************************************************)

\* Lists that share the entry of a key with the broadcast list hold the same
\* sessions for it.
Shares ==
    \A k \in Key :
        /\ track["bcwl"][k] # {} => "bcwl" \in shared[k]
        /\ \A l \in shared[k] : /\ track["bcwl"][k] # {}
                                /\ track[l][k] = track["bcwl"][k]

\* The broadcast list holds the sessions that broadcast, and the whole list
\* holds all of the broadcast list.
Tracks ==
    \A k \in Key : /\ asked[k] \subseteq track["bcwl"][k]
                   /\ track["bcwl"][k] \subseteq track["wl"][k]

\* A peer without a queue has nothing to be told; a full wantlist is the
\* first message of its queue, and finds the peer knowing nothing unless a
\* late message got there before.
Quiet ==
    \A p \in Peer :
        /\ p \notin peers => out[p] = Nil /\ sending[p] = Nil
        /\ IsFull(out[p]) => sending[p] = Nil
        /\ p \notin lost /\ (p \notin peers \/ IsFull(out[p])) => remote[p] = {}

\* What the peer knows once it has received what is being sent and what is
\* held for it is what its queue wants.
Informed ==
    \A p \in peers :
        p \notin lost \/ IsFull(out[p]) \/ IsFull(sending[p]) =>
            Told(Told(remote[p], sending[p]), out[p]) = Wants(p)

WantInv ==
    /\ TypeOK
    /\ Shares
    /\ Tracks
    /\ SessionsTracked
    /\ WorkSignalled
    /\ Quiet
    /\ Informed

\* A new want manager has no wants and no peers.
LEMMA WantInit == Init => WantInv
<1> SUFFICES ASSUME Init
             PROVE  WantInv
    OBVIOUS
<1>1. peers = {}
    BY DEF Init, peers
<1>2. 0 \in 0..MaxEvents
    BY WantManagerAssumption
<1>3. TypeOK
    BY Zenon, <1>1, <1>2 DEF Init, TypeOK
<1>4. \A k \in Key : track["bcwl"][k] = {} /\ track["wl"][k] = {}
    BY Zenon DEF Init, List
<1>5. Shares /\ Tracks
    BY Zenon, <1>4 DEF Init, Shares, Tracks
<1>6. \A p \in Peer : out[p] = Nil /\ sending[p] = Nil /\ remote[p] = {}
    BY Zenon DEF Init
<1> QED
    BY Zenon, <1>1, <1>3, <1>5, <1>6
    DEF WantInv, SessionsTracked, WorkSignalled, Quiet, Informed, IsFull

\* T is track with session s added for k, to the lists in L and to those that
\* share the entry of one of them.
Adds(T, L, k, s) ==
    /\ T \in [List -> [Key -> SUBSET Session]]
    /\ \A l \in List, j \in Key :
           T[l][j] = IF j = k /\ (l \in L \/ (L \cap shared[k] # {} /\ l \in shared[k]))
                     THEN track[l][j] \cup {s}
                     ELSE track[l][j]

\* A session that is added to some lists is added to those and to the lists
\* that share the entry of one of them.
LEMMA TrackedAdds ==
    ASSUME TypeOK, NEW STATE L, L \subseteq List, NEW k \in Key, NEW s \in Session
    PROVE  Adds(Tracked(L, k, s), L, k, s)
<1> DEFINE reached == L \cup (IF L \cap shared[k] # {} THEN shared[k] ELSE {})
<1>1. Tracked(L, k, s) = [l \in List |->
                             IF l \in reached THEN [track[l] EXCEPT ![k] = @ \cup {s}]
                                              ELSE track[l]]
    BY Zenon DEF Tracked
<1>2. \A l \in List :
          l \in reached <=> l \in L \/ (L \cap shared[k] # {} /\ l \in shared[k])
    OBVIOUS
<1>3. \A l \in List : track[l] \in [Key -> SUBSET Session]
    BY Zenon DEF TypeOK
<1> HIDE DEF reached
<1>4. ASSUME NEW l \in List
      PROVE  /\ Tracked(L, k, s)[l] \in [Key -> SUBSET Session]
             /\ \A j \in Key : Tracked(L, k, s)[l][j] = IF j = k /\ l \in reached
                                                       THEN track[l][j] \cup {s}
                                                       ELSE track[l][j]
    <2>1. CASE l \in reached
        <3>1. Tracked(L, k, s)[l] = [track[l] EXCEPT ![k] = @ \cup {s}]
            BY Zenon, <1>1, <2>1
        <3>2. Tracked(L, k, s)[l] \in [Key -> SUBSET Session]
            BY <1>3, <3>1
        <3>3. \A j \in Key : Tracked(L, k, s)[l][j] = IF j = k THEN track[l][j] \cup {s}
                                                             ELSE track[l][j]
            BY Zenon, <1>3, <3>1
        <3> QED
            BY Zenon, <2>1, <3>2, <3>3
    <2>2. CASE l \notin reached
        BY Zenon, <1>1, <1>3, <2>2
    <2> QED
        BY Zenon, <2>1, <2>2
<1>5. Tracked(L, k, s) = [l \in List |-> Tracked(L, k, s)[l]]
    BY Zenon, <1>1
<1>6. Tracked(L, k, s) \in [List -> [Key -> SUBSET Session]]
    BY Zenon, <1>4, <1>5
<1> QED
    BY Zenon, <1>2, <1>4, <1>6 DEF Adds

\* The cancel of a session takes it off every list.
LEMMA CancelFacts ==
    ASSUME TypeOK, NEW k \in Key, NEW s \in Session,
           track' = [l \in List |-> [track[l] EXCEPT ![k] = @ \ {s}]]
    PROVE  /\ track' \in [List -> [Key -> SUBSET Session]]
           /\ \A l \in List, j \in Key :
                  track'[l][j] = IF j = k THEN track[l][j] \ {s} ELSE track[l][j]
<1>1. \A l \in List : track[l] \in [Key -> SUBSET Session]
    BY Zenon DEF TypeOK
<1> QED
    BY Zenon, <1>1

\* What a peer knows is a set of keys.
LEMMA ToldType ==
    ASSUME TypeOK, NEW p \in Peer
    PROVE  Told(remote[p], sending[p]) \in SUBSET Key
<1>1. remote[p] \in SUBSET Key /\ sending[p] \in Message \cup {Nil}
    BY Zenon DEF TypeOK
<1>2. ASSUME sending[p] \in Message
      PROVE  Received(remote[p], sending[p]) \in SUBSET Key
    <2>1. sending[p].want \in SUBSET Key
        BY Zenon, <1>2 DEF Message
    <2> QED
        BY Zenon, <1>1, <2>1 DEF Received
<1> QED
    BY Zenon, <1>1, <1>2 DEF Told

\* A request keeps the queues in step when what it says to a peer is what
\* it changes of the peer's list.
LEMMA RequestKeeps ==
    ASSUME WantInv, UNCHANGED <<refcnt, sending, remote, lost>>,
           NEW P \in SUBSET peers, Queued(P),
           \A p \in peers : \A known \in SUBSET Key :
               Told(known, out[p]) = Wants(p) => Told(known, out'[p]) = Wants(p)'
    PROVE  WorkSignalled' /\ Quiet' /\ Informed'
<1>1. peers' = peers /\ peers \subseteq Peer
    BY Zenon DEF peers
<1> USE DEF Queued
<1>2. WorkSignalled'
    <2> SUFFICES ASSUME NEW p \in peers, ~Empty(out'[p])
                 PROVE  p \in work'
        BY Zenon, <1>1 DEF WorkSignalled, Empty
    <2> QED
        BY Zenon, <1>1 DEF WantInv, WorkSignalled
<1>3. Quiet'
    BY Zenon, <1>1 DEF WantInv, Quiet, IsFull
<1>4. Informed'
    <2> SUFFICES ASSUME NEW p \in peers,
                        p \notin lost \/ IsFull(out[p]) \/ IsFull(sending[p])
                 PROVE  Told(Told(remote[p], sending[p]), out'[p]) = Wants(p)'
        BY Zenon, <1>1 DEF Informed, IsFull, Told, Received
    <2>1. Told(Told(remote[p], sending[p]), out[p]) = Wants(p)
        BY Zenon DEF WantInv, Informed
    <2>2. Told(remote[p], sending[p]) \in SUBSET Key
        BY Zenon, <1>1, ToldType DEF WantInv
    <2> QED
        BY Zenon, <2>1, <2>2
<1> QED
    BY Zenon, <1>2, <1>3, <1>4

\* The list of a peer is one of the lists, and not one of the node's own.
LEMMA Lists ==
    /\ "bcwl" \in List /\ "wl" \in List /\ Peer \subseteq List
    /\ "bcwl" \notin Peer /\ "wl" \notin Peer
    /\ peers \subseteq Peer
BY Zenon, WantManagerAssumption DEF List, peers

\* WantBlocks as a broadcast: every list gets the session, and every peer
\* whose list is new to the key is told.
LEMMA WantBroadcastStep ==
    ASSUME WantInv, NEW s \in Session, NEW k \in Key, WantBroadcast(s, k)
    PROVE  WantInv'
<1> DEFINE L == {"bcwl", "wl"} \cup peers
<1> USE Lists
<1>1. TypeOK /\ L \subseteq List /\ peers' = peers
    BY Zenon DEF WantInv, WantBroadcast, peers
<1>2. /\ track' \in [List -> [Key -> SUBSET Session]]
      /\ \A l \in List, j \in Key :
             track'[l][j] = IF j = k /\ (l \in L \/ l \in shared[k])
                            THEN track[l][j] \cup {s} ELSE track[l][j]
    <2>1. track' = Tracked(L, k, s)
        BY Zenon DEF WantBroadcast
    <2>2. shared[k] # {} => "bcwl" \in L \cap shared[k]
        BY Zenon DEF WantInv, Shares
    <2>3. \A l \in List : l \in shared[k] => L \cap shared[k] # {}
        BY Zenon, <2>2
    <2> HIDE DEF L
    <2>4. Adds(Tracked(L, k, s), L, k, s)
        BY Zenon, <1>1, TrackedAdds
    <2> QED
        BY Zenon, <2>1, <2>3, <2>4 DEF Adds
<1>3. /\ shared' \in [Key -> SUBSET List]
      /\ \A j \in Key : j # k => shared'[j] = shared[j]
      /\ track["bcwl"][k] # {} => shared'[k] = shared[k]
      /\ track["bcwl"][k] = {} /\ track["wl"][k] # {} => shared'[k] = {"bcwl"}
      /\ track["bcwl"][k] = {} /\ track["wl"][k] = {} => shared'[k] = {"bcwl", "wl"}
    BY Zenon, <1>1 DEF TypeOK, WantBroadcast
<1>4. asked' = [asked EXCEPT ![k] = @ \cup {s}] /\ asked' \in [Key -> SUBSET Session]
    BY Zenon, <1>1 DEF TypeOK, WantBroadcast
<1>5. UNCHANGED <<refcnt, sending, late, remote, lost>> /\ AddWant(peers, k)
    BY Zenon DEF WantBroadcast
<1>6. TypeOK'
    <2>1. events' \in 0..MaxEvents
        BY <1>1, WantManagerAssumption DEF TypeOK, WantBroadcast, Event
    <2>2. out' \in [Peer -> Message \cup {Nil}] /\ work' \subseteq peers
        BY Zenon, <1>1, <1>5, AddWantSays DEF Queued
    <2> QED
        BY Zenon, <1>1, <1>2, <1>3, <1>4, <1>5, <2>1, <2>2 DEF TypeOK
<1>7. Shares'
    <2> SUFFICES ASSUME NEW j \in Key
                 PROVE  /\ track'["bcwl"][j] # {} => "bcwl" \in shared'[j]
                        /\ \A l \in shared'[j] : /\ track'["bcwl"][j] # {}
                                                 /\ track'[l][j] = track'["bcwl"][j]
        BY Zenon DEF Shares
    <2>1. shared'[j] \subseteq List /\ shared[j] \subseteq List
        BY Zenon, <1>1, <1>3 DEF TypeOK
    <2>2. CASE j # k
        <3>1. \A l \in List : track'[l][j] = track[l][j]
            BY Zenon, <1>2, <2>2
        <3>2. shared'[j] = shared[j]
            BY Zenon, <1>3, <2>2
        <3>3. /\ track["bcwl"][j] # {} => "bcwl" \in shared[j]
              /\ \A l \in shared[j] : /\ track["bcwl"][j] # {}
                                      /\ track[l][j] = track["bcwl"][j]
            BY Zenon DEF WantInv, Shares
        <3> QED
            BY <2>1, <3>1, <3>2, <3>3
    <2>3. CASE j = k /\ track["bcwl"][k] # {}
        <3>1. "bcwl" \in shared[k]
              /\ \A l \in shared[k] : track[l][k] = track["bcwl"][k]
            BY Zenon, <2>3 DEF WantInv, Shares
        <3>2. \A l \in shared[k] : track'[l][k] = track[l][k] \cup {s}
            BY Zenon, <1>2, <2>1, <2>3
        <3> QED
            BY ZenonT(30), <1>3, <2>3, <3>1, <3>2
    <2>4. CASE j = k /\ track["bcwl"][k] = {}
        <3>1. track'["bcwl"][k] = {s} /\ (track["wl"][k] = {} => track'["wl"][k] = {s})
            BY Zenon, <1>2, <2>4
        <3> QED
            BY Zenon, <1>3, <2>4, <3>1
    <2> QED
        BY Zenon, <2>2, <2>3, <2>4
<1>8. Tracks'
    <2> SUFFICES ASSUME NEW j \in Key
                 PROVE  /\ asked'[j] \subseteq track'["bcwl"][j]
                        /\ track'["bcwl"][j] \subseteq track'["wl"][j]
        BY Zenon DEF Tracks
    <2>1. asked[j] \subseteq track["bcwl"][j] /\ track["bcwl"][j] \subseteq track["wl"][j]
        BY Zenon DEF WantInv, Tracks
    <2>2. asked'[j] = IF j = k THEN asked[j] \cup {s} ELSE asked[j]
        BY Zenon, <1>1, <1>4 DEF TypeOK
    <2> QED
        BY Zenon, <1>2, <2>1, <2>2
<1>9. SessionsTracked'
    <2> SUFFICES ASSUME NEW p \in peers, NEW j \in Key
                 PROVE  asked'[j] \subseteq track'[p][j] /\ track'[p][j] \subseteq track'["wl"][j]
        BY Zenon, <1>1 DEF SessionsTracked
    <2>1. asked[j] \subseteq track[p][j] /\ track[p][j] \subseteq track["wl"][j]
        BY Zenon DEF WantInv, SessionsTracked
    <2>2. asked'[j] = IF j = k THEN asked[j] \cup {s} ELSE asked[j]
        BY Zenon, <1>1, <1>4 DEF TypeOK
    <2> QED
        BY ZenonT(30), <1>2, <2>1, <2>2
<1>10. ASSUME NEW p \in peers, NEW known \in SUBSET Key,
              Told(known, out[p]) = Wants(p)
       PROVE  Told(known, out'[p]) = Wants(p)'
    <2>1. \A j \in Key : track'[p][j] = IF j = k THEN track[p][j] \cup {s} ELSE track[p][j]
        BY Zenon, <1>2
    <2>2. Wants(p)' = Wants(p) \cup {k}
        BY Zenon, <2>1 DEF Wants
    <2>3. track[p][k] # {} => k \in Wants(p)
        BY Zenon DEF Wants
    <2>4. Told(known, out'[p]) = IF track[p][k] = {} THEN Told(known, out[p]) \cup {k}
                                                     ELSE Told(known, out[p])
        <3>1. TellsWant(peers, k)
            BY Zenon, <1>1, <1>5, AddWantSays
        <3> QED
            BY Zenon, <3>1 DEF TellsWant
    <2> QED
        BY Zenon, <1>10, <2>2, <2>3, <2>4
<1>11. WorkSignalled' /\ Quiet' /\ Informed'
    <2>1. Queued(peers)
        BY Zenon, <1>1, <1>5, AddWantSays
    <2> QED
        BY Zenon, <1>5, <1>10, <2>1, RequestKeeps
<1> QED
    BY Zenon, <1>6, <1>7, <1>8, <1>9, <1>11 DEF WantInv

\* WantBlocks for some peers: the session is added to the whole list and to
\* the lists of those peers, and through a shared entry to other lists, which
\* want the key already.
LEMMA WantFromStep ==
    ASSUME WantInv, NEW s \in Session, NEW k \in Key, NEW targets \in SUBSET Peer,
           WantFrom(s, k, targets)
    PROVE  WantInv'
<1> DEFINE P == targets \cap peers
           L == {"wl"} \cup P
<1> USE Lists
<1>1. /\ TypeOK /\ L \subseteq List /\ "wl" \in L /\ P \in SUBSET peers /\ P \subseteq L
      /\ peers' = peers /\ "bcwl" \notin L
    BY Zenon DEF WantInv, WantFrom, peers
<1>2. UNCHANGED <<shared, refcnt, sending, late, remote, asked, lost>> /\ AddWant(P, k)
    BY Zenon DEF WantFrom
<1>3. track' = Tracked(L, k, s)
    BY Zenon DEF WantFrom
<1>4. \A p \in peers : p \in L <=> p \in P
    OBVIOUS
<1> HIDE DEF P, L
<1>5. Adds(track', L, k, s)
    BY Zenon, <1>1, <1>3, TrackedAdds
<1> DEFINE joined == L \cap shared[k] # {}
<1>6. \A l \in List, j \in Key :
          track'[l][j] = IF j = k /\ (l \in L \/ (joined /\ l \in shared[k]))
                         THEN track[l][j] \cup {s} ELSE track[l][j]
    BY Zenon, <1>5 DEF Adds
<1>7. \A j \in Key :
          /\ shared[j] \subseteq List
          /\ track["bcwl"][j] # {} => "bcwl" \in shared[j]
          /\ \A l \in shared[j] : /\ track["bcwl"][j] # {}
                                  /\ track[l][j] = track["bcwl"][j]
    BY Zenon, <1>1 DEF WantInv, Shares, TypeOK
<1>8. \A l \in L \cap shared[k] : joined
    OBVIOUS
<1> HIDE DEF joined
<1>9. TypeOK'
    <2>1. events' \in 0..MaxEvents
        BY <1>1, WantManagerAssumption DEF TypeOK, WantFrom, Event
    <2>2. out' \in [Peer -> Message \cup {Nil}] /\ work' \subseteq peers
        BY Zenon, <1>1, <1>2, AddWantSays DEF Queued
    <2> QED
        BY Zenon, <1>1, <1>2, <1>5, <2>1, <2>2 DEF TypeOK, Adds
<1>10. Shares'
    <2> SUFFICES ASSUME NEW j \in Key
                 PROVE  /\ track'["bcwl"][j] # {} => "bcwl" \in shared[j]
                        /\ \A l \in shared[j] : /\ track'["bcwl"][j] # {}
                                                /\ track'[l][j] = track'["bcwl"][j]
        BY Zenon, <1>2 DEF Shares
    <2>1. \A l \in shared[j] : /\ "bcwl" \in shared[j]
                               /\ track'[l][j] = IF j = k /\ joined THEN track[l][j] \cup {s}
                                                                  ELSE track[l][j]
        BY Zenon, <1>6, <1>7, <1>8
    <2>2. "bcwl" \notin shared[j] => track'["bcwl"][j] = track["bcwl"][j]
        BY Zenon, <1>1, <1>6
    <2> QED
        BY Zenon, <1>7, <2>1, <2>2
<1>11. Tracks'
    <2> SUFFICES ASSUME NEW j \in Key
                 PROVE  /\ asked[j] \subseteq track'["bcwl"][j]
                        /\ track'["bcwl"][j] \subseteq track'["wl"][j]
        BY Zenon, <1>2 DEF Tracks
    <2>1. asked[j] \subseteq track["bcwl"][j] /\ track["bcwl"][j] \subseteq track["wl"][j]
        BY Zenon DEF WantInv, Tracks
    <2> QED
        BY Zenon, <1>1, <1>6, <2>1
<1>12. SessionsTracked'
    <2> SUFFICES ASSUME NEW p \in peers, NEW j \in Key
                 PROVE  asked[j] \subseteq track'[p][j] /\ track'[p][j] \subseteq track'["wl"][j]
        BY Zenon, <1>1, <1>2 DEF SessionsTracked
    <2>1. asked[j] \subseteq track[p][j] /\ track[p][j] \subseteq track["wl"][j]
        BY Zenon DEF WantInv, SessionsTracked
    <2> QED
        BY ZenonT(30), <1>1, <1>6, <2>1
<1>13. ASSUME NEW p \in peers, NEW known \in SUBSET Key,
              Told(known, out[p]) = Wants(p)
       PROVE  Told(known, out'[p]) = Wants(p)'
    <2>1. track[p][k] # {} => k \in Wants(p)
        BY Zenon DEF Wants
    <2>2. CASE p \in P
        <3>1. \A j \in Key : track'[p][j] = IF j = k THEN track[p][j] \cup {s} ELSE track[p][j]
            BY Zenon, <1>1, <1>6, <2>2
        <3>2. Wants(p)' = Wants(p) \cup {k}
            BY Zenon, <3>1 DEF Wants
        <3>3. Told(known, out'[p]) = IF track[p][k] = {} THEN Told(known, out[p]) \cup {k}
                                                         ELSE Told(known, out[p])
            <4>1. TellsWant(P, k)
                BY Zenon, <1>1, <1>2, AddWantSays
            <4> QED
                BY Zenon, <2>2, <4>1 DEF TellsWant
        <3> QED
            BY Zenon, <1>13, <2>1, <3>2, <3>3
    <2>3. CASE p \notin P
        <3>1. \A j \in Key : track'[p][j] # {} <=> track[p][j] # {}
            BY ZenonT(60), <1>4, <1>6, <1>7, <2>3
        <3>2. Wants(p)' = Wants(p)
            BY Zenon, <3>1 DEF Wants
        <3>3. out'[p] = out[p]
            BY Zenon, <1>1, <1>2, <2>3, AddWantSays DEF Queued
        <3> QED
            BY Zenon, <1>13, <3>2, <3>3
    <2> QED
        BY Zenon, <2>2, <2>3
<1>14. WorkSignalled' /\ Quiet' /\ Informed'
    <2>1. Queued(P)
        BY Zenon, <1>1, <1>2, AddWantSays
    <2> QED
        BY Zenon, <1>1, <1>2, <1>13, <2>1, RequestKeeps
<1> QED
    BY Zenon, <1>9, <1>10, <1>11, <1>12, <1>14 DEF WantInv

\* CancelWants: every list loses the session, and every peer whose list has no
\* other is told.
LEMMA CancelWantsStep ==
    ASSUME WantInv, NEW s \in Session, NEW k \in Key, CancelWants(s, k)
    PROVE  WantInv'
<1> USE Lists
<1>1. TypeOK /\ peers' = peers /\ peers \in SUBSET peers
    BY Zenon DEF WantInv, CancelWants, peers
<1>2. UNCHANGED <<refcnt, sending, late, remote, lost>> /\ AddCancel(peers, k, s)
    BY Zenon DEF CancelWants
<1>3. /\ track' \in [List -> [Key -> SUBSET Session]]
      /\ \A l \in List, j \in Key :
             track'[l][j] = IF j = k THEN track[l][j] \ {s} ELSE track[l][j]
    BY Zenon, <1>1, CancelFacts DEF CancelWants
<1>4. /\ shared' \in [Key -> SUBSET List]
      /\ \A j \in Key : shared'[j] = IF j = k /\ track["bcwl"][k] \subseteq {s}
                                     THEN {} ELSE shared[j]
    BY Zenon, <1>1 DEF TypeOK, CancelWants
<1>5. /\ asked' \in [Key -> SUBSET Session]
      /\ \A j \in Key : asked'[j] = IF j = k THEN asked[j] \ {s} ELSE asked[j]
    BY Zenon, <1>1 DEF TypeOK, CancelWants
<1>6. TypeOK'
    <2>1. events' \in 0..MaxEvents
        BY <1>1, WantManagerAssumption DEF TypeOK, CancelWants, Event
    <2>2. out' \in [Peer -> Message \cup {Nil}] /\ work' \subseteq peers
        BY Zenon, <1>1, <1>2, AddCancelSays DEF Queued
    <2> QED
        BY Zenon, <1>1, <1>2, <1>3, <1>4, <1>5, <2>1, <2>2 DEF TypeOK
<1>7. Shares'
    <2> SUFFICES ASSUME NEW j \in Key
                 PROVE  /\ track'["bcwl"][j] # {} => "bcwl" \in shared'[j]
                        /\ \A l \in shared'[j] : /\ track'["bcwl"][j] # {}
                                                 /\ track'[l][j] = track'["bcwl"][j]
        BY Zenon DEF Shares
    <2>1. /\ shared[j] \subseteq List
          /\ track["bcwl"][j] # {} => "bcwl" \in shared[j]
          /\ \A l \in shared[j] : /\ track["bcwl"][j] # {}
                                  /\ track[l][j] = track["bcwl"][j]
        BY Zenon, <1>1 DEF WantInv, Shares, TypeOK
    <2>2. \A l \in List :
              track'[l][j] = IF j = k THEN track[l][j] \ {s} ELSE track[l][j]
        BY Zenon, <1>3
    <2>3. CASE j = k /\ track["bcwl"][k] \subseteq {s}
        <3>1. shared'[j] = {} /\ track'["bcwl"][j] = {}
            BY Zenon, <1>4, <2>2, <2>3
        <3> QED
            BY Zenon, <3>1
    <2>4. CASE ~(j = k /\ track["bcwl"][k] \subseteq {s})
        <3>1. shared'[j] = shared[j]
            BY Zenon, <1>4, <2>4
        <3>2. track["bcwl"][j] # {} => track'["bcwl"][j] # {}
            BY Zenon, <2>2, <2>4
        <3> QED
            BY Zenon, <2>1, <2>2, <3>1, <3>2
    <2> QED
        BY Zenon, <2>3, <2>4
<1>8. Tracks'
    <2> SUFFICES ASSUME NEW j \in Key
                 PROVE  /\ asked'[j] \subseteq track'["bcwl"][j]
                        /\ track'["bcwl"][j] \subseteq track'["wl"][j]
        BY Zenon DEF Tracks
    <2>1. asked[j] \subseteq track["bcwl"][j] /\ track["bcwl"][j] \subseteq track["wl"][j]
        BY Zenon DEF WantInv, Tracks
    <2> QED
        BY Zenon, <1>3, <1>5, <2>1
<1>9. SessionsTracked'
    <2> SUFFICES ASSUME NEW p \in peers, NEW j \in Key
                 PROVE  asked'[j] \subseteq track'[p][j] /\ track'[p][j] \subseteq track'["wl"][j]
        BY Zenon, <1>1 DEF SessionsTracked
    <2>1. asked[j] \subseteq track[p][j] /\ track[p][j] \subseteq track["wl"][j]
        BY Zenon DEF WantInv, SessionsTracked
    <2> QED
        BY ZenonT(60), <1>3, <1>5, <2>1
<1>10. ASSUME NEW p \in peers, NEW known \in SUBSET Key,
              Told(known, out[p]) = Wants(p)
       PROVE  Told(known, out'[p]) = Wants(p)'
    <2>1. \A j \in Key : track'[p][j] = IF j = k THEN track[p][j] \ {s} ELSE track[p][j]
        BY Zenon, <1>3
    <2>2. Told(known, out'[p]) = IF track[p][k] # {} /\ track[p][k] \subseteq {s}
                                 THEN Told(known, out[p]) \ {k}
                                 ELSE Told(known, out[p])
        <3>1. TellsCancel(peers, k, s)
            BY Zenon, <1>1, <1>2, AddCancelSays
        <3> QED
            BY Zenon, <3>1 DEF TellsCancel
    <2>3. CASE track[p][k] # {} /\ track[p][k] \subseteq {s}
        <3>1. Wants(p)' = Wants(p) \ {k}
            BY Zenon, <2>1, <2>3 DEF Wants
        <3> QED
            BY Zenon, <1>10, <2>2, <2>3, <3>1
    <2>4. CASE ~(track[p][k] # {} /\ track[p][k] \subseteq {s})
        <3>1. \A j \in Key : track'[p][j] # {} <=> track[p][j] # {}
            BY Zenon, <2>1, <2>4
        <3>2. Wants(p)' = Wants(p)
            BY Zenon, <3>1 DEF Wants
        <3> QED
            BY Zenon, <1>10, <2>2, <2>4, <3>2
    <2> QED
        BY Zenon, <2>3, <2>4
<1>11. WorkSignalled' /\ Quiet' /\ Informed'
    <2>1. Queued(peers)
        BY Zenon, <1>1, <1>2, AddCancelSays
    <2> QED
        BY Zenon, <1>1, <1>2, <1>10, <2>1, RequestKeeps
<1> QED
    BY Zenon, <1>6, <1>7, <1>8, <1>9, <1>11 DEF WantInv

\* A peer that connects again only counts the connection.
LEMMA ConnectedAgain ==
    ASSUME WantInv, NEW p \in Peer, Connected(p), p \in peers
    PROVE  WantInv'
<1>1. TypeOK /\ UNCHANGED <<track, shared, out, work, sending, late, remote, asked, lost>>
    BY Zenon DEF WantInv, Connected
<1>2. refcnt' \in [Peer -> Nat] /\ peers' = peers
    BY <1>1 DEF Connected, peers, TypeOK
<1>3. events' \in 0..MaxEvents
    BY <1>1, WantManagerAssumption DEF TypeOK, Connected, Event
<1>4. TypeOK'
    BY Zenon, <1>1, <1>2, <1>3 DEF TypeOK
<1> QED
    BY <1>1, <1>2, <1>4
    DEF WantInv, Shares, Tracks, SessionsTracked, WorkSignalled, Quiet, Informed,
        Wants, IsFull, Empty, Told, Received

\* startPeerHandler: the new queue takes over the broadcast list, and holds all
\* of it in a full wantlist.
LEMMA ConnectedFirst ==
    ASSUME WantInv, NEW p \in Peer, Connected(p), p \notin peers
    PROVE  WantInv'
<1> USE Lists
<1> DEFINE first == [full |-> "full", want |-> Wants("bcwl"), cancel |-> {}]
<1>1. TypeOK /\ UNCHANGED <<sending, late, remote, asked, lost>>
    BY Zenon DEF WantInv, Connected
<1>2. refcnt' \in [Peer -> Nat] /\ peers' = peers \cup {p}
    BY <1>1 DEF Connected, peers, TypeOK
<1>3. /\ track' = [track EXCEPT ![p] = track["bcwl"]]
      /\ shared' = [k \in Key |-> IF track["bcwl"][k] # {} THEN shared[k] \cup {p}
                                                         ELSE shared[k]]
      /\ out' = [out EXCEPT ![p] = first]
      /\ work' = work \cup {p}
    BY Zenon DEF Connected
<1>4. first \in Message /\ first # Nil
    <2>1. first \in Message
        BY Zenon DEF Message, Wants
    <2> QED
        BY Zenon, <2>1, WantManagerAssumption
<1>5. first.full = "full" /\ first.want = Wants("bcwl") /\ first.cancel = {}
    OBVIOUS
<1> HIDE DEF first
<1>6. track' \in [List -> [Key -> SUBSET Session]] /\ out' \in [Peer -> Message \cup {Nil}]
    BY Zenon, <1>1, <1>3, <1>4 DEF TypeOK
<1>7. /\ \A l \in List : track'[l] = IF l = p THEN track["bcwl"] ELSE track[l]
      /\ \A q \in Peer : out'[q] = IF q = p THEN first ELSE out[q]
    BY Zenon, <1>1, <1>3 DEF TypeOK
<1>8. TypeOK'
    <2>1. events' \in 0..MaxEvents
        BY <1>1, WantManagerAssumption DEF TypeOK, Connected, Event
    <2>2. shared' \in [Key -> SUBSET List]
        BY Zenon, <1>1, <1>3 DEF TypeOK
    <2>3. work' \subseteq peers'
        BY Zenon, <1>1, <1>2, <1>3 DEF TypeOK
    <2> QED
        BY Zenon, <1>1, <1>2, <1>6, <2>1, <2>2, <2>3 DEF TypeOK
<1>9. Shares'
    <2> SUFFICES ASSUME NEW k \in Key
                 PROVE  /\ track'["bcwl"][k] # {} => "bcwl" \in shared'[k]
                        /\ \A l \in shared'[k] : /\ track'["bcwl"][k] # {}
                                                 /\ track'[l][k] = track'["bcwl"][k]
        BY Zenon DEF Shares
    <2>1. /\ shared[k] \subseteq List
          /\ track["bcwl"][k] # {} => "bcwl" \in shared[k]
          /\ \A l \in shared[k] : /\ track["bcwl"][k] # {}
                                  /\ track[l][k] = track["bcwl"][k]
        BY Zenon, <1>1 DEF WantInv, Shares, TypeOK
    <2>2. shared'[k] = IF track["bcwl"][k] # {} THEN shared[k] \cup {p} ELSE shared[k]
        BY Zenon, <1>3
    <2>3. track'["bcwl"] = track["bcwl"] /\ track'[p] = track["bcwl"]
        BY Zenon, <1>7
    <2> QED
        BY <1>7, <2>1, <2>2, <2>3
<1>10. Tracks'
    BY Zenon, <1>1, <1>7 DEF WantInv, Tracks
<1>11. SessionsTracked'
    <2> SUFFICES ASSUME NEW q \in peers \cup {p}, NEW k \in Key
                 PROVE  asked[k] \subseteq track'[q][k] /\ track'[q][k] \subseteq track'["wl"][k]
        BY Zenon, <1>1, <1>2 DEF SessionsTracked
    <2>1. CASE q = p
        BY Zenon, <1>7, <2>1 DEF WantInv, Tracks
    <2>2. CASE q # p
        BY Zenon, <1>7, <2>2 DEF WantInv, SessionsTracked
    <2> QED
        BY Zenon, <2>1, <2>2
<1>12. WorkSignalled'
    BY Zenon, <1>2, <1>3, <1>7 DEF WantInv, WorkSignalled, Empty
<1>13. Quiet'
    <2> SUFFICES ASSUME NEW q \in Peer
                 PROVE  /\ q \notin peers \cup {p} => out'[q] = Nil /\ sending[q] = Nil
                        /\ IsFull(out'[q]) => sending[q] = Nil
                        /\ q \notin lost /\ (q \notin peers \cup {p} \/ IsFull(out'[q]))
                               => remote[q] = {}
        BY Zenon, <1>1, <1>2 DEF Quiet, IsFull
    <2>1. CASE q = p
        BY Zenon, <2>1 DEF WantInv, Quiet
    <2>2. CASE q # p
        BY Zenon, <1>7, <2>2 DEF WantInv, Quiet
    <2> QED
        BY Zenon, <2>1, <2>2
<1>14. Informed'
    <2> SUFFICES ASSUME NEW q \in peers \cup {p},
                        q \notin lost \/ IsFull(out'[q]) \/ IsFull(sending[q])
                 PROVE  Told(Told(remote[q], sending[q]), out'[q]) = Wants(q)'
        BY Zenon, <1>1, <1>2 DEF Informed, IsFull, Told, Received
    <2>1. CASE q = p
        <3>1. Wants(p)' = Wants("bcwl")
            BY Zenon, <1>7 DEF Wants
        <3>2. \A known \in SUBSET Key : Received(known, first) = Wants("bcwl")
            BY Zenon, <1>5 DEF Received
        <3>3. Told(remote[p], sending[p]) \in SUBSET Key
            BY Zenon, <1>1, ToldType
        <3> QED
            BY Zenon, <1>4, <1>7, <2>1, <3>1, <3>2, <3>3 DEF Told
    <2>2. CASE q # p
        <3>1. out'[q] = out[q] /\ Wants(q)' = Wants(q) /\ q \in peers
            BY Zenon, <1>7, <2>2 DEF Wants
        <3> QED
            BY Zenon, <3>1 DEF WantInv, Informed
    <2> QED
        BY Zenon, <2>1, <2>2
<1> QED
    BY Zenon, <1>8, <1>9, <1>10, <1>11, <1>12, <1>13, <1>14 DEF WantInv

\* A peer that keeps a connection keeps its queue.
LEMMA DisconnectedOnce ==
    ASSUME WantInv, NEW p \in Peer, Disconnected(p), refcnt[p] > 1
    PROVE  WantInv'
<1>1. TypeOK /\ UNCHANGED <<track, shared, out, work, sending, late, remote, asked, lost>>
    BY Zenon DEF WantInv, Disconnected
<1>2. refcnt' \in [Peer -> Nat] /\ peers' = peers
    BY <1>1 DEF Disconnected, peers, TypeOK
<1>3. events' \in 0..MaxEvents
    BY <1>1, WantManagerAssumption DEF TypeOK, Disconnected, Event
<1>4. TypeOK'
    BY Zenon, <1>1, <1>2, <1>3 DEF TypeOK
<1> QED
    BY <1>1, <1>2, <1>4
    DEF WantInv, Shares, Tracks, SessionsTracked, WorkSignalled, Quiet, Informed,
        Wants, IsFull, Empty, Told, Received

\* stopPeerHandler: with the last connection go the list of the peer, its
\* queue, and what the peer knew.
LEMMA DisconnectedLast ==
    ASSUME WantInv, NEW p \in Peer, Disconnected(p), ~(refcnt[p] > 1)
    PROVE  WantInv'
<1> USE Lists
<1>1. TypeOK /\ p \in peers /\ UNCHANGED asked
    BY Zenon DEF WantInv, Disconnected
<1>2. refcnt' \in [Peer -> Nat] /\ peers' = peers \ {p}
    <2>1. refcnt[p] \in Nat /\ refcnt[p] = 1
        BY <1>1 DEF peers, TypeOK
    <2>2. refcnt' = [refcnt EXCEPT ![p] = refcnt[p] - 1]
        BY Zenon DEF Disconnected
    <2>3. refcnt' = [refcnt EXCEPT ![p] = 0]
        BY <2>1, <2>2
    <2> QED
        BY <1>1, <2>3 DEF peers, TypeOK
<1>3. /\ track' = [track EXCEPT ![p] = [k \in Key |-> {}]]
      /\ shared' = [k \in Key |-> shared[k] \ {p}]
      /\ out' = [out EXCEPT ![p] = Nil]
      /\ work' = work \ {p}
      /\ sending' = [sending EXCEPT ![p] = Nil]
      /\ remote' = [remote EXCEPT ![p] = {}]
      /\ lost' = lost \ {p}
    BY Zenon DEF Disconnected
<1>4. /\ \A l \in List : l # p => track'[l] = track[l]
      /\ \A k \in Key : shared'[k] = shared[k] \ {p}
      /\ out'[p] = Nil /\ sending'[p] = Nil /\ remote'[p] = {}
      /\ \A q \in Peer : q # p => /\ out'[q] = out[q]
                                  /\ sending'[q] = sending[q]
                                  /\ remote'[q] = remote[q]
    BY Zenon, <1>1, <1>3 DEF TypeOK
<1>5. TypeOK'
    <2>1. events' \in 0..MaxEvents
        BY <1>1, WantManagerAssumption DEF TypeOK, Disconnected, Event
    <2>2. track' \in [List -> [Key -> SUBSET Session]]
        BY Zenon, <1>1, <1>3 DEF TypeOK
    <2>3. shared' \in [Key -> SUBSET List] /\ lost' \subseteq Peer
        BY Zenon, <1>1, <1>3 DEF TypeOK
    <2>4. out' \in [Peer -> Message \cup {Nil}] /\ sending' \in [Peer -> Message \cup {Nil}]
        BY Zenon, <1>1, <1>3 DEF TypeOK
    <2>5. remote' \in [Peer -> SUBSET Key] /\ work' \subseteq peers'
        BY Zenon, <1>1, <1>2, <1>3 DEF TypeOK
    <2>6. late' \in [Peer -> SUBSET Message]
        <3> DEFINE more == ({sending[p]} \ {Nil})
                           \cup (IF p \in work /\ ~Empty(out[p]) THEN {out[p]} ELSE {})
        <3>1. late' = [late EXCEPT ![p] = @ \cup more]
            BY Zenon DEF Disconnected
        <3>2. ~Empty(out[p]) => out[p] # Nil
            BY Zenon DEF Empty
        <3>3. more \subseteq Message
            BY <1>1, <3>2 DEF TypeOK
        <3> HIDE DEF more
        <3> QED
            BY Zenon, <1>1, <3>1, <3>3 DEF TypeOK
    <2> QED
        BY Zenon, <1>1, <1>2, <2>1, <2>2, <2>3, <2>4, <2>5, <2>6 DEF TypeOK
<1>6. Shares' /\ Tracks'
    <2>1. \A k \in Key : shared[k] \subseteq List
        BY Zenon, <1>1 DEF TypeOK
    <2>2. track'["bcwl"] = track["bcwl"] /\ track'["wl"] = track["wl"]
        BY Zenon, <1>4
    <2> QED
        BY <1>1, <1>4, <2>1, <2>2 DEF WantInv, Shares, Tracks
<1>7. SessionsTracked' /\ WorkSignalled'
    BY <1>1, <1>2, <1>3, <1>4 DEF WantInv, SessionsTracked, WorkSignalled, Empty
<1>8. Quiet'
    <2> SUFFICES ASSUME NEW q \in Peer
                 PROVE  /\ q \notin peers' => out'[q] = Nil /\ sending'[q] = Nil
                        /\ IsFull(out'[q]) => sending'[q] = Nil
                        /\ q \notin lost' /\ (q \notin peers' \/ IsFull(out'[q]))
                               => remote'[q] = {}
        BY Zenon DEF Quiet, IsFull
    <2>1. CASE q = p
        BY Zenon, <1>4, <2>1
    <2>2. CASE q # p
        BY Zenon, <1>2, <1>3, <1>4, <2>2 DEF WantInv, Quiet
    <2> QED
        BY Zenon, <2>1, <2>2
<1>9. Informed'
    <2> SUFFICES ASSUME NEW q \in peers, q # p,
                        q \notin lost' \/ IsFull(out'[q]) \/ IsFull(sending'[q])
                 PROVE  Told(Told(remote'[q], sending'[q]), out'[q]) = Wants(q)'
        BY Zenon, <1>2 DEF Informed, IsFull, Told, Received
    <2>1. Wants(q)' = Wants(q)
        BY Zenon, <1>4 DEF Wants
    <2> QED
        BY Zenon, <1>3, <1>4, <2>1 DEF WantInv, Informed
<1> QED
    BY Zenon, <1>5, <1>6, <1>7, <1>8, <1>9 DEF WantInv

\* The steps of the queues leave the lists alone.
LEMMA ListsKept ==
    ASSUME WantInv, UNCHANGED <<track, shared, refcnt, asked>>
    PROVE  /\ Shares' /\ Tracks' /\ SessionsTracked' /\ peers' = peers
           /\ \A p \in Peer : Wants(p)' = Wants(p)
BY Zenon DEF WantInv, Shares, Tracks, SessionsTracked, peers, Wants

\* A step of the queue of peer p keeps the invariant when it keeps what holds
\* of p, and leaves what is held for the other peers alone.
LEMMA QueueKeeps ==
    ASSUME WantInv, UNCHANGED <<track, shared, refcnt, asked, events>>,
           TypeOK', NEW p \in Peer,
           \A q \in Peer \ {p} :
               /\ out'[q] = out[q] /\ sending'[q] = sending[q] /\ remote'[q] = remote[q]
               /\ q \in lost' <=> q \in lost
               /\ q \in work' <=> q \in work,
           p \in peers /\ ~Empty(out'[p]) => p \in work',
           p \notin peers => out'[p] = Nil /\ sending'[p] = Nil,
           IsFull(out'[p]) => sending'[p] = Nil,
           p \notin lost' /\ (p \notin peers \/ IsFull(out'[p])) => remote'[p] = {},
           p \in peers /\ (p \notin lost' \/ IsFull(out'[p]) \/ IsFull(sending'[p]))
               => Told(Told(remote'[p], sending'[p]), out'[p]) = Wants(p)
    PROVE  WantInv'
<1>1. /\ Shares' /\ Tracks' /\ SessionsTracked' /\ peers' = peers /\ peers \subseteq Peer
      /\ \A q \in Peer : Wants(q)' = Wants(q)
    BY Zenon, ListsKept, Lists
<1>2. WorkSignalled'
    <2> SUFFICES ASSUME NEW q \in peers, ~Empty(out'[q])
                 PROVE  q \in work'
        BY Zenon, <1>1 DEF WorkSignalled, Empty
    <2> QED
        BY Zenon, <1>1 DEF WantInv, WorkSignalled
<1>3. Quiet'
    <2> SUFFICES ASSUME NEW q \in Peer
                 PROVE  /\ q \notin peers => out'[q] = Nil /\ sending'[q] = Nil
                        /\ IsFull(out'[q]) => sending'[q] = Nil
                        /\ q \notin lost' /\ (q \notin peers \/ IsFull(out'[q]))
                               => remote'[q] = {}
        BY Zenon, <1>1 DEF Quiet, IsFull
    <2> QED
        BY Zenon DEF WantInv, Quiet
<1>4. Informed'
    <2> SUFFICES ASSUME NEW q \in peers,
                        q \notin lost' \/ IsFull(out'[q]) \/ IsFull(sending'[q])
                 PROVE  Told(Told(remote'[q], sending'[q]), out'[q]) = Wants(q)
        BY ZenonT(60), <1>1 DEF Informed, IsFull, Told, Received
    <2> QED
        BY Zenon, <1>1 DEF WantInv, Informed
<1> QED
    BY Zenon, <1>1, <1>2, <1>3, <1>4 DEF WantInv

\* What holds of one peer.
LEMMA PeerFacts ==
    ASSUME WantInv, NEW p \in Peer
    PROVE  /\ out[p] \in Message \cup {Nil} /\ sending[p] \in Message \cup {Nil}
           /\ remote[p] \in SUBSET Key
           /\ p \in work => p \in peers
           /\ p \in peers /\ ~Empty(out[p]) => p \in work
           /\ p \notin peers => out[p] = Nil /\ sending[p] = Nil
           /\ IsFull(out[p]) => sending[p] = Nil
           /\ p \notin lost /\ (p \notin peers \/ IsFull(out[p])) => remote[p] = {}
           /\ p \in peers /\ (p \notin lost \/ IsFull(out[p]) \/ IsFull(sending[p]))
                  => Told(Told(remote[p], sending[p]), out[p]) = Wants(p)
BY Zenon DEF WantInv, TypeOK, WorkSignalled, Quiet, Informed

\* doWork takes what is held, and what the peer is to know stays the same.
LEMMA GrabStep ==
    ASSUME WantInv, NEW p \in Peer, Grab(p)
    PROVE  WantInv'
<1>1. /\ UNCHANGED <<track, shared, refcnt, late, remote, asked, lost, events>>
      /\ p \in work /\ sending[p] = Nil /\ work' = work \ {p}
    BY Zenon DEF Grab
<1>2. TypeOK /\ p \in peers
    BY Zenon, <1>1 DEF WantInv, TypeOK
<1>3. CASE Empty(out[p])
    <2>1. UNCHANGED <<out, sending>>
        BY Zenon, <1>3 DEF Grab
    <2>2. TypeOK'
        BY Zenon, <1>1, <1>2, <2>1 DEF TypeOK, peers
    <2> QED
        BY Zenon, <1>1, <1>2, <1>3, <2>1, <2>2, PeerFacts, QueueKeeps
<1>4. CASE ~Empty(out[p])
    <2>1. sending' = [sending EXCEPT ![p] = out[p]] /\ out' = [out EXCEPT ![p] = Nil]
        BY Zenon, <1>4 DEF Grab
    <2>2. /\ sending'[p] = out[p] /\ out'[p] = Nil
          /\ \A q \in Peer \ {p} : out'[q] = out[q] /\ sending'[q] = sending[q]
        BY Zenon, <1>2, <2>1 DEF TypeOK
    <2>3. TypeOK'
        BY Zenon, <1>1, <1>2, <2>1 DEF TypeOK, peers
    <2>4. Told(Told(remote[p], sending'[p]), out'[p]) = Told(Told(remote[p], sending[p]), out[p])
        BY Zenon, <1>1, <2>2 DEF Told
    <2>5. ~IsFull(out'[p]) /\ Empty(out'[p]) /\ (IsFull(sending'[p]) <=> IsFull(out[p]))
        BY Zenon, <2>2 DEF IsFull, Empty
    <2>6. p \notin lost \/ IsFull(sending'[p])
              => Told(Told(remote'[p], sending'[p]), out'[p]) = Wants(p)
        BY Zenon, <1>1, <1>2, <2>4, <2>5, PeerFacts
    <2> QED
        BY Zenon, <1>1, <1>2, <2>2, <2>3, <2>5, <2>6, QueueKeeps
<1> QED
    BY Zenon, <1>3, <1>4

\* The peer receives what was being sent; a full wantlist makes up for what it
\* missed.
LEMMA SendMsgStep ==
    ASSUME WantInv, NEW p \in Peer, SendMsg(p)
    PROVE  WantInv'
<1>1. /\ UNCHANGED <<track, shared, refcnt, out, work, late, asked, events>>
      /\ sending[p] # Nil
      /\ remote' = [remote EXCEPT ![p] = Received(remote[p], sending[p])]
      /\ sending' = [sending EXCEPT ![p] = Nil]
      /\ lost' = IF sending[p].full = "full" THEN lost \ {p} ELSE lost
    BY Zenon DEF SendMsg
<1>2. TypeOK /\ p \in peers /\ ~IsFull(out[p])
    BY Zenon, <1>1, PeerFacts DEF WantInv
<1>3. /\ sending'[p] = Nil /\ remote'[p] = Received(remote[p], sending[p])
      /\ \A q \in Peer \ {p} : remote'[q] = remote[q] /\ sending'[q] = sending[q]
    BY Zenon, <1>1, <1>2 DEF TypeOK
<1>4. Received(remote[p], sending[p]) = Told(remote[p], sending[p])
    BY Zenon, <1>1 DEF Told
<1>5. TypeOK'
    <2>1. Received(remote[p], sending[p]) \in SUBSET Key
        BY Zenon, <1>2, <1>4, ToldType
    <2> QED
        BY Zenon, <1>1, <1>2, <2>1 DEF TypeOK, peers
<1>6. Told(Told(remote'[p], sending'[p]), out'[p]) = Told(Told(remote[p], sending[p]), out[p])
    BY <1>1, <1>3, <1>4 DEF Told
<1>7. ~IsFull(out'[p]) /\ ~IsFull(sending'[p]) /\ (Empty(out'[p]) <=> Empty(out[p]))
    BY Zenon, <1>1, <1>2, <1>3 DEF IsFull, Empty
<1>8. p \notin lost' => p \notin lost \/ IsFull(sending[p])
    BY Zenon, <1>1 DEF IsFull
<1>9. p \notin lost' => Told(Told(remote'[p], sending'[p]), out'[p]) = Wants(p)
    BY Zenon, <1>2, <1>6, <1>8, PeerFacts
<1>10. \A q \in Peer \ {p} : q \in lost' <=> q \in lost
    BY Zenon, <1>1
<1>11. ~Empty(out'[p]) => p \in work'
    BY Zenon, <1>1, <1>2, <1>7, PeerFacts
<1> QED
    BY Zenon, <1>1, <1>2, <1>3, <1>5, <1>7, <1>9, <1>10, <1>11, QueueKeeps

\* A message that cannot be sent is dropped, and the peer counts as lost.
LEMMA SendFailsStep ==
    ASSUME WantInv, NEW p \in Peer, SendFails(p)
    PROVE  WantInv'
<1>1. /\ UNCHANGED <<track, shared, refcnt, out, work, late, remote, asked, events>>
      /\ sending[p] # Nil
      /\ sending' = [sending EXCEPT ![p] = Nil]
      /\ lost' = lost \cup {p}
    BY Zenon DEF SendFails
<1>2. TypeOK /\ p \in peers /\ ~IsFull(out[p])
    BY Zenon, <1>1, PeerFacts DEF WantInv
<1>3. /\ sending'[p] = Nil
      /\ \A q \in Peer \ {p} : sending'[q] = sending[q]
    BY Zenon, <1>1, <1>2 DEF TypeOK
<1>4. TypeOK'
    BY Zenon, <1>1, <1>2 DEF TypeOK, peers
<1>5. ~IsFull(out'[p]) /\ ~IsFull(sending'[p]) /\ p \in lost'
    BY Zenon, <1>1, <1>2, <1>3 DEF IsFull
<1>6. ~Empty(out'[p]) => p \in work'
    BY Zenon, <1>1, <1>2, PeerFacts
<1> QED
    BY Zenon, <1>1, <1>2, <1>3, <1>4, <1>5, <1>6, QueueKeeps

\* A late message changes what the peer knows behind the back of its queue,
\* which only a full wantlist makes up for.
LEMMA LateMsgStep ==
    ASSUME WantInv, NEW p \in Peer, NEW m, LateMsg(p, m)
    PROVE  WantInv'
<1>1. /\ UNCHANGED <<track, shared, refcnt, out, work, sending, asked, events>>
      /\ m \in late[p] /\ late' = [late EXCEPT ![p] = @ \ {m}]
    BY Zenon DEF LateMsg
<1>2. TypeOK /\ m \in Message /\ late' \in [Peer -> SUBSET Message]
    BY Zenon, <1>1 DEF WantInv, TypeOK
<1>3. CASE UNCHANGED <<remote, lost>>
    <2>1. TypeOK'
        BY Zenon, <1>1, <1>2, <1>3 DEF TypeOK, peers
    <2> QED
        BY Zenon, <1>1, <1>2, <1>3, <2>1, PeerFacts, QueueKeeps
<1>4. CASE remote' = [remote EXCEPT ![p] = Received(remote[p], m)] /\ lost' = lost \cup {p}
    <2>1. Received(remote[p], m) \in SUBSET Key
        <3>1. remote[p] \in SUBSET Key /\ m.want \in SUBSET Key
            BY Zenon, <1>2 DEF TypeOK, Message
        <3> QED
            BY Zenon, <3>1 DEF Received
    <2>2. TypeOK'
        BY Zenon, <1>1, <1>2, <1>4, <2>1 DEF TypeOK, peers
    <2>3. \A q \in Peer \ {p} : remote'[q] = remote[q] /\ (q \in lost' <=> q \in lost)
        BY Zenon, <1>2, <1>4 DEF TypeOK
    <2>4. p \in lost'
        BY Zenon, <1>4
    <2>5. ASSUME p \in peers, IsFull(out'[p]) \/ IsFull(sending'[p])
          PROVE  Told(Told(remote'[p], sending'[p]), out'[p]) = Wants(p)
        <3>1. IsFull(out[p]) \/ IsFull(sending[p])
            BY Zenon, <1>1, <2>5 DEF IsFull
        <3>2. Told(Told(remote[p], sending[p]), out[p]) = Wants(p)
            BY Zenon, <2>5, <3>1, PeerFacts
        <3>3. IsFull(out[p]) => \A x, y : Told(x, out[p]) = Told(y, out[p])
            BY Zenon DEF IsFull, Told, Received
        <3>4. IsFull(sending[p]) => \A x, y : Told(x, sending[p]) = Told(y, sending[p])
            BY Zenon DEF IsFull, Told, Received
        <3>5. Told(Told(remote'[p], sending[p]), out[p]) = Told(Told(remote[p], sending[p]), out[p])
            BY Zenon, <3>1, <3>3, <3>4
        <3> QED
            BY Zenon, <1>1, <3>2, <3>5
    <2>6. IsFull(out'[p]) <=> IsFull(out[p])
        BY Zenon, <1>1 DEF IsFull
    <2>7. p \in peers /\ ~Empty(out'[p]) => p \in work'
        BY Zenon, <1>1, PeerFacts
    <2>8. /\ p \notin peers => out'[p] = Nil /\ sending'[p] = Nil
          /\ IsFull(out'[p]) => sending'[p] = Nil
        BY Zenon, <1>1, <2>6, PeerFacts
    <2> QED
        BY Zenon, <1>1, <2>2, <2>3, <2>4, <2>5, <2>7, <2>8, QueueKeeps
<1> QED
    BY Zenon, <1>3, <1>4 DEF LateMsg

\* Every step keeps the invariant.
LEMMA WantStep ==
    ASSUME WantInv, [Next]_vars
    PROVE  WantInv'
<1>1. ASSUME NEW s \in Session, NEW k \in Key, WantBroadcast(s, k) PROVE WantInv'
    BY Zenon, <1>1, WantBroadcastStep
<1>2. ASSUME NEW s \in Session, NEW k \in Key, CancelWants(s, k) PROVE WantInv'
    BY Zenon, <1>2, CancelWantsStep
<1>3. ASSUME NEW s \in Session, NEW k \in Key, NEW targets \in (SUBSET Peer) \ {{}},
             WantFrom(s, k, targets)
      PROVE  WantInv'
    BY Zenon, <1>3, WantFromStep
<1>4. ASSUME NEW p \in Peer, Connected(p) PROVE WantInv'
    BY Zenon, <1>4, ConnectedAgain, ConnectedFirst
<1>5. ASSUME NEW p \in Peer, Disconnected(p) PROVE WantInv'
    BY Zenon, <1>5, DisconnectedOnce, DisconnectedLast
<1>6. ASSUME NEW p \in Peer, Queue(p) PROVE WantInv'
    BY Zenon, <1>6, GrabStep, SendMsgStep DEF Queue
<1>7. ASSUME NEW p \in Peer, SendFails(p) PROVE WantInv'
    BY Zenon, <1>7, SendFailsStep
<1>8. ASSUME NEW p \in Peer, NEW m \in late[p], LateMsg(p, m) PROVE WantInv'
    BY ZenonT(30), <1>8, LateMsgStep
<1>9. CASE UNCHANGED vars
    BY <1>9
    DEF vars, WantInv, TypeOK, Shares, Tracks, SessionsTracked, WorkSignalled,
        Quiet,
        Informed, Wants, peers, IsFull, Empty, Told, Received
<1> QED
    BY Zenon, <1>1, <1>2, <1>3, <1>4, <1>5, <1>6, <1>7, <1>8, <1>9 DEF Next

\* Every reachable state satisfies the inductive invariant.
LEMMA WantInvariant == Spec => []WantInv
BY WantInit, WantStep, PTL DEF Spec

\* Types of the wantlists and the queues, for any peers, keys and sessions.
THEOREM WantTypeCorrect == Spec => []TypeOK
BY WantInvariant, PTL DEF WantInv

\* Whatever lists share an entry, and however often peers come and go: a
\* session that broadcast a key is on the list of every connected peer until
\* it cancels, and no list keeps a session that does not want the key.
THEOREM SessionsStay == Spec => []SessionsTracked
BY WantInvariant, PTL DEF WantInv

\* No work signal is lost, although work holds one at most.
THEOREM SignalStays == Spec => []WorkSignalled
BY WantInvariant, PTL DEF WantInv

\* A connected peer that has nothing left to be told knows exactly what its
\* queue wants from it, unless a message to it was dropped or came late and no
\* full wantlist followed.
THEOREM PeersKnow == Spec => []PeersInSync
<1>1. WantInv => PeersInSync
    <2> SUFFICES ASSUME WantInv, NEW p \in peers \ lost, Empty(out[p]), sending[p] = Nil
                 PROVE  remote[p] = Wants(p)
        BY Zenon DEF PeersInSync
    <2>1. /\ p \in Peer /\ out[p] \in Message \cup {Nil} /\ remote[p] \in SUBSET Key
          /\ IsFull(out[p]) => remote[p] = {}
          /\ Told(Told(remote[p], sending[p]), out[p]) = Wants(p)
        BY Zenon, Lists, PeerFacts
    <2>2. Told(remote[p], out[p]) = Wants(p)
        BY Zenon, <2>1 DEF Told
    <2>3. CASE out[p] = Nil
        BY Zenon, <2>2, <2>3 DEF Told
    <2>4. CASE out[p] # Nil
        <3>1. out[p].want = {} /\ out[p].cancel = {}
            BY Zenon, <2>4 DEF Empty
        <3>2. Received(remote[p], out[p]) = Wants(p)
            BY Zenon, <2>2, <2>4 DEF Told
        <3>3. Received(remote[p], out[p]) = IF out[p].full = "full" THEN {} ELSE remote[p]
            BY Zenon, <3>1 DEF Received
        <3> QED
            BY Zenon, <2>1, <2>4, <3>2, <3>3 DEF IsFull
    <2> QED
        BY Zenon, <2>3, <2>4
<1> QED
    BY <1>1, WantInvariant, PTL
=============================================================================
