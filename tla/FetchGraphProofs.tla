-------------------------- MODULE FetchGraphProofs --------------------------
(***************************************************************************)
(* Proofs about FetchGraph, for any DAG and any number of fetchers: a call *)
(* that returns nil has visited the whole DAG and has fetched every node   *)
(* of it exactly once.                                                     *)
(***************************************************************************)
EXTENDS FetchGraph, FiniteSetTheorems, TLAPS

\* Fetchers whose node the loop counts, and those that owe its links.
Active == {"visit", "fetch", "out", "done", "err"}
Owing == {"fetch", "out", "err"}
Busy == {f \in Fetcher : fetcher[f].pc \in Active}

Counting == returned = "no" => inProgress = Cardinality(Busy)
Offering == nextc = NoNode => todobuffer = <<>>
Holding == \A f \in Fetcher : fetcher[f].pc \in Active => fetcher[f].node \in GNode

\* A node the loop knows of: visited, offered, buffered or about to be visited.
Known(n) ==
    \/ n \in visited \/ n = nextc \/ n \in Elems(todobuffer)
    \/ \E f \in Fetcher : fetcher[f].pc = "visit" /\ fetcher[f].node = n

NoneLost ==
    returned = "no" =>
        /\ Known(GRoot)
        /\ \A n \in visited : \/ \A m \in Elems(GKids[n]) : Known(m)
                              \/ \E f \in Fetcher : fetcher[f].pc \in Owing /\ fetcher[f].node = n

Fetching ==
    /\ fetches \in [GNode -> Nat]
    /\ \A n \in GNode : fetches[n] <= 1 /\ (n \notin visited => fetches[n] = 0)
    /\ \A f \in Fetcher : fetcher[f].pc = "fetch"
          => fetcher[f].node \in visited /\ fetches[fetcher[f].node] = 0
    /\ \A f, g \in Fetcher : (fetcher[f].pc = "fetch" /\ fetcher[g].pc = "fetch"
                                /\ fetcher[f].node = fetcher[g].node) => f = g
    /\ returned = "no" => \A n \in visited :
          \/ \E f \in Fetcher : fetcher[f].pc = "fetch" /\ fetcher[f].node = n
          \/ /\ fetches[n] = 1
             /\ n \in lost => \E f \in Fetcher : fetcher[f].pc = "err" /\ fetcher[f].node = n

Ended ==
    returned = "nil" =>
        /\ Busy = {}
        /\ GRoot \in visited /\ \A n \in visited : Elems(GKids[n]) \subseteq visited
        /\ \A n \in visited : fetches[n] = 1 /\ n \notin lost

GInv == GTypeOK /\ Holding /\ Counting /\ Offering /\ NoneLost /\ Fetching /\ Ended

-----------------------------------------------------------------------------
(* Sequences                                                               *)

\* What a concatenation holds.
LEMMA ElemsConcat ==
    ASSUME NEW s \in Seq(GNode), NEW t \in Seq(GNode)
    PROVE  /\ s \o t \in Seq(GNode)
           /\ Elems(s \o t) = Elems(s) \cup Elems(t)
<1>1. /\ s \o t \in Seq(GNode) /\ Len(s \o t) = Len(s) + Len(t)
      /\ \A i \in 1..Len(s) : (s \o t)[i] = s[i]
      /\ \A i \in 1..Len(t) : (s \o t)[Len(s) + i] = t[i]
  OBVIOUS
<1>2. ASSUME NEW x \in Elems(s \o t) PROVE x \in Elems(s) \cup Elems(t)
  <2>1. PICK i \in 1..Len(s \o t) : x = (s \o t)[i]
    BY Zenon, <1>2 DEF Elems
  <2>2. CASE i <= Len(s)
    BY <1>1, <2>1, <2>2 DEF Elems
  <2>3. CASE i > Len(s)
    <3>1. i - Len(s) \in 1..Len(t)
      BY <1>1, <2>3
    <3>2. (s \o t)[i] = t[i - Len(s)]
      BY <1>1, <3>1
    <3> QED BY Zenon, <2>1, <3>1, <3>2 DEF Elems
  <2> QED BY <2>2, <2>3, <1>1
<1>3. ASSUME NEW x \in Elems(s) PROVE x \in Elems(s \o t)
  BY <1>1, <1>3 DEF Elems
<1>4. ASSUME NEW x \in Elems(t) PROVE x \in Elems(s \o t)
  <2>1. PICK i \in 1..Len(t) : x = t[i]
    BY Zenon, <1>4 DEF Elems
  <2>2. Len(s) + i \in 1..Len(s \o t)
    BY <1>1
  <2> QED BY Zenon, <1>1, <2>1, <2>2 DEF Elems
<1> QED BY Zenon, <1>1, <1>2, <1>3, <1>4

\* What is left behind the head.
LEMMA ElemsTail ==
    ASSUME NEW s \in Seq(GNode), s # <<>>
    PROVE  /\ Head(s) \in GNode /\ Tail(s) \in Seq(GNode)
           /\ Elems(s) = {Head(s)} \cup Elems(Tail(s))
<1>1. /\ Len(s) >= 1 /\ Head(s) = s[1] /\ Tail(s) \in Seq(GNode) /\ Len(Tail(s)) = Len(s) - 1
      /\ \A i \in 1..Len(Tail(s)) : Tail(s)[i] = s[i + 1]
  OBVIOUS
<1>2. ASSUME NEW x \in Elems(s) PROVE x \in {Head(s)} \cup Elems(Tail(s))
  <2>1. PICK i \in 1..Len(s) : x = s[i]
    BY Zenon, <1>2 DEF Elems
  <2>2. CASE i = 1
    BY Zenon, <1>1, <2>1, <2>2
  <2>3. CASE i # 1
    <3>1. i - 1 \in 1..Len(Tail(s)) /\ Tail(s)[i - 1] = s[i]
      BY <1>1, <2>3
    <3> QED BY Zenon, <2>1, <3>1 DEF Elems
  <2> QED BY Zenon, <2>2, <2>3
<1>3. Head(s) \in Elems(s)
  BY <1>1 DEF Elems
<1>4. ASSUME NEW x \in Elems(Tail(s)) PROVE x \in Elems(s)
  <2>1. PICK i \in 1..Len(Tail(s)) : x = Tail(s)[i]
    BY Zenon, <1>4 DEF Elems
  <2>2. i + 1 \in 1..Len(s)
    BY <1>1
  <2> QED BY Zenon, <1>1, <2>1, <2>2 DEF Elems
<1>5. Head(s) \in GNode
  BY <1>1
<1> QED BY Zenon, <1>1, <1>2, <1>3, <1>4, <1>5

\* The links of a node.
LEMMA KidsType ==
    ASSUME NEW n \in GNode
    PROVE  GKids[n] \in Seq(GNode) /\ Elems(GKids[n]) \subseteq GNode
BY FetchAssumption DEF Elems

\* An empty sequence holds nothing.
LEMMA ElemsEmpty == Elems(<<>>) = {}
BY DEF Elems

-----------------------------------------------------------------------------
(* Counting the fetchers at work                                           *)

\* Busy, as the counts below see it.
LEMMA BusyFinite == IsFiniteSet(Busy) /\ Cardinality(Busy) \in Nat
<1>1. Busy \subseteq Fetcher
  BY Zenon DEF Busy
<1>2. IsFiniteSet(Busy)
  BY Zenon, <1>1, FS_Subset, FetchAssumption
<1> QED BY Zenon, <1>2, FS_CardinalityType

\* The busy fetchers stay the same, f joins them, f leaves them.
LEMMA BusyKept ==
    ASSUME \A g \in Fetcher : fetcher'[g].pc \in Active <=> fetcher[g].pc \in Active
    PROVE  Busy' = Busy
BY Zenon DEF Busy

(* A fetcher that starts on a node adds one to the number at work. *)
LEMMA BusyJoins ==
    ASSUME NEW f \in Fetcher, f \notin Busy,
           fetcher'[f].pc \in Active,
           \A g \in Fetcher : g # f => fetcher'[g] = fetcher[g]
    PROVE  Cardinality(Busy') = Cardinality(Busy) + 1
<1>1. Busy' = Busy \cup {f}
  BY Zenon DEF Busy
<1> QED BY Zenon, <1>1, BusyFinite, FS_AddElement

(* A fetcher that ends its node takes one from the number at work. *)
LEMMA BusyLeaves ==
    ASSUME NEW f \in Fetcher, f \in Busy,
           fetcher'[f].pc \notin Active,
           \A g \in Fetcher : g # f => fetcher'[g] = fetcher[g]
    PROVE  /\ Busy' = Busy \ {f}
           /\ Cardinality(Busy') = Cardinality(Busy) - 1
           /\ Cardinality(Busy) >= 1
           /\ Cardinality(Busy) = 1 => Busy' = {}
<1>1. Busy' = Busy \ {f}
  BY Zenon DEF Busy
<1>2. IsFiniteSet(Busy') /\ Cardinality(Busy') = Cardinality(Busy) - 1
  BY Zenon, <1>1, BusyFinite, FS_RemoveElement
<1>3. Cardinality(Busy') \in Nat
  BY Zenon, <1>2, FS_CardinalityType
<1>4. Cardinality(Busy') = 0 => Busy' = {}
  BY Zenon, <1>2, FS_EmptySet
<1> QED BY <1>1, <1>2, <1>3, <1>4, BusyFinite

-----------------------------------------------------------------------------
(* Every step keeps GInv                                                   *)

\* Before the first visit nothing is in progress.
LEMMA InitInv == GInit => GInv
<1> SUFFICES ASSUME GInit PROVE GInv
  OBVIOUS
<1>1. GTypeOK /\ Holding /\ Offering /\ NoneLost /\ Fetching /\ Ended
  BY FetchAssumption DEF GInit, GTypeOK, Holding, Offering, NoneLost,
      Fetching, Ended, Known, At,
     Active
<1>2. Busy = {}
  BY Zenon DEF GInit, Busy, Active, At
<1>3. Counting
  BY Zenon, <1>2, FS_EmptySet DEF Counting, GInit
<1> QED BY Zenon, <1>1, <1>3 DEF GInv

(* The loop hands its next key to a fetcher (the send on feed). *)
LEMMA SendInv ==
    ASSUME GInv, NEW f \in Fetcher, Send(f)
    PROVE  GInv'
<1> USE DEF At
<1>1. fetcher' = [fetcher EXCEPT ![f] = [pc |-> "visit", node |-> nextc]] /\ nextc \in GNode
  BY Zenon DEF GInv, GTypeOK, Send
<1>2. GTypeOK'
  <2>1. CASE todobuffer = <<>>
    BY <1>1, <2>1 DEF GInv, GTypeOK, Send, Counted
  <2>2. CASE todobuffer # <<>>
    <3>1. Head(todobuffer) \in GNode /\ Tail(todobuffer) \in Seq(GNode)
      BY Zenon, <2>2, ElemsTail DEF GInv, GTypeOK
    <3>2. nextc' = Head(todobuffer) /\ todobuffer' = Tail(todobuffer)
      BY Zenon, <2>2 DEF Send
    <3>3. nextc' \in GNode /\ todobuffer' \in Seq(GNode)
      BY Zenon, <3>1, <3>2
    <3> QED BY <1>1, <3>3 DEF GInv, GTypeOK, Send, Counted
  <2> QED BY Zenon, <2>1, <2>2
<1>3. Holding'
  BY Zenon, <1>1 DEF GInv, GTypeOK, Holding
<1>4. Counting'
  <2>1. f \notin Busy /\ fetcher'[f].pc \in Active
    BY <1>1 DEF GInv, GTypeOK, Send, Busy, Active
  <2>2. Cardinality(Busy') = Cardinality(Busy) + 1
    BY Zenon, <1>1, <2>1, BusyJoins DEF GInv, GTypeOK
  <2> QED BY Zenon, <2>2 DEF GInv, Counting, Send, Counted
<1>5. Offering'
  <2>1. CASE todobuffer = <<>>
    BY Zenon, <2>1 DEF Send, Offering
  <2>2. CASE todobuffer # <<>>
    BY Zenon, <2>2, ElemsTail, FetchAssumption DEF Send, Offering, GInv, GTypeOK
  <2> QED BY Zenon, <2>1, <2>2
<1>6. ASSUME NEW n \in GNode, Known(n) PROVE Known(n)'
  <2>1. CASE n \in visited
    BY Zenon, <2>1 DEF Known, Send
  <2>2. CASE n = nextc
    <3>1. fetcher'[f].pc = "visit" /\ fetcher'[f].node = n
      BY Zenon, <1>1, <2>2 DEF GInv, GTypeOK
    <3> QED BY Zenon, <3>1 DEF Known
  <2>3. CASE n \in Elems(todobuffer)
    <3>1. todobuffer # <<>>
      BY Zenon, <2>3, ElemsEmpty
    <3>2. n = Head(todobuffer) \/ n \in Elems(Tail(todobuffer))
      BY Zenon, <2>3, <3>1, ElemsTail DEF GInv, GTypeOK
    <3> QED BY Zenon, <3>1, <3>2 DEF Known, Send
  <2>4. CASE \E g \in Fetcher : fetcher[g].pc = "visit" /\ fetcher[g].node = n
    <3>1. PICK g \in Fetcher : fetcher[g].pc = "visit" /\ fetcher[g].node = n
      BY Zenon, <2>4
    <3>2. g # f
      BY Zenon, <3>1 DEF Send
    <3>3. fetcher'[g] = fetcher[g]
      BY Zenon, <1>1, <3>2 DEF GInv, GTypeOK
    <3> QED BY Zenon, <3>1, <3>3 DEF Known
  <2> QED BY Zenon, <1>6, <2>1, <2>2, <2>3, <2>4 DEF Known
<1>7. NoneLost'
  <2>1. \A g \in Fetcher : fetcher[g].pc \in Owing => fetcher'[g] = fetcher[g]
    BY Zenon, <1>1 DEF Send, Owing, GInv, GTypeOK
  <2>2. \A n \in visited : Elems(GKids[n]) \subseteq GNode
    BY Zenon, KidsType DEF GInv, GTypeOK
  <2> QED BY ZenonT(30), <1>6, <2>1, <2>2, FetchAssumption DEF NoneLost, Send, GInv
<1>8. Fetching'
  BY <1>1 DEF Fetching, Send, GInv, GTypeOK
<1>9. Ended'
  BY Zenon DEF Ended, Send
<1> QED BY Zenon, <1>2, <1>3, <1>4, <1>5, <1>7, <1>8, <1>9 DEF GInv

(* A fetcher asks whether to visit a key (visit under setlk). *)
LEMMA VisitInv ==
    ASSUME GInv, NEW f \in Fetcher, Visit(f)
    PROVE  GInv'
<1> USE DEF At, Move, ShouldVisit
<1> DEFINE n0 == fetcher[f].node
<1>1. /\ fetcher' = [fetcher EXCEPT ![f] = [pc |-> IF n0 \notin visited THEN "fetch" ELSE "done",
                                           node |-> n0]]
      /\ fetcher[f].pc = "visit" /\ n0 \in GNode
      /\ visited' = visited \cup {n0}
      /\ fetcher \in [Fetcher -> [pc : {"idle", "visit", "fetch", "out", "done", "err", "gone"},
                                 node : GNode \cup {NoNode}]]
  BY Zenon DEF GInv, GTypeOK, Holding, Active, Visit
<1>2. GTypeOK'
  BY <1>1 DEF GInv, GTypeOK, Visit
<1>3. Holding'
  BY Zenon, <1>1 DEF GInv, Holding
<1>4. Busy' = Busy /\ f \in Busy
  <2>1. \A g \in Fetcher : fetcher'[g].pc \in Active <=> fetcher[g].pc \in Active
    BY Zenon, <1>1 DEF Active
  <2> QED BY Zenon, <1>1, <2>1, BusyKept DEF Busy, Active
<1>5. Counting' /\ Offering'
  BY Zenon, <1>4 DEF GInv, Counting, Offering, Visit
<1>6. ASSUME NEW n, Known(n) PROVE Known(n)'
  BY Zenon, <1>1, <1>6 DEF Known, Visit
<1>7. NoneLost'
  <2>1. \A g \in Fetcher : fetcher[g].pc \in Owing => fetcher'[g] = fetcher[g]
    BY Zenon, <1>1 DEF Owing
  <2>2. ASSUME n0 \notin visited PROVE fetcher'[f].pc \in Owing /\ fetcher'[f].node = n0
    BY Zenon, <1>1, <2>2 DEF Owing
  <2>3. returned' = returned
    BY Zenon DEF Visit
  <2> SUFFICES ASSUME returned = "no" PROVE NoneLost'
    BY Zenon, <2>3 DEF NoneLost
  <2>4. Known(GRoot)'
    BY Zenon, <1>6 DEF GInv, NoneLost
  <2>5. ASSUME NEW n \in visited
        PROVE  \/ \A m \in Elems(GKids[n]) : Known(m)'
               \/ \E g \in Fetcher : fetcher'[g].pc \in Owing /\ fetcher'[g].node = n
    BY Zenon, <1>6, <2>1 DEF GInv, NoneLost
  <2> QED BY <1>1, <2>2, <2>4, <2>5 DEF NoneLost
<1>8. Fetching'
  <2>1. CASE n0 \in visited
    BY <1>1, <2>1 DEF Fetching, Visit, GInv, GTypeOK
  <2>2. CASE n0 \notin visited
    <3>1. fetches' = fetches /\ lost' = lost /\ returned' = returned
      BY Zenon DEF Visit
    <3>2. \A g \in Fetcher : g # f => fetcher'[g] = fetcher[g]
      BY Zenon, <1>1
    <3>3. fetcher'[f].pc = "fetch" /\ fetcher'[f].node = n0
      BY Zenon, <1>1, <2>2
    <3>4. \A g \in Fetcher : fetcher[g].pc = "fetch" => fetcher[g].node # n0
      BY Zenon, <2>2 DEF Fetching, GInv
    <3>5. \A n \in GNode : fetches[n] <= 1 /\ (n \notin visited' => fetches[n] = 0)
      BY Zenon, <1>1 DEF Fetching, GInv
    <3>6. \A g \in Fetcher : fetcher'[g].pc = "fetch"
            => fetcher'[g].node \in visited' /\ fetches[fetcher'[g].node] = 0
      BY <1>1, <2>2, <3>2, <3>3 DEF Fetching, GInv
    <3>7. \A g, h \in Fetcher : (fetcher'[g].pc = "fetch" /\ fetcher'[h].pc = "fetch"
                                  /\ fetcher'[g].node = fetcher'[h].node) => g = h
      BY <3>2, <3>3, <3>4 DEF Fetching, GInv
    <3>8. ASSUME returned = "no", NEW n \in visited'
          PROVE  \/ \E g \in Fetcher : fetcher'[g].pc = "fetch" /\ fetcher'[g].node = n
                 \/ /\ fetches[n] = 1
                    /\ n \in lost => \E g \in Fetcher : fetcher'[g].pc = "err" /\ fetcher'[g].node = n
      <4>1. CASE n = n0
        BY Zenon, <3>3, <4>1
      <4>2. CASE n \in visited
        BY Zenon, <1>1, <3>2, <3>8, <4>2 DEF Fetching, GInv
      <4> QED BY Zenon, <1>1, <4>1, <4>2
    <3> QED BY Zenon, <3>1, <3>5, <3>6, <3>7, <3>8 DEF Fetching, GInv
  <2> QED BY Zenon, <2>1, <2>2
<1>9. Ended'
  BY Zenon, <1>4 DEF GInv, Ended, Visit
<1> QED BY Zenon, <1>2, <1>3, <1>5, <1>7, <1>8, <1>9 DEF GInv

(* A fetcher reads the links of its node, or fails. *)
LEMMA FetchInv ==
    ASSUME GInv, NEW f \in Fetcher, Fetch(f)
    PROVE  GInv'
<1> USE DEF At, Move
<1> DEFINE n0 == fetcher[f].node
<1>1. PICK answer \in Answers(f) : fetcher' = [fetcher EXCEPT ![f] = [pc |-> answer, node |-> n0]]
  BY Zenon DEF Fetch
<1>2. /\ fetcher[f].pc = "fetch" /\ n0 \in GNode
      /\ fetcher \in [Fetcher -> [pc : {"idle", "visit", "fetch", "out", "done", "err", "gone"},
                                 node : GNode \cup {NoNode}]]
      /\ answer \in {"out", "err"} /\ (n0 \in lost => answer = "err")
      /\ fetches' = [fetches EXCEPT ![n0] = @ + 1]
      /\ UNCHANGED <<nextc, todobuffer, inProgress, visited, returned, lost>>
  BY Zenon, <1>1 DEF GInv, GTypeOK, Holding, Active, Fetch, Answers
<1>3. fetcher'[f].pc = answer /\ fetcher'[f].node = n0
  BY Zenon, <1>1, <1>2
<1>4. \A g \in Fetcher : g # f => fetcher'[g] = fetcher[g]
  BY Zenon, <1>1, <1>2
<1>5. GTypeOK' /\ Holding'
  <2>1. GTypeOK'
    BY Zenon, <1>1, <1>2 DEF GInv, GTypeOK
  <2>2. Holding'
    BY Zenon, <1>2, <1>3, <1>4 DEF GInv, Holding
  <2> QED BY Zenon, <2>1, <2>2
<1>6. Busy' = Busy /\ f \in Busy
  <2>1. \A g \in Fetcher : fetcher'[g].pc \in Active <=> fetcher[g].pc \in Active
    BY Zenon, <1>2, <1>3, <1>4 DEF Active
  <2> QED BY Zenon, <1>2, <2>1, BusyKept DEF Busy, Active
<1>7. Counting' /\ Offering' /\ Ended'
  BY Zenon, <1>2, <1>6 DEF GInv, Counting, Offering, Ended
<1>8. \A n : Known(n) => Known(n)'
  BY Zenon, <1>2, <1>3, <1>4 DEF Known
<1>9. NoneLost'
  <2>1. \A g \in Fetcher : fetcher[g].pc \in Owing
           => fetcher'[g].pc \in Owing /\ fetcher'[g].node = fetcher[g].node
    BY Zenon, <1>2, <1>3, <1>4 DEF Owing
  <2> QED BY <1>2, <1>8, <2>1 DEF GInv, NoneLost
<1>10. Fetching'
  <2>1. n0 \in visited /\ fetches[n0] = 0 /\ fetches \in [GNode -> Nat]
    BY Zenon, <1>2 DEF GInv, Fetching
  <2>2. fetches' \in [GNode -> Nat] /\ fetches'[n0] = 1
    BY <1>2, <2>1
  <2>3. \A n \in GNode : n # n0 => fetches'[n] = fetches[n]
    BY Zenon, <1>2, <2>1
  <2>4. \A n \in GNode : fetches'[n] <= 1 /\ (n \notin visited => fetches'[n] = 0)
    BY <2>1, <2>2, <2>3 DEF GInv, Fetching
  <2>5. \A g \in Fetcher : fetcher'[g].pc = "fetch"
          => g # f /\ fetcher[g].pc = "fetch" /\ fetcher'[g].node = fetcher[g].node
                 /\ fetcher[g].node # n0
    BY <1>2, <1>3, <1>4 DEF GInv, Fetching
  <2>6. \A g \in Fetcher : fetcher'[g].pc = "fetch"
          => fetcher'[g].node \in visited /\ fetches'[fetcher'[g].node] = 0
    BY <2>3, <2>5 DEF GInv, Fetching, GTypeOK
  <2>7. \A g, h \in Fetcher : (fetcher'[g].pc = "fetch" /\ fetcher'[h].pc = "fetch"
                                /\ fetcher'[g].node = fetcher'[h].node) => g = h
    BY <2>5 DEF GInv, Fetching
  <2>8. ASSUME returned = "no", NEW n \in visited
        PROVE  \/ \E g \in Fetcher : fetcher'[g].pc = "fetch" /\ fetcher'[g].node = n
               \/ /\ fetches'[n] = 1
                  /\ n \in lost => \E g \in Fetcher : fetcher'[g].pc = "err" /\ fetcher'[g].node = n
    <3>1. CASE n = n0
      BY Zenon, <1>2, <1>3, <2>2, <3>1
    <3>2. CASE n # n0
      <4>1. n \in GNode /\ fetches'[n] = fetches[n]
        BY Zenon, <2>3, <3>2 DEF GInv, GTypeOK
      <4>2. CASE \E g \in Fetcher : fetcher[g].pc = "fetch" /\ fetcher[g].node = n
        BY Zenon, <1>4, <3>2, <4>2
      <4>3. CASE /\ fetches[n] = 1
                 /\ n \in lost => \E g \in Fetcher : fetcher[g].pc = "err" /\ fetcher[g].node = n
        BY Zenon, <1>4, <3>2, <4>1, <4>3
      <4> QED BY Zenon, <2>8, <4>2, <4>3 DEF GInv, Fetching
    <3> QED BY Zenon, <3>1, <3>2
  <2> QED BY Zenon, <1>2, <2>2, <2>4, <2>6, <2>7, <2>8 DEF Fetching
<1> QED BY Zenon, <1>5, <1>7, <1>9, <1>10 DEF GInv

(* A fetcher hands the links it read back to the loop (out). *)
LEMMA OutInv ==
    ASSUME GInv, NEW f \in Fetcher, Out(f)
    PROVE  GInv'
<1> USE DEF At, Move, Buffered
<1> DEFINE n0 == fetcher[f].node
           links == GKids[n0]
<1>1. /\ fetcher' = [fetcher EXCEPT ![f] = [pc |-> "done", node |-> n0]]
      /\ fetcher[f].pc = "out" /\ n0 \in GNode /\ returned = "no"
      /\ fetcher \in [Fetcher -> [pc : {"idle", "visit", "fetch", "out", "done", "err", "gone"},
                                 node : GNode \cup {NoNode}]]
      /\ todobuffer \in Seq(GNode)
      /\ UNCHANGED <<inProgress, visited, returned, lost, fetches>>
  BY Zenon DEF GInv, GTypeOK, Holding, Active, Out
<1>2. fetcher'[f].pc = "done" /\ fetcher'[f].node = n0
  BY Zenon, <1>1
<1>3. \A g \in Fetcher : g # f => fetcher'[g] = fetcher[g]
  BY Zenon, <1>1
<1>4. links \in Seq(GNode)
  BY Zenon, <1>1, KidsType
\* Whatever is offered or buffered stays so, and so become the links.
<1>5. /\ nextc' \in GNode \cup {NoNode} /\ todobuffer' \in Seq(GNode)
      /\ nextc' = NoNode => todobuffer' = <<>>
      /\ \A n \in GNode : (n = nextc \/ n \in Elems(todobuffer) \/ n \in Elems(links))
            => (n = nextc' \/ n \in Elems(todobuffer'))
  <2>1. CASE nextc = NoNode /\ links # <<>>
    <3>1. nextc' = Head(links) /\ todobuffer' = todobuffer \o Tail(links)
      BY Zenon, <2>1 DEF Out
    <3>2. /\ Head(links) \in GNode /\ Tail(links) \in Seq(GNode)
          /\ Elems(links) = {Head(links)} \cup Elems(Tail(links))
      BY Zenon, <1>4, <2>1, ElemsTail
    <3>3. /\ todobuffer' \in Seq(GNode)
          /\ Elems(todobuffer') = Elems(todobuffer) \cup Elems(Tail(links))
      BY Zenon, <1>1, <3>1, <3>2, ElemsConcat
    <3> QED BY Zenon, <2>1, <3>1, <3>2, <3>3, FetchAssumption
  <2>2. CASE ~(nextc = NoNode /\ links # <<>>)
    <3>1. nextc' = nextc /\ todobuffer' = todobuffer \o links
      BY Zenon, <2>2 DEF Out
    <3>2. /\ todobuffer' \in Seq(GNode)
          /\ Elems(todobuffer') = Elems(todobuffer) \cup Elems(links)
      BY Zenon, <1>1, <1>4, <3>1, ElemsConcat
    <3>3. nextc = NoNode => todobuffer' = <<>>
      <4>1. SUFFICES ASSUME nextc = NoNode PROVE todobuffer' = <<>>
        OBVIOUS
      <4>2. links = <<>> /\ todobuffer = <<>>
        BY Zenon, <2>2, <4>1 DEF GInv, Offering
      <4> QED BY <3>1, <4>2
    <3>4. nextc \in GNode \cup {NoNode}
      BY Zenon DEF GInv, GTypeOK
    <3> QED BY Zenon, <3>1, <3>2, <3>3, <3>4
  <2> QED BY Zenon, <2>1, <2>2
<1>6. GTypeOK'
  BY Zenon, <1>1, <1>5 DEF GInv, GTypeOK
<1>7. Holding'
  BY Zenon, <1>1, <1>2, <1>3 DEF GInv, Holding
<1>8. Busy' = Busy
  <2>1. \A g \in Fetcher : fetcher'[g].pc \in Active <=> fetcher[g].pc \in Active
    BY Zenon, <1>1, <1>2, <1>3 DEF Active
  <2> QED BY Zenon, <2>1, BusyKept
<1>9. Counting' /\ Offering' /\ Ended'
  BY Zenon, <1>1, <1>5, <1>8 DEF GInv, Counting, Offering, Ended
<1>10. \A n \in GNode : Known(n) \/ n \in Elems(links) => Known(n)'
  <2> SUFFICES ASSUME NEW n \in GNode, Known(n) \/ n \in Elems(links) PROVE Known(n)'
    OBVIOUS
  <2>1. CASE n = nextc \/ n \in Elems(todobuffer) \/ n \in Elems(links)
    BY Zenon, <1>5, <2>1 DEF Known
  <2>2. CASE n \in visited
    BY Zenon, <1>1, <2>2 DEF Known
  <2>3. CASE \E g \in Fetcher : fetcher[g].pc = "visit" /\ fetcher[g].node = n
    BY Zenon, <1>1, <1>3, <2>3 DEF Known
  <2> QED BY Zenon, <2>1, <2>2, <2>3 DEF Known
<1>11. NoneLost'
  <2>1. Known(GRoot)'
    BY Zenon, <1>1, <1>10, FetchAssumption DEF GInv, NoneLost
  <2>2. ASSUME NEW n \in visited
        PROVE  \/ \A m \in Elems(GKids[n]) : Known(m)'
               \/ \E g \in Fetcher : fetcher'[g].pc \in Owing /\ fetcher'[g].node = n
    <3>1. Elems(GKids[n]) \subseteq GNode
      BY Zenon, KidsType DEF GInv, GTypeOK
    <3>2. CASE \A m \in Elems(GKids[n]) : Known(m)
      BY Zenon, <1>10, <3>1, <3>2
    <3>3. CASE \E g \in Fetcher : fetcher[g].pc \in Owing /\ fetcher[g].node = n
      <4>1. PICK g \in Fetcher : fetcher[g].pc \in Owing /\ fetcher[g].node = n
        BY Zenon, <3>3
      <4>2. CASE g = f
        BY Zenon, <1>10, <3>1, <4>1, <4>2
      <4>3. CASE g # f
        BY Zenon, <1>3, <4>1, <4>3
      <4> QED BY Zenon, <4>2, <4>3
    <3> QED BY Zenon, <1>1, <3>2, <3>3 DEF GInv, NoneLost
  <2> QED BY Zenon, <1>1, <2>1, <2>2 DEF NoneLost
<1>12. Fetching'
  <2>1. \A g \in Fetcher : fetcher[g].pc \in {"fetch", "err"} => fetcher'[g] = fetcher[g]
    BY Zenon, <1>1, <1>3
  <2>2. \A g \in Fetcher : fetcher'[g].pc \in {"fetch", "err"} => fetcher'[g] = fetcher[g]
    BY Zenon, <1>2, <1>3
  <2> QED BY <1>1, <2>1, <2>2 DEF GInv, Fetching
<1> QED BY Zenon, <1>6, <1>7, <1>9, <1>11, <1>12 DEF GInv

(* A fetcher reports its key as done, and the loop may end. *)
LEMMA DoneInv ==
    ASSUME GInv, NEW f \in Fetcher, Done(f)
    PROVE  GInv'
<1> USE DEF At, AllDone
<1>1. /\ fetcher' = [fetcher EXCEPT ![f] = [pc |-> "idle", node |-> NoNode]]
      /\ fetcher[f].pc = "done" /\ returned = "no"
      /\ fetcher \in [Fetcher -> [pc : {"idle", "visit", "fetch", "out", "done", "err", "gone"},
                                 node : GNode \cup {NoNode}]]
      /\ inProgress' = inProgress - 1 /\ inProgress \in Nat
      /\ returned' = IF inProgress - 1 = 0 /\ nextc = NoNode THEN "nil" ELSE "no"
      /\ UNCHANGED <<nextc, todobuffer, visited, lost, fetches>>
  BY Zenon DEF GInv, GTypeOK, Done
<1>2. fetcher'[f].pc = "idle"
  BY Zenon, <1>1
<1>3. \A g \in Fetcher : g # f => fetcher'[g] = fetcher[g]
  BY Zenon, <1>1
<1>4. /\ Cardinality(Busy') = Cardinality(Busy) - 1 /\ Cardinality(Busy) >= 1
      /\ Cardinality(Busy) = 1 => Busy' = {}
  <2>1. f \in Busy /\ fetcher'[f].pc \notin Active
    BY Zenon, <1>1, <1>2 DEF Busy, Active
  <2> QED BY Zenon, <1>3, <2>1, BusyLeaves
<1>5. inProgress = Cardinality(Busy)
  BY Zenon, <1>1 DEF GInv, Counting
<1>6. GTypeOK'
  BY <1>1, <1>4, <1>5 DEF GInv, GTypeOK
<1>7. Holding' /\ Counting' /\ Offering'
  <2>1. Holding'
    BY Zenon, <1>2, <1>3 DEF GInv, Holding, Active
  <2>2. Counting'
    BY Zenon, <1>1, <1>4, <1>5 DEF Counting
  <2>3. Offering'
    BY Zenon, <1>1 DEF GInv, Offering
  <2> QED BY Zenon, <2>1, <2>2, <2>3
<1>8. \A n : Known(n) => Known(n)'
  BY Zenon, <1>1, <1>2, <1>3 DEF Known
<1>9. NoneLost'
  <2>1. \A g \in Fetcher : fetcher[g].pc \in Owing => fetcher'[g] = fetcher[g]
    BY Zenon, <1>1, <1>3 DEF Owing
  <2> QED BY ZenonT(30), <1>1, <1>8, <2>1 DEF GInv, NoneLost
<1>10. Fetching'
  <2>1. \A g \in Fetcher : fetcher[g].pc \in {"fetch", "err"} <=> fetcher'[g].pc \in {"fetch", "err"}
    BY Zenon, <1>1, <1>2, <1>3
  <2>2. \A g \in Fetcher : fetcher'[g].pc \in {"fetch", "err"} => fetcher'[g] = fetcher[g]
    BY Zenon, <1>2, <1>3
  <2>3. returned' = "no" => returned = "no"
    BY Zenon, <1>1
  <2> QED BY <1>1, <2>1, <2>2, <2>3 DEF GInv, Fetching
<1>11. Ended'
  <2>1. SUFFICES ASSUME returned' = "nil" PROVE Ended'
    BY Zenon DEF Ended
  <2>2. inProgress = 1 /\ nextc = NoNode
    BY <1>1, <2>1
  <2>3. Busy' = {} /\ \A g \in Fetcher : fetcher'[g].pc \notin Active
    <3>1. Busy' = {}
      BY Zenon, <1>4, <1>5, <2>2
    <3>2. Busy' = {g \in Fetcher : fetcher'[g].pc \in Active}
      BY Zenon DEF Busy
    <3> QED BY Zenon, <3>1, <3>2
  <2>4. \A g \in Fetcher : fetcher[g].pc \in Active => g = f
    BY Zenon, <1>3, <2>3
  <2>5. \A n \in GNode : Known(n) => n \in visited
    <3>1. todobuffer = <<>>
      BY Zenon, <2>2 DEF GInv, Offering
    <3> QED BY Zenon, <1>1, <2>2, <2>4, <3>1, ElemsEmpty, FetchAssumption DEF
        Known, Active
  <2>6. GRoot \in visited
    BY Zenon, <1>1, <2>5, FetchAssumption DEF GInv, NoneLost
  <2>7. ASSUME NEW n \in visited
        PROVE  Elems(GKids[n]) \subseteq visited /\ fetches[n] = 1 /\ n \notin lost
    <3>1. Elems(GKids[n]) \subseteq GNode
      BY Zenon, KidsType DEF GInv, GTypeOK
    <3>2. \A g \in Fetcher : fetcher[g].pc \notin Owing
      BY Zenon, <1>1, <2>4 DEF Owing, Active
    <3>3. Elems(GKids[n]) \subseteq visited
      BY Zenon, <1>1, <2>5, <3>1, <3>2 DEF GInv, NoneLost
    <3>4. fetches[n] = 1 /\ n \notin lost
      BY Zenon, <1>1, <3>2 DEF GInv, Fetching, Owing
    <3> QED BY Zenon, <3>3, <3>4
  <2> QED BY Zenon, <1>1, <2>3, <2>6, <2>7 DEF Ended
<1> QED BY Zenon, <1>6, <1>7, <1>9, <1>10, <1>11 DEF GInv

(* A fetcher reports its failure, and the walk ends with it. *)
LEMMA ErrInv ==
    ASSUME GInv, NEW f \in Fetcher, Err(f)
    PROVE  GInv'
<1> USE DEF At
<1>1. /\ fetcher' = [fetcher EXCEPT ![f] = [pc |-> "gone", node |-> NoNode]]
      /\ returned' = "err"
      /\ UNCHANGED <<nextc, todobuffer, inProgress, visited, lost, fetches>>
  BY Zenon DEF Err
<1>2. GTypeOK'
  BY Zenon, <1>1 DEF GInv, GTypeOK
<1>3. Holding' /\ Offering' /\ Fetching'
  BY <1>1 DEF GInv, GTypeOK, Holding, Offering, Fetching, Active
<1>4. Counting' /\ NoneLost' /\ Ended'
  BY Zenon, <1>1 DEF Counting, NoneLost, Ended
<1> QED BY Zenon, <1>2, <1>3, <1>4 DEF GInv

(* The loop ends with the context of the caller. *)
LEMMA CancelledInv ==
    ASSUME GInv, Cancelled
    PROVE  GInv'
<1>1. GTypeOK' /\ Holding' /\ Offering' /\ Fetching'
  BY DEF GInv, GTypeOK, Holding, Offering, Fetching, Cancelled
<1>2. Counting' /\ NoneLost' /\ Ended'
  BY Zenon DEF Counting, NoneLost, Ended, Cancelled
<1> QED BY Zenon, <1>1, <1>2 DEF GInv

(* A fetcher ends when the feed is closed or the context over. *)
LEMMA FetcherEndsInv ==
    ASSUME GInv, NEW f \in Fetcher, FetcherEnds(f)
    PROVE  GInv'
<1> USE DEF At
<1>1. /\ fetcher' = [fetcher EXCEPT ![f] = [pc |-> "gone", node |-> NoNode]]
      /\ fetcher \in [Fetcher -> [pc : {"idle", "visit", "fetch", "out", "done", "err", "gone"},
                                 node : GNode \cup {NoNode}]]
      /\ returned # "no"
      /\ UNCHANGED <<nextc, todobuffer, inProgress, visited, returned, lost, fetches>>
  BY Zenon DEF GInv, GTypeOK, FetcherEnds
<1>2. GTypeOK'
  BY Zenon, <1>1 DEF GInv, GTypeOK
<1>3. Holding' /\ Offering' /\ Fetching'
  BY Zenon, <1>1 DEF GInv, Holding, Offering, Fetching, Active
<1>4. Counting' /\ NoneLost'
  BY Zenon, <1>1 DEF Counting, NoneLost
<1>5. Ended'
  <2>1. Busy' \subseteq Busy
    BY Zenon, <1>1 DEF Busy, Active
  <2> QED BY Zenon, <1>1, <2>1 DEF GInv, Ended
<1> QED BY Zenon, <1>2, <1>3, <1>4, <1>5 DEF GInv

\* GInv is inductive: one lemma for each step.
LEMMA NextInv == GInv /\ [GNext]_gvars => GInv'
<1> SUFFICES ASSUME GInv, [GNext]_gvars PROVE GInv'
  OBVIOUS
<1>1. CASE UNCHANGED gvars
  BY <1>1 DEF gvars, GInv, GTypeOK, Holding, Counting, Offering, NoneLost,
      Fetching, Ended, Known, Busy
<1>2. CASE Cancelled
  BY Zenon, <1>2, CancelledInv
<1>3. ASSUME NEW f \in Fetcher, Send(f) \/ Out(f) \/ Done(f) \/ Err(f) PROVE GInv'
  BY Zenon, <1>3, SendInv, OutInv, DoneInv, ErrInv
<1>4. ASSUME NEW f \in Fetcher, Visit(f) \/ Fetch(f) \/ FetcherEnds(f) PROVE GInv'
  BY Zenon, <1>4, VisitInv, FetchInv, FetcherEndsInv
<1> QED BY Zenon, <1>1, <1>2, <1>3, <1>4 DEF GNext, LoopStep, FetcherStep

-----------------------------------------------------------------------------
(* Theorems                                                                *)

\* GInv holds throughout.
THEOREM FetchInvariant == GSpec => []GInv
BY InitInv, NextInv, PTL DEF GSpec

\* The state of EnumerateChildrenAsync keeps its types: in particular
\* inProgress never falls below zero.
THEOREM FetchTypeCorrect == GSpec => []GTypeOK
<1>1. GInv => GTypeOK
  BY Zenon DEF GInv
<1> QED BY <1>1, FetchInvariant, PTL

\* A call of FetchGraph that returns nil has visited the whole DAG, whatever
\* its shape and however many fetchers there are.
THEOREM FetchIsComplete == GSpec => []FetchComplete
<1>1. GInv => FetchComplete
  BY Zenon DEF GInv, Ended, FetchComplete
<1> QED BY <1>1, FetchInvariant, PTL

\* No node is fetched twice, and a call that returns nil has fetched every
\* node it visited: an error of a fetcher is never passed over.
THEOREM FetchOnce == GSpec => []FetchedOnce
<1>1. GInv => FetchedOnce
  BY Zenon DEF GInv, Ended, Fetching, FetchedOnce
<1> QED BY <1>1, FetchInvariant, PTL

\* Both together: EnumerateChildrenAsync fetches what it should, each node
\* once.
THEOREM FetchIsExact == GSpec => []FetchedExactly
BY FetchIsComplete, FetchOnce, PTL DEF FetchedExactly

=============================================================================
