----------------------------- MODULE FetchGraph -----------------------------
(***************************************************************************)
(* EnumerateChildrenAsync (merkledag/merkledag.go), with which FetchGraph  *)
(* gets a whole DAG before it is pinned: a loop that hands nodes to a few  *)
(* fetchers over a channel without a buffer, takes the links they find and *)
(* counts the nodes in progress, and the fetchers.                         *)
(***************************************************************************)
EXTENDS Integers, Sequences, FiniteSets

CONSTANTS GNode,        \* the nodes of the DAG
          GKids,        \* the links of each node
          GRoot,        \* the root
          Fetcher,      \* the FetchGraphConcurrency goroutines
          Lost,         \* sets of nodes that cannot be fetched
          NoNode        \* nil

ASSUME FetchAssumption ==
    /\ IsFiniteSet(Fetcher)
    /\ GKids \in [GNode -> Seq(GNode)]
    /\ GRoot \in GNode
    /\ NoNode \notin GNode

VARIABLES nextc,        \* the node offered to the fetchers
          todobuffer,
          inProgress,
          visited,      \* the set behind `visit`
          fetcher,      \* where each fetcher is, and the node it has
          returned,     \* what the call returned
          lost,         \* nodes that cannot be fetched
          fetches       \* history: times each node was fetched

gvars == <<nextc, todobuffer, inProgress, visited, fetcher, returned, lost, fetches>>

Elems(s) == {s[i] : i \in 1..Len(s)}
At(pc, n) == [pc |-> pc, node |-> n]
Move(f, pc) == fetcher' = [fetcher EXCEPT ![f] = At(pc, fetcher[f].node)]

GInit ==
    /\ nextc = GRoot /\ todobuffer = <<>> /\ inProgress = 0 /\ visited = {}
    /\ fetcher = [f \in Fetcher |-> At("idle", NoNode)]
    /\ returned = "no"
    /\ lost \in Lost
    /\ fetches = [n \in GNode |-> 0]

-----------------------------------------------------------------------------
\* send <- next
CountedNot == inProgress
Counted == inProgress + 1
Send(f) ==
    /\ returned = "no" /\ nextc # NoNode /\ fetcher[f].pc = "idle"
    /\ fetcher' = [fetcher EXCEPT ![f] = At("visit", nextc)]
    /\ inProgress' = Counted
    /\ IF todobuffer = <<>> THEN nextc' = NoNode /\ UNCHANGED todobuffer
       ELSE nextc' = Head(todobuffer) /\ todobuffer' = Tail(todobuffer)
    /\ UNCHANGED <<visited, returned, lost, fetches>>

\* visit, under setlk
VisitAlways(f) == TRUE
ShouldVisit(f) == fetcher[f].node \notin visited
Visit(f) ==
    /\ fetcher[f].pc = "visit"
    /\ visited' = visited \cup {fetcher[f].node}
    /\ Move(f, IF ShouldVisit(f) THEN "fetch" ELSE "done")
    /\ UNCHANGED <<nextc, todobuffer, inProgress, returned, lost, fetches>>

\* getLinks: a node that is lost is an error, and a context that is done may be.
Answers(f) ==
    IF fetcher[f].node \in lost THEN {"err"}
    ELSE IF returned = "cancelled" THEN {"out", "err"} ELSE {"out"}
Fetch(f) ==
    /\ fetcher[f].pc = "fetch"
    /\ fetches' = [fetches EXCEPT ![fetcher[f].node] = @ + 1]
    /\ \E answer \in Answers(f) : Move(f, answer)
    /\ UNCHANGED <<nextc, todobuffer, inProgress, visited, returned, lost>>

\* out <- links: the first link is offered if nothing is.
BufferedOver(s) == s
Buffered(s) == todobuffer \o s
Out(f) ==
    LET links == GKids[fetcher[f].node]
    IN  /\ returned = "no" /\ fetcher[f].pc = "out"
        /\ Move(f, "done")
        /\ IF nextc = NoNode /\ links # <<>>
           THEN nextc' = Head(links) /\ todobuffer' = Buffered(Tail(links))
           ELSE todobuffer' = Buffered(links) /\ UNCHANGED nextc
        /\ UNCHANGED <<inProgress, visited, returned, lost, fetches>>

\* done <- struct{}{}: the call returns when nothing is in progress or offered.
AllDoneBefore(left) == left + 1 = 0 /\ nextc = NoNode
AllDone(left) == left = 0 /\ nextc = NoNode
Done(f) ==
    /\ returned = "no" /\ fetcher[f].pc = "done"
    /\ fetcher' = [fetcher EXCEPT ![f] = At("idle", NoNode)]
    /\ inProgress' = inProgress - 1
    /\ returned' = IF AllDone(inProgress - 1) THEN "nil" ELSE "no"
    /\ UNCHANGED <<nextc, todobuffer, visited, lost, fetches>>

\* errChan <- err: the fetcher ends, and the call returns the error.
Err(f) ==
    /\ returned = "no" /\ fetcher[f].pc = "err"
    /\ fetcher' = [fetcher EXCEPT ![f] = At("gone", NoNode)]
    /\ returned' = "err"
    /\ UNCHANGED <<nextc, todobuffer, inProgress, visited, lost, fetches>>

\* The caller's context is done.
Cancelled ==
    /\ returned = "no"
    /\ returned' = "cancelled"
    /\ UNCHANGED <<nextc, todobuffer, inProgress, visited, fetcher, lost, fetches>>

\* The call has returned: the context of the fetchers is cancelled and the feed
\* is closed.  A fetcher that has an error to report is not among those that end.
MayLeaveReceiving == {"idle", "done"}
MayLeave == {"idle", "out", "done"}
FetcherEnds(f) ==
    /\ returned # "no" /\ fetcher[f].pc \in MayLeave
    /\ fetcher' = [fetcher EXCEPT ![f] = At("gone", NoNode)]
    /\ UNCHANGED <<nextc, todobuffer, inProgress, visited, returned, lost, fetches>>

FetcherStep(f) == Visit(f) \/ Fetch(f) \/ FetcherEnds(f)
LoopStep == \E f \in Fetcher : Send(f) \/ Out(f) \/ Done(f) \/ Err(f)
GNext == \/ LoopStep \/ Cancelled
         \/ \E f \in Fetcher : FetcherStep(f)
GSpec == GInit /\ [][GNext]_gvars

\* The loop and every fetcher run; a fetch ends, with the links or an error.
GFairSpec == GSpec /\ WF_gvars(LoopStep) /\ \A f \in Fetcher : WF_gvars(FetcherStep(f))

-----------------------------------------------------------------------------
(* Properties                                                              *)

\* Types of EnumerateChildrenAsync's loop, its fetchers and their channels.
GTypeOK ==
    /\ nextc \in GNode \cup {NoNode}
    /\ todobuffer \in Seq(GNode)
    /\ inProgress \in Nat
    /\ visited \subseteq GNode
    /\ fetcher \in [Fetcher -> [pc : {"idle", "visit", "fetch", "out", "done", "err", "gone"},
                                node : GNode \cup {NoNode}]]
    /\ returned \in {"no", "nil", "err", "cancelled"}

\* A call that returns nil has visited the whole DAG: the root, and with every
\* node the nodes it links to.  None is lost between the buffer, the offer and
\* the fetchers, and the count reaches zero only when there is none left.
FetchComplete ==
    returned = "nil" => GRoot \in visited /\ \A n \in visited : Elems(GKids[n]) \subseteq visited

\* ... and has fetched each of them, once: no node is fetched twice, however many
\* links lead to it and however the fetchers interleave.
FetchedOnce ==
    /\ \A n \in GNode : fetches[n] <= 1
    /\ returned = "nil" => \A n \in visited : fetches[n] = 1 /\ n \notin lost

\* EnumerateChildrenAsync is exact: a call that returns nil has fetched the
\* whole DAG, and no call fetches a node twice.
FetchedExactly == FetchComplete /\ FetchedOnce

\* The call returns.
FetchReturns == <>(returned # "no")

\* The goroutines end once the call has returned, except one that has an error to
\* report to a call that listens no more.
FetchersEnd == \A f \in Fetcher : <>[](fetcher[f].pc \in {"gone", "err"})

\* ... which the code does not guarantee without the exception.
NoFetcherLeft == \A f \in Fetcher : <>[](fetcher[f].pc = "gone")

=============================================================================
