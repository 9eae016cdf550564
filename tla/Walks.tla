------------------------------- MODULE Walks --------------------------------
(***************************************************************************)
(* Walking a DAG (merkledag/traverse/traverse.go): depth first, before or  *)
(* after the children, or breadth first; with or without duplicates; with  *)
(* nodes that cannot be fetched and a function that may fail.              *)
(*                                                                         *)
(* A walk in progress is a record: the calls made so far (`calls`, each a  *)
(* node and its depth), the set of nodes seen, and whether it has failed.  *)
(***************************************************************************)
EXTENDS Sequences, FiniteSets, Integers

CONSTANTS TDags,        \* the DAGs walked: each node's children, in order
          TRoot,        \* the node a walk starts at
          TMissing,     \* sets of nodes that cannot be fetched
          TFails        \* nodes at which the function fails (0: at none)

VARIABLES tdag, order, skipDup, errFunc, missing, failsAt, walk

tvvars == <<tdag, order, skipDup, errFunc, missing, failsAt, walk>>

Start == [calls |-> <<>>, seen |-> {}, err |-> FALSE, run |-> FALSE]
Stopped(w) == [w EXCEPT !.err = TRUE]

\* callFunc
CallFunc(w, n, depth) ==
    LET called == [w EXCEPT !.calls = Append(@, <<n, depth>>)]
    IN  IF n = failsAt THEN Stopped(called) ELSE called

\* shouldSkip, and the mark it leaves.
ShouldSkip(w, n) == skipDup /\ n \in w.seen
MarkedNot(w, n) == w
Marked(w, n) == IF skipDup THEN [w EXCEPT !.seen = @ \cup {n}] ELSE w

\* getNode: a node that cannot be fetched is skipped if there is an ErrFunc that
\* says so, and ends the walk otherwise.
Unfetched(w, n) == n \in missing
GetNodeFails(w, n) == Unfetched(w, n) /\ ~errFunc
GetNodeNil(w, n) == Unfetched(w, n) \/ ShouldSkip(w, n)

-----------------------------------------------------------------------------
(* Depth first                                                             *)

\* dfsPreTraverse, dfsPostTraverse and the children's loop they share,
\* dfsDescend, from the i-th link on.
RECURSIVE DfsTraverse(_, _, _)
RECURSIVE DfsDescend(_, _, _, _)
DfsDescend(w, n, depth, i) ==
    IF w.err \/ i > Len(tdag[n]) THEN w
    ELSE LET kid == tdag[n][i]
         IN  IF GetNodeFails(w, kid) THEN Stopped(w)
             ELSE IF GetNodeNil(w, kid) THEN DfsDescend(w, n, depth, i + 1)
             ELSE DfsDescend(DfsTraverse(Marked(w, kid), kid, depth + 1), n, depth, i + 1)

DfsTraverseCalling(w, n, depth) ==
    IF order = "post"
    THEN LET below == DfsDescend(w, n, depth, 1) IN CallFunc(below, n, depth)
    ELSE DfsDescend(CallFunc(w, n, depth), n, depth, 1)
DfsTraverse(w, n, depth) ==
    IF order = "post"
    THEN LET below == DfsDescend(w, n, depth, 1)
         IN  IF below.err THEN below ELSE CallFunc(below, n, depth)
    ELSE DfsDescend(CallFunc(w, n, depth), n, depth, 1)

-----------------------------------------------------------------------------
(* Breadth first                                                           *)

\* The links of a node that is dequeued, from the i-th on; q is the queue.
RECURSIVE BfsEnqueue(_, _, _, _, _)
BfsEnqueue(w, q, n, depth, i) ==
    IF i > Len(tdag[n]) THEN [w |-> w, q |-> q]
    ELSE LET kid == tdag[n][i]
         IN  IF GetNodeFails(w, kid) THEN [w |-> Stopped(w), q |-> q]
             ELSE IF GetNodeNil(w, kid) THEN BfsEnqueue(w, q, n, depth, i + 1)
             ELSE BfsEnqueue(Marked(w, kid), Append(q, <<kid, depth + 1>>), n, depth, i + 1)

\* The order in which the queue gives its states back: deq takes the first.
DeqLast(q) == Len(q)
Deq(q) == 1
Without(q, i) == [j \in 1..(Len(q) - 1) |-> IF j < i THEN q[j] ELSE q[j + 1]]

RECURSIVE BfsLoop(_, _)
BfsLoop(w, q) ==
    IF w.err \/ q = <<>> THEN w
    ELSE LET curr   == q[Deq(q)]
             called == CallFunc(w, curr[1], curr[2])
             step   == BfsEnqueue(called, Without(q, Deq(q)), curr[1], curr[2], 1)
         IN  IF called.err THEN called ELSE BfsLoop(step.w, step.q)

\* bfsTraverse marks the root; the depth-first walks do not.
BfsTraverse(w, root) == BfsLoop(Marked(w, root), <<<<root, 0>>>>)

-----------------------------------------------------------------------------
Traverse(root) ==
    IF order = "bfs" THEN BfsTraverse(Start, root) ELSE DfsTraverse(Start, root, 0)

TvInit ==
    /\ tdag \in TDags
    /\ order \in {"pre", "post", "bfs"}
    /\ skipDup \in BOOLEAN
    /\ errFunc \in BOOLEAN
    /\ missing \in TMissing
    /\ failsAt \in TFails
    /\ walk = Start

Walk ==
    /\ ~walk.run
    /\ walk' = [Traverse(TRoot) EXCEPT !.run = TRUE]
    /\ UNCHANGED <<tdag, order, skipDup, errFunc, missing, failsAt>>

TvNext == Walk
TvSpec == TvInit /\ [][TvNext]_tvvars

-----------------------------------------------------------------------------
(* Properties                                                              *)

\* Links the walk can follow, and what they reach from the root: a reference
\* that does not depend on an order.
CanReach == LET F[k \in 0..Cardinality(DOMAIN tdag)] ==
                  IF k = 0 THEN {TRoot}
                  ELSE F[k - 1] \cup {n \in DOMAIN tdag \ missing :
                         \E m \in F[k - 1] : \E i \in DOMAIN tdag[m] : tdag[m][i] = n}
            IN  F[Cardinality(DOMAIN tdag)]

Called(n) == {i \in DOMAIN walk.calls : walk.calls[i][1] = n}

\* A walk that ends without an error has called the function for every node it
\* can reach and for nothing else, and once for each when duplicates are skipped.
VisitsAll ==
    (walk.run /\ ~walk.err)
        => /\ {walk.calls[i][1] : i \in DOMAIN walk.calls} = CanReach
           /\ skipDup => \A n \in DOMAIN tdag : Cardinality(Called(n)) <= 1

Child(n, m) == \E l \in DOMAIN tdag[n] : tdag[n][l] = m

\* Post-order without duplicates calls a node only after the children it can
\* reach; the other two orders call a node only after a parent that is one level
\* above it; and breadth first never goes back to a smaller depth.
OrderKept ==
    LET calls == walk.calls
    IN  \A j \in DOMAIN calls :
            /\ (order = "post" /\ skipDup)
                  => \A i \in DOMAIN calls : Child(calls[j][1], calls[i][1]) => i < j
            /\ (order # "post" /\ j > 1)
                  => \E i \in 1..(j - 1) : /\ Child(calls[i][1], calls[j][1])
                                          /\ calls[j][2] = calls[i][2] + 1
            /\ (order = "bfs" /\ j > 1) => calls[j - 1][2] <= calls[j][2]

\* An error stops the walk: after the function has failed nothing more is called,
\* and an error has one of the two causes.
StopsAtError ==
    walk.run =>
        /\ \A i \in DOMAIN walk.calls : walk.calls[i][1] = failsAt => i = Len(walk.calls)
        /\ walk.err => failsAt # 0 \/ (missing # {} /\ ~errFunc)

-----------------------------------------------------------------------------
(***************************************************************************)
(* The refs command (core/commands/refs.go): a goroutine writes the edges  *)
(* below its arguments to a channel without a buffer, and the client reads *)
(* them until it leaves.                                                   *)
(***************************************************************************)

CONSTANTS RefKids,      \* the links of each node, in order
          RefArgs,      \* argument lists
          RefAbsent     \* sets of nodes that cannot be fetched

VARIABLES rfargs, unique, recursive,
          rfabsent,     \* nodes that cannot be fetched
          nextArg,      \* arguments written or being written
          stack,        \* the calls of WriteRefs: a node and its next link
          rfseen,       \* the writer's set
          offer,        \* the edge the writer is sending, if any
          rfout,        \* edges the client has read
          rfstatus,     \* "run", "ok" or "failed"
          left          \* the client has left: its context is done

rfvars == <<rfargs, unique, recursive, rfabsent, nextArg, stack, rfseen, offer, rfout, rfstatus, left>>
rfinput == <<rfargs, unique, recursive, rfabsent>>

NoOffer == <<>>
Top == stack[Len(stack)]
Below == SubSeq(stack, 1, Len(stack) - 1)
Advanced == Append(Below, [Top EXCEPT !.i = @ + 1])

-----------------------------------------------------------------------------
\* skip, and the mark it leaves.
SkipNever(n) == FALSE
Skip(n) == unique /\ n \in rfseen
Seen(n) == IF unique THEN rfseen \cup {n} ELSE rfseen

\* WriteRefs of the next object: a single listing skips an object it has seen.
WriteRefs ==
    /\ rfstatus = "run" /\ stack = <<>> /\ offer = NoOffer
    /\ nextArg < Len(rfargs)
    /\ nextArg' = nextArg + 1
    /\ LET o == rfargs[nextArg + 1]
       IN  /\ stack' = IF ~recursive /\ Skip(o) THEN <<>> ELSE <<[node |-> o, i |-> 1]>>
           /\ rfseen' = IF recursive THEN rfseen ELSE Seen(o)
    /\ UNCHANGED <<rfinput, offer, rfout, rfstatus, left>>

HasLink == stack # <<>> /\ offer = NoOffer /\ Top.i <= Len(RefKids[Top.node])
Link == RefKids[Top.node][Top.i]

\* A link that is skipped.
SkipLink ==
    /\ rfstatus = "run" /\ HasLink /\ Skip(Link)
    /\ stack' = Advanced
    /\ UNCHANGED <<rfinput, nextArg, rfseen, offer, rfout, rfstatus, left>>

\* WriteEdge: a context that is done is an error; otherwise the edge is sent, and
\* the send waits for the client alone.
WriteEdge ==
    /\ rfstatus = "run" /\ HasLink /\ ~Skip(Link)
    /\ rfseen' = Seen(Link)
    /\ IF left THEN rfstatus' = "failed" /\ UNCHANGED offer
       ELSE offer' = <<Top.node, Link>> /\ UNCHANGED rfstatus
    /\ UNCHANGED <<rfinput, nextArg, stack, rfout, left>>

\* The client reads the edge; a recursive writer then gets the linked node and
\* writes its refs.  The promise of a node is answered, with the node or an error.
DescendedOnce(n) == IF recursive THEN Append(Below, [node |-> n, i |-> 1]) ELSE Advanced
Descended(n) == IF recursive THEN Append(Advanced, [node |-> n, i |-> 1]) ELSE Advanced
AnsweredFound(n) == n \notin rfabsent
Answered(n) == TRUE
EdgeRead ==
    /\ offer # NoOffer /\ ~left
    /\ Answered(Link)
    /\ rfout' = Append(rfout, offer)
    /\ offer' = NoOffer
    /\ IF recursive /\ Link \in rfabsent
       THEN rfstatus' = "failed" /\ UNCHANGED stack
       ELSE stack' = Descended(Link) /\ UNCHANGED rfstatus
    /\ UNCHANGED <<rfinput, nextArg, rfseen, left>>

\* A call of WriteRefs returns.
LinksDone ==
    /\ rfstatus = "run" /\ stack # <<>> /\ offer = NoOffer
    /\ Top.i > Len(RefKids[Top.node])
    /\ stack' = Below
    /\ UNCHANGED <<rfinput, nextArg, rfseen, offer, rfout, rfstatus, left>>

\* Every object is written: the channel is closed.
AllWritten ==
    /\ rfstatus = "run" /\ stack = <<>> /\ offer = NoOffer
    /\ nextArg = Len(rfargs)
    /\ rfstatus' = "ok"
    /\ UNCHANGED <<rfinput, nextArg, stack, rfseen, offer, rfout, left>>

\* The client leaves.
Leave ==
    /\ ~left /\ rfstatus = "run"
    /\ left' = TRUE
    /\ UNCHANGED <<rfinput, nextArg, stack, rfseen, offer, rfout, rfstatus>>

RfInit ==
    /\ rfargs \in RefArgs /\ unique \in BOOLEAN /\ recursive \in BOOLEAN
    /\ rfabsent \in RefAbsent
    /\ nextArg = 0 /\ stack = <<>> /\ rfseen = {} /\ offer = NoOffer
    /\ rfout = <<>> /\ rfstatus = "run" /\ left = FALSE

Writer == WriteRefs \/ SkipLink \/ WriteEdge \/ EdgeRead \/ LinksDone \/ AllWritten
RfNext == Writer \/ Leave
RfSpec == RfInit /\ [][RfNext]_rfvars

\* The writer runs, and a client that has not left reads.
RfFairSpec == RfSpec /\ WF_rfvars(Writer)

-----------------------------------------------------------------------------
(* Properties                                                              *)

\* Reference: the edges below n in the order of a recursive listing.
RECURSIVE EdgesFrom(_, _)
EdgesFrom(n, i) ==
    IF i > Len(RefKids[n]) THEN <<>>
    ELSE LET kid == RefKids[n][i]
         IN  <<<<n, kid>>>> \o (IF recursive THEN EdgesFrom(kid, 1) ELSE <<>>) \o EdgesFrom(n, i + 1)
RECURSIVE AllEdges(_)
AllEdges(args) == IF args = <<>> THEN <<>> ELSE EdgesFrom(Head(args), 1) \o AllEdges(Tail(args))

Elements(s) == {s[i] : i \in DOMAIN s}
Destinations(s) == {s[i][2] : i \in DOMAIN s}

\* Without -u the client reads the edges in the order of the recursive listing,
\* none missing in between, whenever it or a failure stops it; a command that
\* ends well has given all of them.
EdgesInOrder ==
    ~unique => LET all == AllEdges(rfargs)
               IN  /\ Len(rfout) <= Len(all) /\ rfout = SubSeq(all, 1, Len(rfout))
                   /\ rfstatus = "ok" => rfout = all

\* With -u no destination is given twice, and a recursive command that ends well
\* has given every node below its arguments: skipping a node that was seen skips
\* nothing below it that was not.
UniqueOnce ==
    unique => /\ Cardinality(Destinations(rfout)) = Len(rfout)
              /\ Elements(rfout) \subseteq Elements(AllEdges(rfargs))
              /\ (rfstatus = "ok" /\ recursive) => Destinations(rfout) = Destinations(AllEdges(rfargs))

\* The writer ends, unless the client leaves while an edge is being sent to it.
WriterEnds == []((rfstatus = "run") ~> (rfstatus # "run" \/ (left /\ offer # NoOffer)))

\* What -u says of a listing that is not recursive: only duplicates are omitted.
UniqueComplete ==
    (unique /\ rfstatus = "ok") => Destinations(rfout) = Destinations(AllEdges(rfargs))

-----------------------------------------------------------------------------
(***************************************************************************)
(* getNodesFromBG (merkledag/merkledag.go), behind GetMany: a goroutine    *)
(* that decodes the blocks of a request into a channel with a place for    *)
(* each key, and the reader of that channel (ipld.GetNodes), which leaves  *)
(* when its context is done.                                               *)
(***************************************************************************)

CONSTANTS ManyLists,    \* lists of keys callers ask for
          Undecodable   \* keys whose block does not decode

VARIABLES mkeys,        \* the list asked for
          coming,       \* blocks the block service has yet to send
          mcount,       \* `count`
          decoder,      \* the goroutine, with what it sends
          mout,         \* what the channel `out` holds
          mreader,      \* the reader: "reading", "ended" (channel closed), "failed" or "left"
          mgot,         \* what it has read
          mctx          \* "live" or "done"

gmvars == <<mkeys, coming, mcount, decoder, mout, mreader, mgot, mctx>>

\* dedupKeys
AsListed(list) == Len(list)
dedupKeys(list) == Cardinality({list[i] : i \in 1..Len(list)})

\* make(chan *ipld.NodeOption, len(keys))
CapacityShort == dedupKeys(mkeys) - 1
Capacity == dedupKeys(mkeys)

GmInit ==
    /\ mkeys \in ManyLists
    /\ coming = {mkeys[i] : i \in 1..Len(mkeys)}
    /\ mcount = 0 /\ decoder = [pc |-> "select", item |-> "none"]
    /\ mout = <<>> /\ mreader = "reading" /\ mgot = <<>> /\ mctx = "live"

Sends(item) == decoder' = [pc |-> "send", item |-> item]
Gone == [pc |-> "gone", item |-> "none"]

\* A block arrives: a node, or the error of ipld.Decode.
Decoded(k) == IF k \in Undecodable THEN "undecodable" ELSE k
BlockArrives ==
    /\ decoder.pc = "select"
    /\ \E k \in coming : coming' = coming \ {k} /\ Sends(Decoded(k))
    /\ UNCHANGED <<mkeys, mcount, mout, mreader, mgot, mctx>>

\* The channel of blocks is closed, after the last block or by the context.
ShortNever == FALSE
Short == mcount # dedupKeys(mkeys)
BlocksClosed ==
    /\ decoder.pc = "select" /\ (coming = {} \/ mctx = "done")
    /\ IF Short THEN Sends("failed") ELSE decoder' = Gone
    /\ UNCHANGED <<mkeys, coming, mcount, mout, mreader, mgot, mctx>>

\* case <-ctx.Done()
SeesCancel ==
    /\ decoder.pc = "select" /\ mctx = "done"
    /\ Sends("cancelled")
    /\ UNCHANGED <<mkeys, coming, mcount, mout, mreader, mgot, mctx>>

\* out <- option: waits for a place.  After an error the goroutine closes `out`.
Errors == {"failed", "cancelled", "undecodable"}
Queue ==
    /\ decoder.pc = "send" /\ Len(mout) < Capacity
    /\ mout' = Append(mout, decoder.item)
    /\ IF decoder.item \in Errors THEN decoder' = Gone /\ UNCHANGED mcount
       ELSE decoder' = [pc |-> "select", item |-> "none"] /\ mcount' = mcount + 1
    /\ UNCHANGED <<mkeys, coming, mreader, mgot, mctx>>

\* The reader: an option, the end of the channel, its context.
Read ==
    /\ mreader = "reading" /\ mout # <<>>
    /\ mgot' = Append(mgot, Head(mout)) /\ mout' = Tail(mout)
    /\ mreader' = IF Head(mout) \in Errors THEN "failed" ELSE "reading"
    /\ UNCHANGED <<mkeys, coming, mcount, decoder, mctx>>
ReadEnd ==
    /\ mreader = "reading" /\ mout = <<>> /\ decoder.pc = "gone"
    /\ mreader' = "ended"
    /\ UNCHANGED <<mkeys, coming, mcount, decoder, mout, mgot, mctx>>
ReaderLeaves ==
    /\ mreader = "reading" /\ mctx = "done"
    /\ mreader' = "left"
    /\ UNCHANGED <<mkeys, coming, mcount, decoder, mout, mgot, mctx>>
CancelMany ==
    /\ mctx = "live"
    /\ mctx' = "done"
    /\ UNCHANGED <<mkeys, coming, mcount, decoder, mout, mreader, mgot>>

Decoder == BlockArrives \/ BlocksClosed \/ SeesCancel \/ Queue
Reader == Read \/ ReadEnd \/ ReaderLeaves
GmNext == Decoder \/ Reader \/ CancelMany
GmSpec == GmInit /\ [][GmNext]_gmvars
GmFairSpec == GmSpec /\ WF_gmvars(Decoder) /\ WF_gmvars(Reader)

-----------------------------------------------------------------------------
(* Properties                                                              *)

Asked == {mkeys[i] : i \in 1..Len(mkeys)}
Got == {mgot[i] : i \in 1..Len(mgot)}

\* A reader that meets the end of the channel without an error has read every
\* node asked for, and each one once.
ManyExact == mreader = "ended" => Got = Asked /\ Len(mgot) = Cardinality(Asked)

\* "failed to fetch all nodes" is said of a request some node of which is missing,
\* also when the request names a key twice.
ManyHonest == "failed" \in Got => \E k \in Asked : k \notin Got

\* The goroutine ends, except when the reader left without reading while every
\* node was queued: the error of the context then finds no place.
ManyEnds ==
    <>(decoder.pc = "gone" \/ (decoder.item = "cancelled" /\ mgot = <<>> /\ mcount = Cardinality(Asked)))
=============================================================================
