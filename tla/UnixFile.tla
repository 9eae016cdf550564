----------------------------- MODULE UnixFile -------------------------------
(***************************************************************************)
(* Files as DAGs of UnixFS nodes: the balanced and the trickle layout that *)
(* the importer gives the chunks of a file, appending to a trickle DAG     *)
(* (importer/helpers, balanced, trickle) and reading a file back from an   *)
(* offset (unixfs/io/pbdagreader.go).                                      *)
(*                                                                         *)
(* A node is its kind (a raw block, or a UnixFS node of type Raw or File), *)
(* its own data, its children, and the sizes it records for them.  The     *)
(* chunks that a splitter still has to give are a sequence.                *)
(***************************************************************************)
EXTENDS Integers, Sequences, SequencesExt

CONSTANTS Maxlinks,       \* DagBuilderParams.Maxlinks
          LayerRepeat,    \* layerRepeat of the trickle layout
          MaxChunks,      \* chunks of a file
          MaxAppend       \* chunks appended to it

-----------------------------------------------------------------------------
(* unixfs.go: FSNode.                                                      *)

FNode(k, d) == [kind |-> k, data |-> d, kids |-> <<>>, sizes |-> <<>>]
NewFSNode == FNode("File", <<>>)
NumChildren(n) == Len(n.sizes)
SumSizes(s) == FoldLeft(LAMBDA a, b : a + b, 0, s)

\* FSNode.FileSize, or the length of a raw block.
FileSize(n) == Len(n.data) + SumSizes(n.sizes)

\* AddBlockSize and AddNodeLink; RemoveBlockSize and SetLinks.
AddChildUnsized(n, c) == [n EXCEPT !.kids = Append(@, c), !.sizes = Append(@, Len(c.data))]
AddChild(n, c) == [n EXCEPT !.kids = Append(@, c), !.sizes = Append(@, FileSize(c))]
RemoveLast(n) == [n EXCEPT !.kids = Front(@), !.sizes = Front(@)]

\* The bytes of a file, and what its nodes should record.
RECURSIVE Content(_)
Content(n) == n.data \o FlattenSeq([i \in DOMAIN n.kids |-> Content(n.kids[i])])

RECURSIVE SizesRight(_)
SizesRight(n) ==
    /\ Len(n.sizes) = Len(n.kids)
    /\ \A i \in DOMAIN n.kids : /\ n.sizes[i] = Len(Content(n.kids[i]))
                                /\ SizesRight(n.kids[i])

-----------------------------------------------------------------------------
(* helpers/dagbuilder.go.  [n, rest]: the node filled, the chunks left.    *)

NewLeaf(raw, d) == IF raw THEN FNode("block", d) ELSE FNode("Raw", d)
NewLeafNode(raw, d) == IF raw THEN FNode("block", d) ELSE FNode("File", d)

RECURSIVE FillNodeLayer(_, _, _)
FillNodeLayer(raw, n, rest) ==
    IF NumChildren(n) >= Maxlinks \/ rest = <<>> THEN [n |-> n, rest |-> rest]
    ELSE FillNodeLayer(raw, AddChild(n, NewLeaf(raw, Head(rest))), Tail(rest))

-----------------------------------------------------------------------------
(* balanced/builder.go.                                                    *)

RECURSIVE fillNodeRec(_, _, _, _)
fillNodeRec(raw, n, rest, depth) ==
    IF NumChildren(n) >= Maxlinks \/ rest = <<>> THEN [n |-> n, rest |-> rest]
    ELSE LET c == IF depth = 1
                  THEN [n |-> NewLeafNode(raw, Head(rest)), rest |-> Tail(rest)]
                  ELSE fillNodeRec(raw, NewFSNode, rest, depth - 1)
         IN  fillNodeRec(raw, AddChild(n, c.n), c.rest, depth)

\* The root grows by a level while there are chunks left.
RECURSIVE GrowRoot(_, _, _, _)
GrowRootSameDepth(raw, root, rest, depth) ==
    LET f == fillNodeRec(raw, AddChild(NewFSNode, root), rest, 1)
    IN  IF rest = <<>> THEN root ELSE GrowRoot(raw, f.n, f.rest, depth)
GrowRoot(raw, root, rest, depth) ==
    LET f == fillNodeRec(raw, AddChild(NewFSNode, root), rest, depth)
    IN  IF rest = <<>> THEN root ELSE GrowRoot(raw, f.n, f.rest, depth + 1)

BalancedLayout(raw, chunks) ==
    IF chunks = <<>> THEN NewLeafNode(raw, <<>>)
    ELSE GrowRoot(raw, NewLeafNode(raw, Head(chunks)), Tail(chunks), 1)

-----------------------------------------------------------------------------
(* trickle/trickledag.go.  Depth 0 stands for the unlimited depth -1.      *)

RECURSIVE fillTrickleRec(_, _, _, _), TrickleLayers(_, _, _, _, _, _)
fillTrickleRec(raw, n, rest, maxDepth) ==
    LET f == FillNodeLayer(raw, n, rest)
    IN  TrickleLayers(raw, f.n, f.rest, maxDepth, 1, 0)

\* Child number `layer` of depth `depth`, and on.
TrickleLayersDeep(raw, n, rest, maxDepth, depth, layer) ==
    IF (maxDepth > 0 /\ depth = maxDepth) \/ rest = <<>> THEN [n |-> n, rest |-> rest]
    ELSE LET c == fillTrickleRec(raw, NewFSNode, rest, depth + 1)
         IN  TrickleLayers(raw, AddChild(n, c.n), c.rest, maxDepth, depth, layer + 1)
TrickleLayers(raw, n, rest, maxDepth, depth, layer) ==
    IF (maxDepth > 0 /\ depth = maxDepth) \/ rest = <<>> THEN [n |-> n, rest |-> rest]
    ELSE IF layer = LayerRepeat THEN TrickleLayers(raw, n, rest, maxDepth, depth + 1, 0)
    ELSE LET c == fillTrickleRec(raw, NewFSNode, rest, depth)
         IN  TrickleLayers(raw, AddChild(n, c.n), c.rest, maxDepth, depth, layer + 1)

TrickleLayout(raw, chunks) == fillTrickleRec(raw, NewFSNode, chunks, 0).n

trickleDepthInfo(n) ==
    IF NumChildren(n) < Maxlinks THEN [n |-> 0, layer |-> 0]
    ELSE [n     |-> (NumChildren(n) - Maxlinks) \div LayerRepeat + 1,
          layer |-> (NumChildren(n) - Maxlinks) % LayerRepeat]

\* Add children of depth i, LayerRepeat of each, from number j on, up to depth
\* `to`, exclusive.
NoLimit == MaxChunks + MaxAppend + 2
RECURSIVE AddLayers(_, _, _, _, _, _)
AddLayers(raw, n, rest, i, j, to) ==
    IF rest = <<>> \/ i >= to THEN [n |-> n, rest |-> rest]
    ELSE IF j = LayerRepeat THEN AddLayers(raw, n, rest, i + 1, 0, to)
    ELSE LET c == fillTrickleRec(raw, NewFSNode, rest, i)
         IN  AddLayers(raw, AddChild(n, c.n), c.rest, i, j + 1, to)

RECURSIVE appendRec(_, _, _, _), appendFillLastChild(_, _, _, _, _)

\* The last child with what was appended below it, and its siblings after it.
ReplaceLast(raw, n, c, depth, layerFill) ==
    LET m == AddChild(RemoveLast(n), c.n)
    IN  IF layerFill = 0 THEN [n |-> m, rest |-> c.rest]
        ELSE AddLayers(raw, m, c.rest, depth, layerFill, depth + 1)

\* The direct children, where there is room for more; the last child, of the
\* node and the chunks that f gives; the deeper ones.
FillFirst(raw, n, rest) == IF trickleDepthInfo(n).n = 0 THEN FillNodeLayer(raw, n, rest)
                           ELSE [n |-> n, rest |-> rest]
FillLast(raw, f, depth, layerFill) == appendFillLastChild(raw, f.n, f.rest, depth, layerFill)
Deepen(raw, g, k, to) ==
    AddLayers(raw, g.n, g.rest, IF g.rest # <<>> THEN k + 1 ELSE k, 0, to)

appendFillLastChild(raw, n, rest, depth, layerFill) ==
    IF NumChildren(n) <= Maxlinks THEN [n |-> n, rest |-> rest]
    ELSE ReplaceLast(raw, n, appendRec(raw, Last(n.kids), rest, depth - 1), depth, layerFill)

appendRec(raw, n, rest, depth) ==
    LET info == trickleDepthInfo(n)
        k    == IF info.n = 0 THEN 1 ELSE info.n
    IN  IF depth = 0 \/ rest = <<>> THEN [n |-> n, rest |-> rest]
        ELSE IF k = depth THEN FillFirst(raw, n, rest)
        ELSE Deepen(raw, FillLast(raw, FillFirst(raw, n, rest), k, info.layer), k, depth)

\* A raw block cannot be appended to.
CanAppend(n) == n.kind # "block"
TrickleAppend(raw, n, rest) ==
    LET info == trickleDepthInfo(n)
        f    == FillFirst(raw, n, rest)
        k    == IF info.n = 0 THEN 1 ELSE info.n
    IN  IF info.n = 0 /\ f.rest = <<>> THEN f.n
        ELSE Deepen(raw, FillLast(raw, f, k - 1, info.layer), k, NoLimit).n

\* verifyTDagRec.  A leaf has depth 0, the root no limit (-1 in the code).
RECURSIVE verifyTDagRec(_, _, _)
verifyTDagRec(raw, n, depth) ==
    IF depth = 0 THEN n.kids = <<>> /\ n.kind = (IF raw THEN "block" ELSE "Raw")
    ELSE /\ n.kind = "File" /\ n.data = <<>>
         /\ \A i \in DOMAIN n.kids :
               IF i <= Maxlinks THEN verifyTDagRec(raw, n.kids[i], 0)
               ELSE LET d == (i - 1 - Maxlinks) \div LayerRepeat + 1
                    IN  d < depth /\ verifyTDagRec(raw, n.kids[i], d)

-----------------------------------------------------------------------------
(* pbdagreader.go.  A reader: what its buffer has left, the link to load   *)
(* next and the offset it believes to be at.                               *)

NewReader(n) == [n |-> n, buf |-> n.data, link |-> 0, off |-> 0]

\* Everything the reader would still return.
Unread(r) == r.buf \o FlattenSeq([i \in 1..(Len(r.n.kids) - r.link) |->
                                     Content(r.n.kids[r.link + i])])

ReadBytes(r, k) == SubSeq(Unread(r), 1, IF k < Len(Unread(r)) THEN k ELSE Len(Unread(r)))

\* Skip k bytes: the buffer, then whole links, then part of one.
RECURSIVE AfterRead(_, _)
AfterRead(r, k) ==
    IF k <= Len(r.buf)
    THEN [r EXCEPT !.buf = SubSeq(@, k + 1, Len(@)), !.off = @ + k]
    ELSE IF r.link >= Len(r.n.kids)
    THEN [r EXCEPT !.buf = <<>>, !.off = @ + Len(r.buf)]
    ELSE AfterRead([r EXCEPT !.buf = Content(r.n.kids[r.link + 1]), !.link = @ + 1,
                             !.off = @ + Len(r.buf)], k - Len(r.buf))

\* The first link that reaches beyond `left` bytes after the node's own data,
\* and the bytes before it; no link: 0.
Before(n, i) == SumSizes(SubSeq(n.sizes, 1, i - 1))
LinkAt(n, left) ==
    LET S == {i \in DOMAIN n.sizes : Before(n, i) + n.sizes[i] > left}
    IN  IF S = {} THEN 0 ELSE CHOOSE i \in S : \A j \in S : i <= j

\* What remains to skip within that link.
WithinUnreduced(n, i, left) == left
Within(n, i, left) == IF i = 0 THEN left - SumSizes(n.sizes) ELSE left - Before(n, i)

\* Seek from the start.  When the offset is beyond the last link, the position
\* among the links stays what it was, and the next link is loaded all the same.
RECURSIVE SeekReader(_, _)
SeekReader(r, offset) ==
    LET own  == Len(r.n.data)
        left == offset - own
        i    == LinkAt(r.n, left)
        at   == IF i = 0 THEN r.link + 1 ELSE i
        kid  == SeekReader(NewReader(r.n.kids[at]), Within(r.n, i, left))
    IN  IF offset = r.off THEN r
        ELSE IF own >= offset
        THEN [r EXCEPT !.buf = SubSeq(r.n.data, offset + 1, own), !.link = 0, !.off = offset]
        ELSE IF at > Len(r.n.kids) THEN [r EXCEPT !.buf = <<>>]
        ELSE [r EXCEPT !.buf = Unread(kid), !.link = at, !.off = offset]

-----------------------------------------------------------------------------
(* The importer as a process: it lays a file out and appends to it.        *)

VARIABLES raw, layout, chunks, dag, phase

uvars == <<raw, layout, chunks, dag, phase>>
Chunk(i) == <<2 * i - 1, 2 * i>>

ULayout ==
    /\ phase = "empty" /\ phase' = "laid"
    /\ \E k \in 0..MaxChunks : chunks' = [i \in 1..k |-> Chunk(i)]
    /\ dag' = IF layout = "balanced" THEN BalancedLayout(raw, chunks') ELSE TrickleLayout(raw, chunks')
    /\ UNCHANGED <<raw, layout>>

UAppend ==
    /\ phase # "empty" /\ Len(chunks) <= MaxChunks /\ CanAppend(dag)
    /\ \E k \in 1..MaxAppend :
          LET new == [i \in 1..k |-> Chunk(Len(chunks) + i)]
          IN  chunks' = chunks \o new /\ dag' = TrickleAppend(raw, dag, new)
    /\ phase' = "grown" /\ UNCHANGED <<raw, layout>>

UInit == raw \in BOOLEAN /\ layout \in {"balanced", "trickle"} /\ chunks = <<>>
         /\ dag = NewFSNode /\ phase = "empty"
UNext == ULayout \/ UAppend
USpec == UInit /\ [][UNext]_uvars

-----------------------------------------------------------------------------
(* Properties                                                              *)

\* Laying out and appending keep the bytes of the file, in order, and every
\* node records the sizes of its children.
LayoutWhole == phase # "empty" => Content(dag) = FlattenSeq(chunks) /\ SizesRight(dag)

RECURSIVE Depths(_)
Depths(n) == IF n.kids = <<>> THEN {0}
             ELSE {d + 1 : d \in UNION {Depths(n.kids[i]) : i \in DOMAIN n.kids}}

\* "a balanced DAG": all leaves of a balanced layout have the same depth, and
\* no shallower one would have room for the chunks.
Pow[k \in 0..20] == IF k = 0 THEN 1 ELSE Maxlinks * Pow[k - 1]
Balanced ==
    (phase = "laid" /\ layout = "balanced")
        => \E d \in 0..8 : /\ Depths(dag) = {d}
                           /\ Len(chunks) <= Pow[d] /\ (d > 0 => Len(chunks) > Pow[d - 1])

\* VerifyTrickleDagStructure accepts what the trickle layout makes.
TrickleVerified == (phase = "laid" /\ layout = "trickle") => verifyTDagRec(raw, dag, NoLimit)

\* "Append appends the data in `db` to the dag, using the Trickledag format": it
\* also accepts what Append makes of it.
AppendVerified == (phase # "empty" /\ layout = "trickle") => verifyTDagRec(raw, dag, NoLimit)

\* Seek then read gives the bytes from that offset on, wherever the reader was
\* before, except for an offset at the end of a file that has links: the seek
\* leaves the reader where it was.
SeekExact ==
    phase # "empty" =>
        LET whole == Content(dag) IN
        \A o \in 0..Len(whole) : \A p \in 0..Len(whole) :
            (o < Len(whole) \/ dag.kids = <<>>)
                => Unread(SeekReader(AfterRead(NewReader(dag), p), o)) = SubSeq(whole, o + 1, Len(whole))

\* "Seek implements io.Seeker, and will seek to a given offset in the file":
\* also to its end, where nothing is left to read.
SeekToEnd ==
    phase # "empty" =>
        LET whole == Content(dag) IN
        \A p \in 0..Len(whole) : Unread(SeekReader(AfterRead(NewReader(dag), p), Len(whole))) = <<>>

-----------------------------------------------------------------------------
(***************************************************************************)
(* Writing into a file (unixfs/mod/dagmodifier.go): the DagModifier that   *)
(* MFS files and the FUSE mount write, read, seek and truncate through.    *)
(* It buffers writes, and on Sync overwrites the leaves that the buffer    *)
(* covers and appends the rest in the trickle layout.  The file it opens   *)
(* is one that the importer of UnixFile made.                              *)
(*                                                                         *)
(* `m` is the DagModifier.  `want` and `pos` are the bytes and the         *)
(* position that the calls made so far should give: they are history.      *)
(***************************************************************************)

CONSTANTS MaxOpen,        \* chunks of a file that is opened for writing
          MaxSize,        \* largest offset written, sought or truncated to
          MaxOps,         \* calls made
          WriteBuffer,    \* writebufferSize
          SplitSize       \* bytes of a chunk, also of the sparse ones

VARIABLES m, want, pos, odd, misread, nops

mvars == <<m, want, pos, odd, misread, nops>>
fvars == <<uvars, mvars>>

Zeros(k) == [i \in 1..k |-> 0]
Smaller(a, b) == IF a < b THEN a ELSE b

\* b written over s at offset o, which may lie beyond the end of s.
Overlay(s, o, b) ==
    LET t == IF o > Len(s) THEN s \o Zeros(o - Len(s)) ELSE s
    IN  SubSeq(t, 1, o) \o b \o SubSeq(t, o + Len(b) + 1, Len(t))

RECURSIVE Split(_)
Split(s) == IF s = <<>> THEN <<>>
            ELSE <<SubSeq(s, 1, Smaller(SplitSize, Len(s)))>>
                     \o Split(SubSeq(s, SplitSize + 1, Len(s)))

appendData(n, s) == TrickleAppend(raw, n, Split(s))

-----------------------------------------------------------------------------
(* modifyDag: [n, rest], the node written over, what is left of the buffer *)

RECURSIVE modifyDag(_, _, _), ModifyLinks(_, _, _, _, _)
ModifyLeaf(n, offset, b) ==
    LET k == Smaller(Len(n.data) - offset, Len(b))
    IN  [n    |-> [n EXCEPT !.data = Overlay(@, offset, SubSeq(b, 1, k))],
         rest |-> SubSeq(b, k + 1, Len(b))]

\* From link i on, with the bytes before it in `before`.
ModifyLinksOnce(n, i, before, offset, b) ==
    LET c == modifyDag(n.kids[i], offset - before, b)
        next == before + n.sizes[i]
    IN  IF i > Len(n.sizes) THEN [n |-> n, rest |-> b]
        ELSE IF next > offset THEN [n |-> [n EXCEPT !.kids[i] = c.n], rest |-> c.rest]
        ELSE ModifyLinks(n, i + 1, next, offset, b)
ModifyLinks(n, i, before, offset, b) ==
    LET c == modifyDag(n.kids[i], offset - before, b)
        next == before + n.sizes[i]
    IN  IF i > Len(n.sizes) THEN [n |-> n, rest |-> b]
        ELSE IF next > offset
        THEN IF c.rest = <<>> THEN [n |-> [n EXCEPT !.kids[i] = c.n], rest |-> <<>>]
             ELSE ModifyLinks([n EXCEPT !.kids[i] = c.n], i + 1, next, next, c.rest)
        ELSE ModifyLinks(n, i + 1, next, offset, b)

modifyDag(n, offset, b) == IF n.kids = <<>> THEN ModifyLeaf(n, offset, b)
                           ELSE ModifyLinks(n, 1, 0, offset, b)

\* The slice of a leaf's data must exist.
CanModifyInside(n, offset) == n.kids = <<>> => offset < Len(n.data)
CanModify(n, offset) == n.kids = <<>> => offset <= Len(n.data)

-----------------------------------------------------------------------------
(* dagTruncate                                                             *)

\* The child to cut: the first that reaches beyond the new size.
CutAt(n, size) == LinkAt(n, size)
CanTruncate(n, size) == n.kids = <<>> \/ CutAt(n, size) # 0

RECURSIVE dagTruncate(_, _)
TruncateLeaf(n, size) == [n EXCEPT !.data = SubSeq(@, 1, size),
                                   !.kind = IF @ = "block" THEN @ ELSE "Raw"]
dagTruncateUnsized(n, size) ==
    LET i == CutAt(n, size)
        c == dagTruncate(n.kids[i], size - Before(n, i))
    IN  IF n.kids = <<>> THEN TruncateLeaf(n, size)
        ELSE [n EXCEPT !.kids = Append(SubSeq(@, 1, i - 1), c), !.sizes = SubSeq(@, 1, i)]
dagTruncate(n, size) ==
    LET i == CutAt(n, size)
        c == dagTruncate(n.kids[i], size - Before(n, i))
    IN  IF n.kids = <<>> THEN TruncateLeaf(n, size)
        ELSE [n EXCEPT !.kids  = Append(SubSeq(@, 1, i - 1), c),
                       !.sizes = Append(SubSeq(@, 1, i - 1), size - Before(n, i))]

-----------------------------------------------------------------------------
(* The operations, as functions on the modifier.                           *)

NewDagModifier(n) ==
    [open |-> TRUE, cur |-> n, writeStart |-> 0, curWrOff |-> 0, wrBuf |-> <<>>,
     buffered |-> FALSE, reading |-> FALSE, read |-> NewReader(n), err |-> FALSE]

Failed(d) == [d EXCEPT !.err = TRUE]

\* After modifyDag gave w: the rest of the buffer is appended.
Written(d, w) ==
    IF w.rest # <<>> /\ ~CanAppend(w.n) THEN Failed(d)
    ELSE [d EXCEPT !.cur = IF w.rest = <<>> THEN w.n ELSE appendData(w.n, w.rest),
                   !.writeStart = @ + Len(d.wrBuf), !.wrBuf = <<>>,
                   !.buffered = FALSE, !.reading = FALSE]
DSync(d) ==
    IF ~d.buffered THEN d
    ELSE IF ~CanModify(d.cur, d.writeStart) THEN Failed(d)
    ELSE Written(d, modifyDag(d.cur, d.writeStart, d.wrBuf))

\* Size: the file, or the end of the buffer when that lies beyond it.
DSize(d) == IF d.buffered /\ Len(d.wrBuf) + d.writeStart > FileSize(d.cur)
            THEN Len(d.wrBuf) + d.writeStart ELSE FileSize(d.cur)

expandSparse(d, k) == IF ~CanAppend(d.cur) THEN Failed(d)
                      ELSE [d EXCEPT !.cur = appendData(@, Zeros(k))]

DWrite(d, b) ==
    LET e == [d EXCEPT !.reading = FALSE, !.buffered = TRUE, !.wrBuf = @ \o b,
                       !.curWrOff = @ + Len(b)]
    IN  IF Len(e.wrBuf) > WriteBuffer THEN DSync(e) ELSE e

\* The file padded up to the offset, unless a step before failed.
Padded(d, offset) == IF ~d.err /\ offset > DSize(d) THEN expandSparse(d, offset - DSize(d)) ELSE d
Synced(d) == IF d.err THEN d ELSE DSync(d)
WrittenFrom(d, b, offset) == IF d.err THEN d ELSE DWrite([d EXCEPT !.writeStart = offset], b)

DWriteAt(d, b, offset) ==
    IF d.buffered /\ offset = d.writeStart
    THEN DWrite(IF Len(b) >= Len(d.wrBuf) THEN [d EXCEPT !.wrBuf = <<>>] ELSE d, b)
    ELSE IF offset = d.curWrOff THEN DWrite(d, b)
    ELSE WrittenFrom(Synced(Padded(d, offset)), b, offset)

\* Seek from the start of the file.
Sought(d, offset) ==
    IF d.err THEN d
    ELSE [d EXCEPT !.curWrOff = offset, !.writeStart = offset,
                   !.read = IF d.reading THEN SeekReader(@, offset) ELSE @]
DSeek(d, offset) == Sought(Padded(DSync(d), offset), offset)

\* readPrep, with a raw block read by a plain buffer.
OpenedAtStart(d) == [NewReader(d.cur) EXCEPT !.off = d.curWrOff]
Opened(d) == IF d.cur.kind = "block"
             THEN [NewReader(d.cur) EXCEPT !.buf = SubSeq(@, d.curWrOff + 1, Len(@)),
                                           !.off = d.curWrOff]
             ELSE SeekReader(NewReader(d.cur), d.curWrOff)
WithReader(d) ==
    IF d.err \/ d.reading THEN d
    ELSE IF Opened(d).off # d.curWrOff THEN Failed(d)
    ELSE [d EXCEPT !.reading = TRUE, !.read = Opened(d)]
readPrep(d) == WithReader(DSync(d))
ReadOn(d, k) ==
    IF d.err THEN d
    ELSE [d EXCEPT !.read = AfterRead(@, k), !.curWrOff = @ + Len(ReadBytes(d.read, k))]
DRead(d, k) == ReadOn(readPrep(d), k)

TruncatedTo(d, size) ==
    IF d.err \/ (size < DSize(d) /\ ~CanTruncate(d.cur, size)) THEN Failed(d)
    ELSE IF size > DSize(d) THEN expandSparse(d, size - DSize(d))
    ELSE IF size = DSize(d) THEN d
    ELSE [d EXCEPT !.cur = dagTruncate(@, size)]
DTruncate(d, size) == TruncatedTo(DSync(d), size)

-----------------------------------------------------------------------------
(* The calls of a client, and what they should do.                         *)

\* A node with data of its own and links: an appended single-block file.
Mixed(n) == n.data # <<>> /\ n.kids # <<>>

Op == m.open /\ ~m.err /\ nops < MaxOps /\ nops' = nops + 1 /\ UNCHANGED uvars
Extended(s, k) == s \o Zeros(k - Len(s))
Bytes(k) == [i \in 1..k |-> 100 + nops]

\* What makes this call go wrong, besides `more`.
Oddly(more) == odd' = odd \cup more \cup (IF Mixed(m.cur) \/ Mixed(m'.cur) THEN {"mixed"} ELSE {})

MOpen ==
    /\ phase # "empty" /\ ~m.open /\ Len(chunks) <= MaxOpen
    /\ m' = NewDagModifier(dag) /\ want' = Content(dag)
    /\ UNCHANGED <<pos, odd, misread, nops, uvars>>

MWrite == \E k \in {1, SplitSize + 1} :
    /\ Op /\ m' = DWrite(m, Bytes(k))
    /\ want' = Overlay(want, pos, Bytes(k)) /\ pos' = pos + k
    /\ Oddly((IF pos > Len(want) THEN {"cut"} ELSE {})
             \cup (IF m.writeStart + Len(m.wrBuf) # pos THEN {"behind"} ELSE {}))
    /\ UNCHANGED misread

MWriteAt == \E k \in {1, SplitSize + 1}, o \in 0..MaxSize :
    /\ Op /\ m' = DWriteAt(m, Bytes(k), o)
    /\ want' = Overlay(want, o, Bytes(k)) /\ pos' = o + k
    /\ Oddly((IF m.buffered /\ o > DSize(m) /\ DSize(m) > FileSize(m.cur) THEN {"sparse"} ELSE {})
             \cup (IF m.buffered /\ o = m.writeStart /\ k < Len(m.wrBuf) THEN {"overwrite"} ELSE {})
             \cup (IF o = m.curWrOff /\ o # m.writeStart + Len(m.wrBuf) THEN {"drift"} ELSE {}))
    /\ UNCHANGED misread

MSeek == \E o \in 0..MaxSize :
    /\ Op /\ m' = DSeek(m, o)
    /\ want' = (IF o > Len(want) THEN Extended(want, o) ELSE want) /\ pos' = o
    /\ Oddly(IF m.reading /\ o >= Len(want) THEN {"reader"} ELSE {})
    /\ UNCHANGED misread

MTruncate == \E k \in 0..MaxSize :
    /\ Op /\ m' = DTruncate(m, k)
    /\ want' = (IF k > Len(want) THEN Extended(want, k) ELSE SubSeq(want, 1, k)) /\ pos' = pos
    /\ Oddly(IF m.reading /\ k # Len(want) THEN {"reader"} ELSE {})
    /\ UNCHANGED misread

MRead == \E k \in {1, MaxSize} :
    /\ Op /\ m' = DRead(m, k)
    /\ LET p   == readPrep(m)
           got == IF p.err THEN <<>> ELSE ReadBytes(p.read, k)
       IN  /\ misread' = (misread \/ (got # SubSeq(want, pos + 1, Smaller(pos + k, Len(want)))))
           /\ pos' = pos + Len(SubSeq(want, pos + 1, Smaller(pos + k, Len(want))))
    /\ Oddly((IF m.curWrOff # pos THEN {"drift"} ELSE {})
             \cup (IF pos >= Len(want) THEN {"end"} ELSE {}))
    /\ want' = want

MSync == Op /\ m' = DSync(m) /\ Oddly({}) /\ UNCHANGED <<want, pos, misread>>

MInit == /\ UInit /\ m = [NewDagModifier(NewFSNode) EXCEPT !.open = FALSE]
         /\ want = <<>> /\ pos = 0 /\ odd = {} /\ misread = FALSE /\ nops = 0

Import == ~m.open /\ UNext /\ UNCHANGED mvars

MNext == Import \/ MOpen \/ MWrite \/ MWriteAt \/ MSeek \/ MTruncate \/ MRead \/ MSync
MSpec == MInit /\ [][MNext]_fvars

-----------------------------------------------------------------------------
(* Properties                                                              *)

\* The file as its readers will see it once the buffer is written.
Visible == IF m.buffered THEN Overlay(Content(m.cur), m.writeStart, m.wrBuf) ELSE Content(m.cur)

\* However calls mix, the nodes record the sizes of their children, by which
\* readers and later writes find their way.
ModifiedSizes == SizesRight(m.cur)

\* Whatever the order of Write, WriteAt, Seek, Truncate, Read and Sync, the file
\* holds the bytes that were written, where they were written, except when: the
\* root has data of its own and links, which modifyDag and dagTruncate do not
\* expect; a write follows a truncation below its position; WriteAt overwrites
\* the beginning of the buffered bytes, or takes an offset for the current one
\* that is not; WriteAt beyond the end of buffered bytes pads the
\* file before it writes them; or a write follows a read, which moved the
\* position but not the place the buffer goes to.
ContentKept ==
    (m.open /\ ~m.err /\ odd \cap {"mixed", "cut", "behind", "sparse", "overwrite", "drift"} = {}) => Visible = want

\* A call fails only on a file that is a raw block, on a root with data and
\* links, or writing beyond the end after a truncation.
FailsOnly == m.err => Mixed(m.cur) \/ m.cur.kind = "block" \/ "cut" \in odd \/ "end" \in odd \/ "drift" \in odd

\* Read gives the bytes at the current position, except at the end of the file
\* and from a reader that was open when the file changed length.
ReadBack == (misread /\ ~m.err) => odd # {}

\* "WriteAt will modify a dag file in place".
WriteAtLands ==
    (m.open /\ ~m.err /\ odd \cap {"mixed", "cut"} = {}) => Visible = want
=============================================================================
