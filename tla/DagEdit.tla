------------------------------ MODULE DagEdit -------------------------------
(***************************************************************************)
(* The Editor of merkledag/utils/utils.go: InsertNodeAtPath, RmLink and    *)
(* the copy of Finalize, as functions of the node and of the blocks.       *)
(*                                                                         *)
(* A node is its value, which stands for its block and its CID as well:    *)
(* equal nodes are one block.  Links are kept sorted by name when a node   *)
(* is encoded (merkledag/coding.go), so they are a function of the name.   *)
(***************************************************************************)
EXTENDS Naturals, FiniteSets, Sequences, SequencesExt

Node(d, l) == [data |-> d, links |-> l]
Leaf(d) == Node(d, <<>>)
EmptyDir == Leaf("dir")
LinkNames(n) == DOMAIN n.links

\* ProtoNode: RemoveNodeLink, then AddNodeLink.
WithoutLink(n, name) == Node(n.data, [x \in LinkNames(n) \ {name} |-> n.links[x]])
WithLink(n, name, c) == Node(n.data, [x \in LinkNames(n) \cup {name} |->
                                        IF x = name THEN c ELSE n.links[x]])

RECURSIVE Reach(_)
Reach(n) == {n} \cup UNION {Reach(n.links[x]) : x \in LinkNames(n)}

-----------------------------------------------------------------------------
(* The editor: its root, the blocks of its temporary store, and whether the  *)
(* operation succeeded                                                     *)

Result(ok, n, t) == [ok |-> ok, node |-> n, tmp |-> t]

\* addLink: the child is stored, the old root removed, the new one stored.
AddLink(t, n, name, child) ==
    Result(TRUE, WithLink(n, name, child), ((t \cup {child}) \ {n}) \cup {WithLink(n, name, child)})

\* The old parent is removed from the store, the new one stored.
SetLink(t, n, name, child) ==
    Result(TRUE, WithLink(n, name, child), (t \ {n}) \cup {WithLink(n, name, child)})

\* GetLinkedProtoNode, in the temporary store, then in the source.
Available(t, s, n, name) == name \in LinkNames(n) /\ n.links[name] \in t \cup s

RECURSIVE InsertNodeAtPath(_, _, _, _, _, _)
InsertNodeAtPath(t, s, n, p, child, create) ==
    IF Len(p) = 1 THEN AddLink(t, n, p[1], child)
    ELSE IF ~(Available(t, s, n, p[1]) \/ (create /\ p[1] \notin LinkNames(n)))
    THEN Result(FALSE, n, t)
    ELSE LET sub == InsertNodeAtPath(t, s, IF p[1] \in LinkNames(n) THEN n.links[p[1]] ELSE EmptyDir,
                                     Tail(p), child, create)
         IN IF sub.ok THEN SetLink(sub.tmp, n, p[1], sub.node) ELSE Result(FALSE, n, sub.tmp)

RECURSIVE RmLink(_, _, _, _)
RmLink(t, s, n, p) ==
    IF Len(p) = 1
    THEN IF p[1] \in LinkNames(n) THEN Result(TRUE, WithoutLink(n, p[1]), t \cup {WithoutLink(n, p[1])})
         ELSE Result(FALSE, n, t)
    ELSE IF ~Available(t, s, n, p[1]) THEN Result(FALSE, n, t)
    ELSE LET sub == RmLink(t, s, n.links[p[1]], Tail(p))
         IN IF sub.ok THEN SetLink(sub.tmp, n, p[1], sub.node) ELSE Result(FALSE, n, sub.tmp)

\* copyDag: what is not in the temporary store is taken to be in the target.
RECURSIVE CopyDag(_, _)
CopyDag(n, t) == {n} \cup UNION {CopyDag(n.links[x], t) : x \in {y \in LinkNames(n) : n.links[y] \in t}}

-----------------------------------------------------------------------------
(***************************************************************************)
(* Editing objects: the Editor of merkledag/utils/utils.go and its twin    *)
(* dagutils/utils.go (InsertNodeAtPath, RmLink, Finalize), Diff,           *)
(* ApplyChange and MergeDiffs (diff.go), DiffEnumerate (diffenum.go), as   *)
(* 'object patch', 'object diff', 'pin update' and ImportTar               *)
(* (tar/format.go) use them.                                               *)
(***************************************************************************)

CONSTANTS LName,           \* link names
          Datum,           \* node data
          Sources,         \* initial roots of an editor
          Insertable,      \* nodes that are inserted: blocks of the source
          EPaths,          \* paths of at most two names
          MaxEdit          \* bound on the edits of one editor

-----------------------------------------------------------------------------
(* The editor as a state machine: several edits, then Finalize             *)

VARIABLES source,          \* the blocks of the DAG service
          eroot, tmp,      \* the editor
          wanted,          \* history: the tree the edits ask for
          twin,            \* history: a block was removed that another link needs
          finalized,
          nedits

evars == <<source, eroot, tmp, wanted, twin, finalized, nedits>>

\* Reference: the same edits on a tree in memory.
RECURSIVE PutAt(_, _, _)
PutAt(n, p, c) == IF Len(p) = 1 THEN WithLink(n, p[1], c)
                  ELSE WithLink(n, p[1], PutAt(IF p[1] \in LinkNames(n) THEN n.links[p[1]] ELSE EmptyDir, Tail(p), c))
RECURSIVE DropAt(_, _)
DropAt(n, p) == IF Len(p) = 1 THEN WithoutLink(n, p[1])
                ELSE WithLink(n, p[1], DropAt(n.links[p[1]], Tail(p)))

\* The old nodes on the path of an edit, which it removes from the store.
Replaced(n, p) ==
    {n, EmptyDir} \cup IF Len(p) = 2 /\ p[1] \in LinkNames(n) THEN {n.links[p[1]]} ELSE {}

Edited(r, p, want) ==
    /\ eroot' = r.node /\ tmp' = r.tmp /\ wanted' = IF r.ok THEN want ELSE wanted
    /\ twin' = (twin \/ (Replaced(eroot, p) \cap Reach(r.node)) \ source # {})
    /\ nedits' = nedits + 1 /\ UNCHANGED <<source, finalized>>

\* 'object patch add-link', an entry of a tar file, a Change that adds.
Insert(p, c, create) ==
    /\ ~finalized /\ nedits < MaxEdit
    /\ Edited(InsertNodeAtPath(tmp, source, eroot, p, c, create), p, PutAt(wanted, p, c))
\* 'object patch rm-link', a Change that removes.
Remove1(p) ==
    /\ ~finalized /\ nedits < MaxEdit
    /\ LET r == RmLink(tmp, source, eroot, p)
       IN Edited(r, p, IF r.ok THEN DropAt(wanted, p) ELSE wanted)
\* 'object patch set-data' and append-data: on the node itself, which is stored.
SetDataAnew(d) ==
    /\ ~finalized /\ nedits = 0 /\ eroot.data # d
    /\ eroot' = Leaf(d) /\ wanted' = Node(d, wanted.links)
    /\ source' = source \cup {Leaf(d)}
    /\ nedits' = nedits + 1 /\ UNCHANGED <<tmp, twin, finalized>>
SetData(d) ==
    /\ ~finalized /\ nedits = 0 /\ eroot.data # d
    /\ eroot' = Node(d, eroot.links) /\ wanted' = Node(d, wanted.links)
    /\ source' = source \cup {Node(d, eroot.links)}
    /\ nedits' = nedits + 1 /\ UNCHANGED <<tmp, twin, finalized>>
FinalizeRoot ==
    /\ ~finalized /\ finalized' = TRUE /\ source' = source \cup {eroot}
    /\ UNCHANGED <<eroot, tmp, wanted, twin, nedits>>
Finalize ==
    /\ ~finalized /\ finalized' = TRUE
    /\ source' = source \cup CopyDag(eroot, tmp)
    /\ UNCHANGED <<eroot, tmp, wanted, twin, nedits>>

EInit ==
    /\ eroot \in Sources /\ wanted = eroot /\ tmp = {} /\ twin = FALSE
    /\ source = Reach(eroot) \cup UNION {Reach(c) : c \in Insertable}
    /\ finalized = FALSE /\ nedits = 0
ENext == \/ \E p \in EPaths, c \in Insertable, create \in BOOLEAN : Insert(p, c, create)
         \/ \E p \in EPaths : Remove1(p)
         \/ \E d \in Datum : SetData(d)
         \/ Finalize
ESpec == EInit /\ [][ENext]_evars

\* The editor's root is the tree that was asked for.
EditExact == eroot = wanted

\* Finalize leaves the whole new tree in the target, unless an edit removed a
\* block from the temporary store that an equal node elsewhere in the tree needs.
FinalizedWhole == (finalized /\ ~twin) => Reach(eroot) \subseteq source

\* "not found means we didnt modify it, and it should already be in the target
\* datastore": the tree is in the target whatever was edited.
FinalizedAlways == finalized => Reach(eroot) \subseteq source

-----------------------------------------------------------------------------
(***************************************************************************)
(* Differences of objects: Diff, ApplyChange and MergeDiffs (diff.go in    *)
(* merkledag/utils and dagutils), shown by 'object diff', and              *)
(* DiffEnumerate (diffenum.go), with which 'pin update' fetches what the   *)
(* new root has and the old one had not.  Checked on every pair of small   *)
(* trees.                                                                  *)
(***************************************************************************)

CONSTANT NameOrder          \* the names in the order links are encoded

VARIABLES old, new          \* the two nodes compared

\* Trees of two levels; the lower nodes have one name at most.
Leaves == {Leaf(d) : d \in Datum}
Lower == Leaves \cup {Node(d, [x \in {NameOrder[1]} |-> l]) : d \in Datum, l \in Leaves}
TreesUsed == {Node(d, f) : d \in Datum, f \in UNION {[S -> Lower] : S \in SUBSET LName}}

Names(n) == SelectSeq(NameOrder, LAMBDA x : x \in LinkNames(n))
IsLeaf(n) == LinkNames(n) = {}
Flatten(ss) == FoldLeft(LAMBDA acc, s : acc \o s, <<>>, ss)
Map(s, Op(_)) == [i \in DOMAIN s |-> Op(s[i])]

Change(t, p, after) == [type |-> t, path |-> p, after |-> after]
Under(name, c) == [c EXCEPT !.path = <<name>> \o @]

\* Two leaves: compare.  Else the names of both whose nodes differ, recursively;
\* then the names only the first has; then those only the second has.
RECURSIVE Diff(_, _)
DiffCommon(a, b) ==
    Flatten(Map(SelectSeq(Names(a), LAMBDA x : x \in LinkNames(b) /\ a.links[x] # b.links[x]),
                LAMBDA x : Map(Diff(a.links[x], b.links[x]), LAMBDA c : Under(x, c))))
RemovedNone(a, b) == <<>>
Removed(a, b) == Map(SelectSeq(Names(a), LAMBDA x : x \notin LinkNames(b)),
                     LAMBDA x : Change("Remove", <<x>>, a.links[x]))
Added(a, b) == Map(SelectSeq(Names(b), LAMBDA x : x \notin LinkNames(a)),
                   LAMBDA x : Change("Add", <<x>>, b.links[x]))
Diff(a, b) == IF IsLeaf(a) /\ IsLeaf(b) THEN IF a = b THEN <<>> ELSE <<Change("Mod", <<>>, b)>>
              ELSE DiffCommon(a, b) \o Removed(a, b) \o Added(a, b)

\* ApplyChange, with one editor; the first error ends it.  An empty path names
\* no link.
ApplyOne(s, r, c) ==
    IF ~r.ok \/ c.path = <<>> THEN Result(FALSE, r.node, r.tmp)
    ELSE LET less == IF c.type = "Add" THEN r ELSE RmLink(r.tmp, s, r.node, c.path)
         IN IF c.type = "Remove" \/ ~less.ok THEN less
            ELSE InsertNodeAtPath(less.tmp, s, less.node, c.path, c.after, FALSE)
ApplyChange(s, a, cs) == FoldLeft(LAMBDA r, c : ApplyOne(s, r, c), Result(TRUE, a, {}), cs)

\* MergeDiffs: the changes of b at other paths than those of a, then a's.
PathsOf(cs) == {cs[i].path : i \in DOMAIN cs}
Conflicting(a, b) == PathsOf(a) \cap PathsOf(b)
MergeLosing(a, b) == SelectSeq(b, LAMBDA c : c.path \notin PathsOf(a))
MergeDiffs(a, b) == SelectSeq(b, LAMBDA c : c.path \notin PathsOf(a)) \o a

\* DiffEnumerate: links of the new node that the old one lacks, paired in order
\* with those only the old one has; what is fetched.
ChildrenOf(n) == Map(Names(n), LAMBDA x : n.links[x])
OldOnly(a, b) == SelectSeq(ChildrenOf(a), LAMBDA c : c \notin ToSet(ChildrenOf(b)))
NewOnly(a, b) == SelectSeq(ChildrenOf(b), LAMBDA c : c \notin ToSet(ChildrenOf(a)))
RECURSIVE EnumerateChildren(_, _)
EnumerateChildren(n, seen) ==
    {n} \cup UNION {EnumerateChildren(c, seen) : c \in ToSet(ChildrenOf(n)) \ seen}
RECURSIVE DiffEnumerate(_, _)
FetchShort(a, b, i) == IF i <= Len(OldOnly(a, b)) THEN DiffEnumerate(OldOnly(a, b)[i], NewOnly(a, b)[i]) ELSE {}
Fetch(a, b, i) ==
    LET seen == {OldOnly(a, b)[j] : j \in 1 .. Len(OldOnly(a, b)) \cap 1 .. Len(NewOnly(a, b))}
    IN IF i <= Len(OldOnly(a, b)) THEN DiffEnumerate(OldOnly(a, b)[i], NewOnly(a, b)[i])
       ELSE IF NewOnly(a, b)[i] \in seen THEN {}
       ELSE EnumerateChildren(NewOnly(a, b)[i], seen)
DiffEnumerate(a, b) == {b} \cup UNION {Fetch(a, b, i) : i \in DOMAIN NewOnly(a, b)}

\* An editor at work, or a pair of trees.
XInit == \/ EInit /\ old = EmptyDir /\ new = EmptyDir
         \/ /\ old \in TreesUsed /\ new \in TreesUsed
            /\ eroot = EmptyDir /\ wanted = EmptyDir /\ tmp = {} /\ twin = FALSE
            /\ source = {EmptyDir} /\ finalized = TRUE /\ nedits = 0
XNext == ENext /\ UNCHANGED <<old, new>>
XSpec == XInit /\ [][XNext]_<<evars, old, new>>

\* Nodes at the same place whose data differ while one of them has links: Diff
\* does not compare their data.
RECURSIVE DataDiffer(_, _)
DataDiffer(a, b) ==
    \/ ~(IsLeaf(a) /\ IsLeaf(b)) /\ a.data # b.data
    \/ \E x \in LinkNames(a) \cap LinkNames(b) :
         a.links[x] # b.links[x] /\ DataDiffer(a.links[x], b.links[x])

\* "Diff returns a set of changes that transform node 'a' into node 'b'": applied
\* to the first node they give the second, unless data changed at a node with
\* links, or two leaves are compared as roots.
DiffTransforms ==
    LET r == ApplyChange(Reach(old) \cup Reach(new), old, Diff(old, new))
    IN ~DataDiffer(old, new) /\ ~(IsLeaf(old) /\ IsLeaf(new) /\ old # new) => r.ok /\ r.node = new

\* As the comment says it: whatever the nodes.
DiffTransformsAll ==
    LET r == ApplyChange(Reach(old) \cup Reach(new), old, Diff(old, new)) IN r.ok /\ r.node = new

\* Changes that do not conflict are all in the merged list, and can be applied
\* to the node they were taken from, in the order they are merged, when neither
\* changes something below a path of the other.
MergeKeeps ==
    \A third \in {Node(old.data, WithLink(old, x, l).links) : x \in LName, l \in Leaves} :
        LET a == Diff(old, new)  b == Diff(old, third)
            apart == \A p \in PathsOf(a), q \in PathsOf(b) : ~IsPrefix(p, q) /\ ~IsPrefix(q, p)
            s == Reach(old) \cup Reach(new) \cup Reach(third)
        IN (apart /\ ~DataDiffer(old, new) /\ ~DataDiffer(old, third)) =>
              /\ Conflicting(a, b) = {}
              /\ ApplyChange(s, old, MergeDiffs(a, b)).ok
              /\ ApplyChange(s, old, MergeDiffs(a, b)).node = ApplyChange(s, ApplyChange(s, old, a).node, b).node

\* 'pin update' fetches all of the new tree that is not in the old one.
UpdateFetches == Reach(new) \subseteq Reach(old) \cup DiffEnumerate(old, new)
=============================================================================
