----------------------------- MODULE Directory -----------------------------
(***************************************************************************)
(* UnixFS directories (unixfs/io/directory.go): the basic one, a node with *)
(* one link per entry, and the one that is a hash array mapped trie        *)
(* (unixfs/hamt), to which a basic directory can be switched.              *)
(*                                                                         *)
(* A shard is a function from the positions whose bit is set to children.  *)
(* A child is a value (name, node) or a shard, and `loaded` tells whether  *)
(* the children array holds it or only the node's links do: a shard that   *)
(* is read from the DAG has loaded none of its children.                   *)
(***************************************************************************)
EXTENDS Naturals, Sequences, FiniteSets, Functions

CONSTANTS Entry,          \* names of entries
          Target,         \* nodes an entry can name
          HashOf,         \* HashOf[n]: the positions of n, level by level
          MaxEdits        \* changes made to the directory

VARIABLES scheme,         \* "basic" or "hamt"
          links,          \* the entries of the basic directory's node
          shard,          \* the root shard
          expected,       \* history: what the directory should hold
          lazy,           \* history: a removal left a lone child not loaded
          edits

hvars == <<scheme, links, shard, expected, lazy, edits>>

EmptyShard == [p \in {} |-> 0]
Value(n, v) == [t |-> "value", name |-> n, node |-> v, kids |-> EmptyShard, loaded |-> TRUE]
SubShard(k) == [t |-> "shard", name |-> "", node |-> "", kids |-> k, loaded |-> TRUE]

Put(s, p, c) == [q \in DOMAIN s \cup {p} |-> IF q = p THEN c ELSE s[q]]
Loaded(s, p) == [s EXCEPT ![p].loaded = TRUE]

-----------------------------------------------------------------------------
(* hamt.go                                                                 *)

\* Set: modifyValue with a link.  d is the number of positions consumed.
RECURSIVE SetValue(_, _, _, _)
SetValue(s, d, n, v) ==
    LET p == HashOf[n][d + 1]
        c == s[p]
    IN  IF p \notin DOMAIN s THEN Put(s, p, Value(n, v))
        ELSE IF c.t = "shard" THEN Put(s, p, SubShard(SetValue(c.kids, d + 1, n, v)))
        ELSE IF c.name = n THEN Put(s, p, Value(n, v))
        ELSE Put(s, p, SubShard(SetValue(SetValue(EmptyShard, d + 1, n, v),
                                         d + 1, c.name, c.node)))

\* A sub-shard after a removal: an empty one is pruned, one that is left with a
\* value that is loaded is replaced by it.
Lone(k) == CHOOSE p \in DOMAIN k : TRUE
PrunedNot(s, p, k) == Put(s, p, SubShard(k))
PrunedLone(s, p, k) ==
    IF DOMAIN k # {} /\ Cardinality(DOMAIN k) = 1 /\ k[Lone(k)].loaded /\ k[Lone(k)].t = "value"
    THEN Put(s, p, k[Lone(k)])
    ELSE Put(s, p, SubShard(k))
Pruned(s, p, k) ==
    IF DOMAIN k = {} THEN Restrict(s, DOMAIN s \ {p})
    ELSE IF Cardinality(DOMAIN k) = 1 /\ k[Lone(k)].loaded /\ k[Lone(k)].t = "value"
    THEN Put(s, p, k[Lone(k)])
    ELSE Put(s, p, SubShard(k))

\* Remove: modifyValue without a link, of a name that is there.
RECURSIVE RemoveValue(_, _, _)
RemoveValue(s, d, n) ==
    LET p == HashOf[n][d + 1]
    IN  IF s[p].t = "shard" THEN Pruned(s, p, RemoveValue(s[p].kids, d + 1, n))
        ELSE Restrict(s, DOMAIN s \ {p})

\* getValue: the value of a name, in a set, and the shards it loads on its way.
RECURSIVE GetValue(_, _, _)
GetValueFirst(s, d, n) ==
    LET p == HashOf[n][d + 1]
    IN  IF p \notin DOMAIN s THEN {}
        ELSE IF s[p].t = "shard" THEN GetValue(s[p].kids, d + 1, n)
        ELSE {s[p].node}
GetValue(s, d, n) ==
    LET p == HashOf[n][d + 1]
    IN  IF p \notin DOMAIN s THEN {}
        ELSE IF s[p].t = "shard" THEN GetValue(s[p].kids, d + 1, n)
        ELSE IF s[p].name = n THEN {s[p].node} ELSE {}

RECURSIVE LoadPath(_, _, _)
LoadPath(s, d, n) ==
    LET p == HashOf[n][d + 1]
    IN  IF p \notin DOMAIN s THEN s
        ELSE IF s[p].t = "shard"
        THEN Put(s, p, SubShard(LoadPath(s[p].kids, d + 1, n)))
        ELSE Loaded(s, p)

\* walkTrie, which loads everything.
RECURSIVE LoadAll(_), WalkTrie(_)
LoadAll(s) == [p \in DOMAIN s |-> [s[p] EXCEPT !.loaded = TRUE, !.kids = LoadAll(@)]]
WalkTrie(s) == UNION {IF s[p].t = "value" THEN {<<s[p].name, s[p].node>>}
                      ELSE WalkTrie(s[p].kids) : p \in DOMAIN s}

\* Node, then NewHamtFromDag of it.
RECURSIVE Unloaded(_)
Unloaded(s) == [p \in DOMAIN s |-> [s[p] EXCEPT !.loaded = FALSE, !.kids = Unloaded(@)]]

-----------------------------------------------------------------------------
(* directory.go                                                            *)

Change == edits < MaxEdits /\ edits' = edits + 1
Without(n) == Restrict(expected, DOMAIN expected \ {n})
With(n, v) == [x \in DOMAIN expected \cup {n} |-> IF x = n THEN v ELSE expected[x]]

\* RemoveNodeLink, whose error AddChild ignores.
RemoveNodeLink(n) == {l \in links : l[1] # n}
AddChildAgain(n, v) == links \cup {<<n, v>>}
AddChildLink(n, v) == RemoveNodeLink(n) \cup {<<n, v>>}

AddEntry(n, v) ==
    /\ Change
    /\ expected' = With(n, v)
    /\ IF scheme = "basic"
       THEN links' = AddChildLink(n, v) /\ UNCHANGED shard
       ELSE shard' = SetValue(shard, 0, n, v) /\ UNCHANGED links
    /\ UNCHANGED <<scheme, lazy>>

\* The path to the name is loaded, then the value removed.  A name that is not
\* there is os.ErrNotExist, or ErrNotFound.
RECURSIVE LeavesLone(_, _, _)
LeavesLone(s, d, n) ==
    LET p == HashOf[n][d + 1]
        k == RemoveValue(s[p].kids, d + 1, n)
    IN  /\ s[p].t = "shard"
        /\ \/ LeavesLone(s[p].kids, d + 1, n)
           \/ /\ Cardinality(DOMAIN k) = 1
              /\ k[Lone(k)].t = "value" /\ ~k[Lone(k)].loaded

RemoveEntry(n) ==
    /\ Change
    /\ LET s == LoadPath(shard, 0, n)
       IN  IF scheme = "basic"
           THEN links' = RemoveNodeLink(n) /\ UNCHANGED <<shard, lazy>>
           ELSE IF GetValue(s, 0, n) = {}
           THEN shard' = s /\ UNCHANGED <<links, lazy>>
           ELSE /\ shard' = RemoveValue(s, 0, n)
                /\ lazy' = (lazy \/ LeavesLone(s, 0, n))
                /\ UNCHANGED links
    /\ expected' = Without(n)
    /\ UNCHANGED scheme

\* Find and Links change only what is loaded.
FindEntry(n) == /\ scheme = "hamt" /\ shard' = LoadPath(shard, 0, n)
                /\ UNCHANGED <<scheme, links, expected, lazy, edits>>
Links == /\ scheme = "hamt" /\ shard' = LoadAll(shard)
         /\ UNCHANGED <<scheme, links, expected, lazy, edits>>

\* GetNode, and NewDirectoryFromNode of what it returns.
Reload == /\ scheme = "hamt" /\ shard' = Unloaded(shard)
          /\ UNCHANGED <<scheme, links, expected, lazy, edits>>

\* SwitchToSharding: the entries are set one after the other.
RECURSIVE SetAll(_, _)
SetAll(s, L) == IF L = {} THEN s
                ELSE LET l == CHOOSE x \in L : TRUE
                     IN  SetAll(SetValue(s, 0, l[1], l[2]), L \ {l})
SwitchToSharding ==
    /\ scheme = "basic" /\ scheme' = "hamt"
    /\ shard' = SetAll(EmptyShard, links) /\ links' = {}
    /\ UNCHANGED <<expected, lazy, edits>>

\* NewDirectory, with UseHAMTSharding or without.
HInit == /\ scheme \in {"basic", "hamt"} /\ links = {} /\ shard = EmptyShard
         /\ expected = EmptyShard /\ lazy = FALSE /\ edits = 0

HNext == \/ \E n \in Entry : (\E v \in Target : AddEntry(n, v)) \/ RemoveEntry(n) \/ FindEntry(n)
         \/ Links \/ Reload \/ SwitchToSharding
HSpec == HInit /\ [][HNext]_hvars

-----------------------------------------------------------------------------
(* Properties                                                              *)

Pairs(f) == {<<n, f[n]>> : n \in DOMAIN f}

\* Whatever was added, replaced and removed, loaded and stored, and wherever the
\* directory was switched to shards: Links lists exactly the entries it should
\* have, each name once.
LinksExact == (IF scheme = "basic" THEN links ELSE WalkTrie(shard)) = Pairs(expected)

\* Find in the trie agrees: it gives the node of a name that is there and
\* nothing for another, also for a name with the same first positions.
FindAgrees ==
    scheme = "hamt" => \A n \in Entry :
        GetValue(shard, 0, n) = IF n \in DOMAIN expected THEN {expected[n]} ELSE {}

\* No sub-shard is empty, also after removals that could not collapse one.
RECURSIVE NoHollow(_)
NoHollow(s) == \A p \in DOMAIN s : s[p].t = "shard" => DOMAIN s[p].kids # {} /\ NoHollow(s[p].kids)
SubShardsUsed == NoHollow(shard)

\* The trie that inserting the same entries into a new one gives.
Fresh == SetAll(EmptyShard, Pairs(expected))

\* The trie depends only on the entries, not on the order of the edits, unless a
\* removal left a sub-shard whose one value had not been loaded.
TrieCanonical == (scheme = "hamt" /\ ~lazy) => LoadAll(shard) = Fresh

\* "we always check for empty shard nodes upon deletion and prune them to
\* maintain a consistent tree, independent of insertion order."
AlwaysCanonical == scheme = "hamt" => LoadAll(shard) = Fresh
=============================================================================
