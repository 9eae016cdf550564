------------------------------- MODULE Paths --------------------------------
(***************************************************************************)
(* Content paths (path/path.go), and the ways a node resolves one: the     *)
(* path resolver (path/resolver), core.Resolve and core.ResolveToCid       *)
(* (core/pathresolver.go), the core API's ResolvePath                      *)
(* (core/coreapi/path.go) and the names under /ipns (namesys).             *)
(*                                                                         *)
(* The text of a path is the sequence of its parts between slashes, as     *)
(* strings.Split gives it: "/ipfs/k" is <<"", "ipfs", "k">>.  The text     *)
(* under test grows by one part at a time, as a user types it.             *)
(***************************************************************************)
EXTENDS Naturals, Sequences, FiniteSets

CONSTANTS Key,          \* parts that decode as a CID
          NodeOf,       \* the node of each key: kind, links, entries, leaves
          Published,    \* the path each published name stands for
          Part,         \* parts a path is made of
          MaxParts,     \* length of the longest path
          Depth         \* names resolved in a row before giving up

VARIABLES txt,          \* the path the user gives
          absent        \* keys no peer can provide

ptvars == <<txt, absent>>

Decodes(s) == s \in Key

Bad == [ok |-> FALSE, path |-> <<>>]
Good(p) == [ok |-> TRUE, path |-> p]
NotResolved == [ok |-> FALSE, key |-> "", rest |-> <<>>]
Resolved(k, r) == [ok |-> TRUE, key |-> k, rest |-> r]

-----------------------------------------------------------------------------
(* path.go                                                                 *)

\* The library's path.Clean on the parts of a path: empty parts go, and ".."
\* takes the part before it away, if there is one.
RECURSIVE Cleaned(_, _, _)
Cleaned(rooted, done, parts) ==
    IF parts = <<>> THEN done
    ELSE LET s == Head(parts)
             last == Len(done)
             next == IF s = "" THEN done
                     ELSE IF s # ".." THEN Append(done, s)
                     ELSE IF last > 0 /\ done[last] # ".." THEN SubSeq(done, 1, last - 1)
                     ELSE IF rooted THEN done
                     ELSE Append(done, s)
         IN  Cleaned(rooted, next, Tail(parts))

\* Segments: "/" has one segment, the empty one; "" is cleaned to ".".
Segments(p) ==
    LET rooted == p[1] = "" /\ Len(p) > 1
        segs   == Cleaned(rooted, <<>>, p)
    IN  IF segs # <<>> THEN segs ELSE IF rooted THEN <<"">> ELSE <<".">>

\* ParsePath, with ParseCidToPath.
ParsePathLax(p) ==
    IF p[1] # "" THEN (IF Decodes(p[1]) THEN Good(<<"", "ipfs">> \o p) ELSE Bad)
    ELSE IF Len(p) >= 3 /\ p[2] \in {"ipfs", "ipns", "ipld"} THEN Good(p)
    ELSE Bad
ParsePath(p) ==
    IF p[1] # "" THEN (IF Decodes(p[1]) THEN Good(<<"", "ipfs">> \o p) ELSE Bad)
    ELSE IF Len(p) < 3 THEN Bad
    ELSE IF p[2] = "ipfs" THEN (IF Decodes(p[3]) THEN Good(p) ELSE Bad)
    ELSE IF p[2] \in {"ipns", "ipld"} THEN Good(p)
    ELSE Bad

IsJustAKey(p) == Len(Segments(p)) = 2 /\ Segments(p)[1] \in {"ipfs", "ipld"}

\* FromSegments with the prefix "/".
FromSegments(segs) == ParsePath(<<"">> \o segs)

\* PopLastSegment, for a path that is not just a key.
PoppedHead(p) == FromSegments(SubSeq(Segments(p), 1, Len(Segments(p)) - 1))
PoppedTail(p) == Segments(p)[Len(Segments(p))]

\* SplitAbsPath: the key a path starts from, and the names after it.
WithoutNamespace(segs) == IF segs[1] \in {"ipfs", "ipld"} THEN Tail(segs) ELSE segs
StartOf(parts) == IF parts = <<>> \/ ~Decodes(parts[1]) THEN NotResolved
                  ELSE Resolved(parts[1], Tail(parts))
SplitAbsPath(p) == StartOf(WithoutNamespace(Segments(p)))

-----------------------------------------------------------------------------
(* One hop.  A node is a ProtoNode (a directory, or a shard of one, whose  *)
(* links are not the directory's entries) or a node of another format,     *)
(* which may also hold leaves: values that are not links.                  *)

NoLink == ""

\* ResolveLink of a node.
ResolveLink(k, name) ==
    IF name \in DOMAIN NodeOf[k].links THEN NodeOf[k].links[name] ELSE NoLink

\* ResolveUnixfsOnce: a sharded directory is searched for the entry.
ResolveUnixfsOnce(k, name) ==
    IF NodeOf[k].kind = "shard"
    THEN IF name \in DOMAIN NodeOf[k].entries THEN NodeOf[k].entries[name] ELSE NoLink
    ELSE ResolveLink(k, name)

ResolveOnce(mode, k, name) ==
    IF mode = "unixfs" THEN ResolveUnixfsOnce(k, name) ELSE ResolveLink(k, name)

\* What DAG.Get finds.
Fetched(k) == k \notin absent

-----------------------------------------------------------------------------
(* resolver.go                                                             *)

\* ResolveLinks: the nodes along the names, and why it stopped.
RECURSIVE ResolveLinks(_, _, _)
RECURSIVE ResolveLinksKeeping(_, _, _)
ResolveLinksKeeping(mode, nodes, names) ==
    IF names = <<>> THEN [nodes |-> nodes, err |-> "none"]
    ELSE LET next == ResolveOnce(mode, nodes[Len(nodes)], Head(names))
         IN  IF next = NoLink THEN [nodes |-> nodes, err |-> "nolink"]
             ELSE IF ~Fetched(next) THEN [nodes |-> Append(nodes, next), err |-> "fetch"]
             ELSE ResolveLinksKeeping(mode, Append(nodes, next), Tail(names))
ResolveLinks(mode, nodes, names) ==
    IF names = <<>> THEN [nodes |-> nodes, err |-> "none"]
    ELSE LET next == ResolveOnce(mode, nodes[Len(nodes)], Head(names))
         IN  IF next = NoLink THEN [nodes |-> nodes, err |-> "nolink"]
             ELSE IF ~Fetched(next) THEN [nodes |-> nodes, err |-> "fetch"]
             ELSE ResolveLinks(mode, Append(nodes, next), Tail(names))

\* ResolvePathComponents
ResolvePathComponents(mode, p) ==
    LET split == SplitAbsPath(p)
    IN  IF ~split.ok \/ ~Fetched(split.key) THEN [nodes |-> <<>>, err |-> "root"]
        ELSE ResolveLinks(mode, <<split.key>>, split.rest)

\* ResolvePath
ResolvePath(mode, p) ==
    LET walk == ResolvePathComponents(mode, p)
    IN  IF ~ParsePath(p).ok \/ walk.err # "none" THEN NotResolved
        ELSE Resolved(walk.nodes[Len(walk.nodes)], <<>>)

\* The loop of ResolveToLastNode: it leaves at the first name that is no link,
\* and the rest must then name a leaf of the node.
RECURSIVE LastNode(_, _, _)
RECURSIVE LastNodeLax(_, _, _)
LastNodeLax(mode, k, names) ==
    IF ~Fetched(k) THEN NotResolved
    ELSE IF names = <<>> THEN Resolved(k, <<>>)
    ELSE LET next == ResolveOnce(mode, k, Head(names))
         IN  IF next # NoLink THEN LastNodeLax(mode, next, Tail(names))
             ELSE Resolved(k, <<>>)
LastNode(mode, k, names) ==
    IF ~Fetched(k) THEN NotResolved
    ELSE IF names = <<>> THEN Resolved(k, <<>>)
    ELSE LET next == ResolveOnce(mode, k, Head(names))
         IN  IF next # NoLink THEN LastNode(mode, next, Tail(names))
             ELSE IF Len(names) = 1 /\ Head(names) \in NodeOf[k].leaves
             THEN Resolved(k, names)
             ELSE NotResolved

ResolveToLastNode(mode, p) ==
    LET split == SplitAbsPath(p)
    IN  IF split.ok THEN LastNode(mode, split.key, split.rest) ELSE NotResolved

-----------------------------------------------------------------------------
(* Names                                                                   *)

HasPrefix(p, ns) == Len(p) >= 3 /\ p[1] = "" /\ p[2] = ns

\* The multi-name system's resolveOnce: the value of a name, and what follows
\* the name in the path after it.
ResolveNameOnceBare(p) ==
    IF p[3] \notin DOMAIN Published THEN Bad ELSE Good(Published[p[3]])
ResolveNameOnce(p) ==
    IF p[3] \notin DOMAIN Published THEN Bad
    ELSE IF Len(p) = 3 THEN Good(Published[p[3]])
    ELSE ParsePath(Published[p[3]] \o SubSeq(p, 4, Len(p)))

\* resolve: on to the value of the name a value stands for, at most depth times.
RECURSIVE ResolveName(_, _)
ResolveName(p, depth) ==
    LET next == ResolveNameOnce(p)
    IN  IF ~next.ok \/ ~HasPrefix(next.path, "ipns") THEN next
        ELSE IF depth = 1 THEN Bad
        ELSE ResolveName(next.path, depth - 1)

\* Namesys.Resolve of a path of two segments.
Namesys(p) ==
    IF HasPrefix(p, "ipfs") THEN ParsePath(p)
    ELSE IF HasPrefix(p, "ipns") THEN ResolveName(p, Depth)
    ELSE Bad

\* core.ResolveIPNS: what follows the name stays behind the name's value.
Extensions(segs) == SubSeq(segs, 3, Len(segs))
ResolveIPNS(p) ==
    IF ~HasPrefix(p, "ipns") THEN Good(p)
    ELSE LET segs  == Segments(p)
             named == FromSegments(SubSeq(segs, 1, 2))
             value == Namesys(named.path)
         IN  IF Len(segs) < 2 \/ ~named.ok THEN Bad
             ELSE IF ~value.ok THEN Bad
             ELSE FromSegments(Segments(value.path) \o Extensions(segs))

-----------------------------------------------------------------------------
(* core, the core API and the resolve command                              *)

\* core.Resolve
ResolveValue(mode, named) ==
    IF named.ok THEN ResolvePath(mode, named.path) ELSE NotResolved
Resolve(mode, p) == ResolveValue(mode, ResolveIPNS(p))

\* core.ResolveToCid: the node before the last segment is resolved, the last
\* one is a link of it.
OrNode(nd, name) ==
    IF ~nd.ok THEN NotResolved
    ELSE IF ResolveLink(nd.key, name) = NoLink THEN Resolved(nd.key, <<>>)
    ELSE Resolved(ResolveLink(nd.key, name), <<>>)
LinkOf(nd, name) ==
    IF ~nd.ok \/ ResolveLink(nd.key, name) = NoLink THEN NotResolved
    ELSE Resolved(ResolveLink(nd.key, name), <<>>)
ResolveToCidOfNode(mode, p) ==
    IF IsJustAKey(p) THEN Resolve(mode, p)
    ELSE IF PoppedHead(p).ok
    THEN OrNode(Resolve(mode, PoppedHead(p).path), PoppedTail(p))
    ELSE NotResolved
ResolveToCid(mode, p) ==
    IF IsJustAKey(p)
    THEN IF Decodes(Segments(p)[2]) THEN Resolved(Segments(p)[2], <<>>) ELSE NotResolved
    ELSE IF PoppedHead(p).ok
    THEN LinkOf(Resolve(mode, PoppedHead(p).path), PoppedTail(p))
    ELSE NotResolved

\* The core API's resolvePath.
ApiResolveValue(named) ==
    LET ns == Segments(named.path)[1]
    IN  IF ~named.ok THEN NotResolved
        ELSE IF ns = "ipfs" THEN ResolveToLastNode("unixfs", named.path)
        ELSE IF ns = "ipld" THEN ResolveToLastNode("single", named.path)
        ELSE NotResolved
ApiResolvePath(p) == ApiResolveValue(ResolveIPNS(p))

\* The resolve command, with the node's own resolver.
ResolveCmd(p, recursive) ==
    IF HasPrefix(p, "ipns") /\ ~recursive
    THEN ResolveNameOnce(p)
    ELSE LET nd == Resolve("single", ParsePath(p).path)
         IN  IF ParsePath(p).ok /\ nd.ok THEN Good(<<"", "ipfs", nd.key>>) ELSE Bad

-----------------------------------------------------------------------------
PtInit == /\ txt \in {<<s>> : s \in Part}
          /\ absent \in {{k} : k \in Key} \cup {{}}

Extend ==
    /\ Len(txt) < MaxParts
    /\ \E s \in Part : txt' = Append(txt, s)
    /\ UNCHANGED absent

PtNext == Extend
PtSpec == PtInit /\ [][PtNext]_ptvars

-----------------------------------------------------------------------------
(* Properties                                                              *)

Parsed == ParsePath(txt)
Climbs == \E i \in DOMAIN txt : txt[i] = ".."
Gaps == \E i \in 2..Len(txt) : txt[i] = ""

\* The key a path was validated with is the key it is resolved from: SplitAbsPath
\* of a path ParsePath accepts under /ipfs starts at the part ParsePath decoded.
\* A path that climbs with ".." is validated before it is cleaned, so it is
\* excepted.
ValidatedIsUsed ==
    (Parsed.ok /\ ~Climbs /\ Parsed.path[2] = "ipfs")
        => LET split == SplitAbsPath(Parsed.path)
           IN  split.ok /\ split.key = Parsed.path[3]

\* The core API and core.Resolve agree on every accepted path that ends under
\* /ipfs: both reach the same node, or neither reaches one.  (The API alone goes
\* on into the leaves of a node.)
ResolversAgree ==
    LET api  == ApiResolvePath(Parsed.path)
        core == Resolve("unixfs", Parsed.path)
        named == ResolveIPNS(Parsed.path)
    IN  (Parsed.ok /\ named.ok /\ Segments(named.path)[1] = "ipfs")
            => /\ core.ok => api = core
               /\ (api.ok /\ api.rest = <<>> /\ ParsePath(named.path).ok) => core = api

BareName(p) == Len(Segments(p)) = 2 /\ Segments(p)[1] = "ipns"
UnderShard(p) ==
    LET head == PoppedHead(p)
    IN  ~IsJustAKey(p) /\ head.ok /\ LET nd == Resolve("unixfs", head.path)
                                   IN nd.ok /\ NodeOf[nd.key].kind = "shard"

\* ResolveToCid, which `pin rm` and `repo` use, gives the key of the node that
\* Resolve, which `pin add` uses, reaches; and where it gives a key whose node
\* is present, Resolve reaches it.  Excepted are a name with nothing after it,
\* whose head is no path, and the entries of a sharded directory, whose last hop
\* ResolveToCid takes as a plain link.
CidAgrees ==
    LET p == Parsed.path
        c == ResolveToCid("unixfs", p)
        n == Resolve("unixfs", p)
    IN  (Parsed.ok /\ ~Climbs /\ ~BareName(p) /\ ~UnderShard(p))
            => (n.ok => c = n) /\ ((c.ok /\ Fetched(c.key)) => n = c)

\* The nodes ResolveLinks returns lead from the root along the names, whether it
\* ends or fails: each is present, and is linked from the one before it.
WalkIsChain ==
    LET split == SplitAbsPath(Parsed.path)
        walk  == ResolvePathComponents("unixfs", Parsed.path)
    IN  (Parsed.ok /\ walk.err # "root")
            => /\ walk.nodes[1] = split.key
               /\ \A i \in DOMAIN walk.nodes : Fetched(walk.nodes[i])
               /\ \A i \in 2..Len(walk.nodes) :
                     ResolveUnixfsOnce(walk.nodes[i - 1], split.rest[i - 1]) = walk.nodes[i]
               /\ walk.err = "none" => Len(walk.nodes) = Len(split.rest) + 1

\* Following a name one step and resolving what it stands for reaches what
\* `resolve -r` reaches at once, though one goes through the name system's own
\* joining of paths and the other through ResolveIPNS.  Only the latter cleans
\* the path first, so empty parts and ".." are excepted.
StepwiseAgrees ==
    LET step == ResolveCmd(txt, FALSE)
        once == ResolveCmd(txt, TRUE)
    IN  (Parsed.ok /\ ~Climbs /\ ~Gaps /\ HasPrefix(txt, "ipns") /\ once.ok)
            => step.ok /\ ResolveCmd(step.path, TRUE) = once

\* What ResolveToCid's comment says of every path: it is a key, or it is resolved
\* as Resolve does.
CidAlways ==
    LET n == Resolve("unixfs", Parsed.path)
    IN  (Parsed.ok /\ n.ok) => ResolveToCid("unixfs", Parsed.path) = n

=============================================================================
