------------------------------ MODULE MCFiles -------------------------------
(***************************************************************************)
(* The instances of the parts that make, walk, edit and show DAGs:         *)
(* fetching and walking one (FetchGraph, Walks), files and directories     *)
(* (UnixFile, Directory), nodes and their encodings (Objects), editing     *)
(* (DagEdit), paths (Paths) and the HTTP gateway (Gateway).                *)
(*                                                                         *)
(* The parts do not share state.  Each behaviour runs one of them, chosen  *)
(* at its start, and the variables of the others are out of use;           *)
(* FetchGraph, which this module extends, then stays in an initial state.  *)
(***************************************************************************)
EXTENDS FetchGraph, TLC

CONSTANTS Units

VARIABLES unit,
          tdag, order, skipDup, errFunc, missing, failsAt, walk,
          rfargs, unique, recursive, rfabsent, nextArg, stack, rfseen, offer,
          rfout, rfstatus, left,
          mkeys, coming, mcount, decoder, mout, mreader, mgot, mctx,
          raw, layout, chunks, dag, phase, m, want, pos, odd, misread, nops,
          scheme, links, shard, expected, lazy, edits,
          sent, wire, windex, wmsg, wstatus,
          pnode, stale, reset, foreign, oNops, ocmd,
          tfile, imported, troot, frames, tout, teof,
          txt, absent,
          source, eroot, tmp, wanted, twin, finalized, nedits, old, new,
          site, gblocks, gname, gcache, greq, greply, groot, gwrites

\* A DAG in which c and d are met on several ways.
FetchKids == ("a" :> <<"b", "c", "e">>) @@ ("b" :> <<"c", "d">>) @@ ("c" :> <<"d">>)
          @@ ("d" :> <<>>) @@ ("e" :> <<>>)

\* DAGs of four nodes with at most two links each, in order.
UpToTwo(T) == {<<>>} \cup {<<x>> : x \in T} \cup {<<x, y>> : x \in T, y \in T}
WDags == {<<a, b, c, <<>>>> : a \in UpToTwo({2, 3, 4}), b \in UpToTwo({3, 4}), c \in {<<>>, <<4>>}}
WKids == ("a" :> <<"b", "c">>) @@ ("b" :> <<"c", "d">>) @@ ("c" :> <<"d">>) @@ ("d" :> <<>>)
WArgs == {<<"a">>, <<"a", "b">>, <<"c", "a">>, <<"b", "b">>}
WLists == {<<"a">>, <<"a", "b", "a">>, <<"a", "z">>, <<"a", "b", "c">>}

\* Names whose hashes agree in up to two steps.
NameHash == ("a" :> <<0, 0, 0, 0>>) @@ ("b" :> <<0, 0, 1, 0>>) @@ ("c" :> <<0, 1, 0, 0>>)
         @@ ("d" :> <<1, 0, 0, 0>>)

\* Tar entries: names that need escaping, sizes at the boundary of a block.
TarEntries == {[path |-> <<"a">>, size |-> 0], [path |-> <<"a">>, size |-> 3],
               [path |-> <<"a", "data">>, size |-> 4], [path |-> <<"a", "b">>, size |-> 1],
               [path |-> <<"data">>, size |-> 0]}
TarOrder == <<<<"-", "a">>, <<"-", "b">>, <<"-", "data">>, <<"", "data">>>>

\* A directory over a sharded one over a node with data, and three names, the
\* last of which is published as itself.
NoLinks == [x \in {} |-> ""]
PathNodes == ("kd" :> [kind |-> "dir", links |-> ("a" :> "ks"), entries |-> NoLinks, leaves |-> {}])
          @@ ("ks" :> [kind |-> "shard", links |-> ("F0a" :> "kl"), entries |-> ("a" :> "kl"), leaves |-> {}])
          @@ ("kl" :> [kind |-> "data", links |-> NoLinks, entries |-> NoLinks, leaves |-> {"a"}])
PathNames == ("n" :> <<"", "ipfs", "kd">>) @@ ("m" :> <<"", "ipns", "n", "a">>) @@ ("l" :> <<"", "ipns", "l">>)

\* Trees for the editor and the gateway.
Tree(d, ls) == [data |-> d, links |-> ls]
File(d) == Tree(d, <<>>)
Plain == {File("dir"), Tree("dir", [a |-> File("x")])}
Site1 == Tree("dir", ("a" :> Tree("dir", ("b" :> File("x")))))
Site2 == Tree("dir", ("a" :> File("x")) @@ ("index.html" :> File("raw")))
Site3 == Tree("dir", ("a" :> Tree("dir", ("index.html" :> File("dir")))))
Sites == {[writable |-> TRUE, online |-> TRUE, prefix |-> <<>>, hosted |-> h] : h \in BOOLEAN}
    \cup {[writable |-> FALSE, online |-> o, prefix |-> <<"p">>, hosted |-> FALSE] : o \in BOOLEAN}

W == INSTANCE Walks WITH
    TDags <- WDags, TRoot <- 1, TMissing <- {{}, {3}}, TFails <- {0, 3},
    RefKids <- WKids, RefArgs <- WArgs, RefAbsent <- {{}, {"c"}},
    ManyLists <- WLists, Undecodable <- {"z"}

U == INSTANCE UnixFile WITH
    Maxlinks <- 2, LayerRepeat <- 2, MaxChunks <- 7, MaxAppend <- 2,
    MaxOpen <- 2, MaxSize <- 4, MaxOps <- 3, WriteBuffer <- 3, SplitSize <- 2

D == INSTANCE Directory WITH
    Entry <- {"a", "b", "c", "d"}, Target <- {"v1", "v2"}, HashOf <- NameHash,
    MaxEdits <- 5

O == INSTANCE Objects WITH
    Hashes <- {<<>>, <<<<18>>>>}, NamesUsed <- {<<<<>>>>, <<<<97>>>>},
    Tsizes <- {<<>>, <<128>>}, Blobs <- {<<>>, <<<<>>>>, <<<<7>>>>},
    Unknown <- {<<>>, <<42, 0>>}, MaxLinks <- 2, ONames <- {1, 2},
    OTargets <- {"c1"}, OData <- {"empty", "text", "binary"}, MaxNodeOps <- 4,
    TEntry <- TarEntries, TOrder <- TarOrder, TLength <- 3, BlockSize <- 3,
    Buffers <- {1, 2, 3}, nops <- oNops

P == INSTANCE Paths WITH
    Key <- {"kd", "ks", "kl"}, NodeOf <- PathNodes, Published <- PathNames,
    Part <- {"", "..", "ipfs", "ipns", "kd", "n", "m", "a"}, MaxParts <- 5,
    Depth <- 2

G == INSTANCE Gateway WITH
    LName <- {"a", "b"}, Datum <- {"dir", "x"}, Sources <- Plain,
    Insertable <- {File("x")},
    EPaths <- {<<"a">>, <<"b">>, <<"a", "a">>, <<"a", "b">>, <<"b", "a">>},
    MaxEdit <- 3, NameOrder <- <<"a", "b">>, GwRoots <- {Site1, Site2, Site3},
    GwPaths <- {<<>>, <<"a">>, <<"a", "b">>, <<"c">>},
    GwFiles <- {File("y"), File("dir")},
    GwAbsent <- {{}, {File("raw")}, {Site1.links["a"]}}, GwSites <- Sites,
    MaxWrites <- 1

TraverseVars == <<tdag, order, skipDup, errFunc, missing, failsAt, walk>>
RefsVars == <<rfargs, unique, recursive, rfabsent, nextArg, stack, rfseen,
              offer, rfout, rfstatus, left>>
ManyVars == <<mkeys, coming, mcount, decoder, mout, mreader, mgot, mctx>>
FileVars == <<raw, layout, chunks, dag, phase, m, want, pos, odd, misread,
              nops>>
DirVars == <<scheme, links, shard, expected, lazy, edits>>
PbVars == <<sent, wire, windex, wmsg, wstatus>>
ObjectVars == <<pnode, stale, reset, foreign, oNops, ocmd>>
TarVars == <<tfile, imported, troot, frames, tout, teof>>
PathVars == <<txt, absent>>
EditVars == <<source, eroot, tmp, wanted, twin, finalized, nedits, old, new>>
GatewayVars == <<site, gblocks, gname, gcache, greq, greply, groot, gwrites>>

\* The variables of a part that is not the one being run.
TraverseIdle ==
    /\ tdag = 0 /\ order = 0 /\ skipDup = 0 /\ errFunc = 0 /\ missing = 0
    /\ failsAt = 0 /\ walk = 0
RefsIdle ==
    /\ rfargs = 0 /\ unique = 0 /\ recursive = 0 /\ rfabsent = 0
    /\ nextArg = 0 /\ stack = 0 /\ rfseen = 0 /\ offer = 0 /\ rfout = 0
    /\ rfstatus = 0 /\ left = 0
ManyIdle ==
    /\ mkeys = 0 /\ coming = 0 /\ mcount = 0 /\ decoder = 0 /\ mout = 0
    /\ mreader = 0 /\ mgot = 0 /\ mctx = 0
FileIdle ==
    /\ raw = 0 /\ layout = 0 /\ chunks = 0 /\ dag = 0 /\ phase = 0 /\ m = 0
    /\ want = 0 /\ pos = 0 /\ odd = 0 /\ misread = 0 /\ nops = 0
DirIdle ==
    /\ scheme = 0 /\ links = 0 /\ shard = 0 /\ expected = 0 /\ lazy = 0
    /\ edits = 0
PbIdle ==
    /\ sent = 0 /\ wire = 0 /\ windex = 0 /\ wmsg = 0 /\ wstatus = 0
ObjectIdle ==
    /\ pnode = 0 /\ stale = 0 /\ reset = 0 /\ foreign = 0 /\ oNops = 0
    /\ ocmd = 0
TarIdle ==
    /\ tfile = 0 /\ imported = 0 /\ troot = 0 /\ frames = 0 /\ tout = 0
    /\ teof = 0
PathIdle ==
    /\ txt = 0 /\ absent = 0
EditIdle ==
    /\ source = 0 /\ eroot = 0 /\ tmp = 0 /\ wanted = 0 /\ twin = 0
    /\ finalized = 0 /\ nedits = 0 /\ old = 0 /\ new = 0
GatewayIdle ==
    /\ site = 0 /\ gblocks = 0 /\ gname = 0 /\ gcache = 0 /\ greq = 0
    /\ greply = 0 /\ groot = 0 /\ gwrites = 0

\* One part is run at a time; the others keep still.
SuiteInit ==
    /\ unit \in Units
    /\ IF unit = "fetch" THEN GInit ELSE (GInit /\ lost = {})
    /\ IF unit = "traverse" THEN W!TvInit ELSE TraverseIdle
    /\ IF unit = "refs" THEN W!RfInit ELSE RefsIdle
    /\ IF unit = "many" THEN W!GmInit ELSE ManyIdle
    /\ IF unit = "file" THEN U!MInit ELSE FileIdle
    /\ IF unit = "directory" THEN D!HInit ELSE DirIdle
    /\ IF unit = "pb" THEN O!WInit ELSE PbIdle
    /\ IF unit = "object" THEN O!OInit ELSE ObjectIdle
    /\ IF unit = "tar" THEN O!TInit ELSE TarIdle
    /\ IF unit = "path" THEN P!PtInit ELSE PathIdle
    /\ IF unit = "edit" THEN G!XInit ELSE EditIdle
    /\ IF unit = "gateway" THEN G!GwInit ELSE GatewayIdle

Rest(u) ==
    /\ UNCHANGED unit
    /\ IF u \in {"fetch"} THEN TRUE ELSE UNCHANGED gvars
    /\ IF u = "traverse" THEN TRUE ELSE UNCHANGED TraverseVars
    /\ IF u = "refs" THEN TRUE ELSE UNCHANGED RefsVars
    /\ IF u = "many" THEN TRUE ELSE UNCHANGED ManyVars
    /\ IF u = "file" THEN TRUE ELSE UNCHANGED FileVars
    /\ IF u = "directory" THEN TRUE ELSE UNCHANGED DirVars
    /\ IF u = "pb" THEN TRUE ELSE UNCHANGED PbVars
    /\ IF u = "object" THEN TRUE ELSE UNCHANGED ObjectVars
    /\ IF u = "tar" THEN TRUE ELSE UNCHANGED TarVars
    /\ IF u = "path" THEN TRUE ELSE UNCHANGED PathVars
    /\ IF u = "edit" THEN TRUE ELSE UNCHANGED EditVars
    /\ IF u = "gateway" THEN TRUE ELSE UNCHANGED GatewayVars

FetchStep == unit = "fetch" /\ GNext /\ Rest("fetch")
TraverseStep == unit = "traverse" /\ W!TvNext /\ Rest("traverse")
RefsStep == unit = "refs" /\ W!RfNext /\ Rest("refs")
ManyStep == unit = "many" /\ W!GmNext /\ Rest("many")
FileStep == unit = "file" /\ U!MNext /\ Rest("file")
DirStep == unit = "directory" /\ D!HNext /\ Rest("directory")
PbStep == unit = "pb" /\ O!WNext /\ Rest("pb")
ObjectStep == unit = "object" /\ O!ONext /\ Rest("object")
TarStep == unit = "tar" /\ O!TNext /\ Rest("tar")
PathStep == unit = "path" /\ P!PtNext /\ Rest("path")
EditStep == unit = "edit" /\ G!XNext /\ Rest("edit")
GatewayStep == unit = "gateway" /\ G!GwNext /\ Rest("gateway")

SuiteNext ==
    \/ FetchStep \/ TraverseStep \/ RefsStep \/ ManyStep \/ FileStep
    \/ DirStep \/ PbStep \/ ObjectStep \/ TarStep \/ PathStep \/ EditStep
    \/ GatewayStep

suiteVars == <<unit, gvars, TraverseVars, RefsVars, ManyVars, FileVars, DirVars,
              PbVars, ObjectVars, TarVars, PathVars, EditVars, GatewayVars>>

SuiteSpec == SuiteInit /\ [][SuiteNext]_suiteVars

-----------------------------------------------------------------------------
\* A traversal calls its function once for every node it can reach, in the
\* order it was asked for, and not after an error; refs writes the edges in
\* order, and with -u no target twice; GetMany answers with every node it was
\* asked for, once, and an error when it has not.  Each conjunct is explained,
\* with its exceptions, where it is defined.
WalksSound ==
    /\ unit = "traverse" =>
           /\ W!VisitsAll /\ W!OrderKept /\ W!StopsAtError
    /\ unit = "refs" =>
           /\ W!EdgesInOrder /\ W!UniqueOnce
    /\ unit = "many" =>
           /\ W!ManyExact /\ W!ManyHonest

\* A file that was imported is whole, of the shape its layout promises, and
\* seeking in it gets to the byte that was asked for; a file that is written,
\* truncated and read holds what the calls made it hold, its sizes say so, and
\* a call fails only where the code says it cannot go on.  A sharded directory
\* lists exactly its entries, finds each of them, and has the shape its names
\* alone determine, with no shard for a single entry.  Each conjunct is
\* explained, with its exceptions, where it is defined.
ContentSound ==
    /\ unit = "file" /\ ~m.open =>
           /\ U!LayoutWhole /\ U!Balanced /\ U!TrickleVerified
           /\ U!SeekExact
    /\ unit = "file" =>
           /\ U!ModifiedSizes /\ U!ContentKept /\ U!FailsOnly /\ U!ReadBack
    /\ unit = "directory" =>
           /\ D!LinksExact /\ D!FindAgrees /\ D!TrieCanonical
           /\ D!SubShardsUsed

\* A node is decoded from its encoding as it was, a cut encoding is refused,
\* nodes are equal when their encodings are, and their sizes are exact; a
\* node's CID is the one of its content after every change, its block is kept
\* by a decoding, and object put reads what object get wrote; a tar file comes
\* back from its DAG in blocks of its size.  Each conjunct is explained, with
\* its exceptions, where it is defined.
NodesSound ==
    /\ unit = "pb" /\ wire = <<>> => O!SizeExact
    /\ unit = "pb" =>
           /\ O!RoundTrip /\ O!CutDetected /\ O!EqualTells
    /\ unit = "object" =>
           /\ O!CidOfContent /\ O!BlockKept /\ O!GetPutSame
    /\ unit = "tar" =>
           /\ O!TarRoundTrip /\ O!TarAligned

\* A path that was validated is the one that is used, the resolvers agree on
\* the node, the CID and each step of it; an edit of an object is exact and
\* complete in the target store, a diff applied to the first object gives the
\* second, and a merge keeps both sides.  What a client of the gateway may keep
\* for ever does not change, redirects and back links lead to what is served,
\* and a write changes the path it names only.  Each conjunct is explained,
\* with its exceptions, where it is defined.
PathsSound ==
    /\ unit = "path" =>
           /\ P!ValidatedIsUsed /\ P!ResolversAgree /\ P!CidAgrees
           /\ P!WalkIsChain /\ P!StepwiseAgrees
    /\ unit = "edit" =>
           /\ G!EditExact /\ G!FinalizedWhole /\ G!DiffTransforms
           /\ G!MergeKeeps /\ G!UpdateFetches
    /\ unit = "gateway" =>
           /\ G!CacheSound /\ G!BackLinkUp /\ G!RedirectServes
           /\ G!WriteExact
=============================================================================
