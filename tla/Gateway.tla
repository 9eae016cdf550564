------------------------------ MODULE Gateway -------------------------------
(***************************************************************************)
(* The HTTP gateway (core/corehttp/gateway_handler.go) and the rewriting   *)
(* of requests by host name (ipns_hostname.go): GET, HEAD, POST, PUT and   *)
(* DELETE of paths under /ipfs and /ipns, and a client that caches.        *)
(*                                                                         *)
(* Nodes are values, as in DagEdit: a node is its own CID and ETag.  A     *)
(* node with data "dir" is a directory, "raw" is not a protobuf node.      *)
(***************************************************************************)
EXTENDS DagEdit

CONSTANTS GwRoots,      \* the DAGs that are served and published
          GwPaths,      \* the paths below a root that are requested
          GwFiles,      \* the files clients send
          GwAbsent,     \* sets of nodes that no one has
          GwSites,      \* [writable, online, prefix, hosted]: how requests arrive
          MaxWrites     \* bound: a client's session ends with its last write

VARIABLES site,
          gblocks,      \* the blocks of the node
          gname,        \* what the name /ipns/n points to
          gcache,       \* what the client cached: <<>> or one response, with its URL
          greq, greply, \* the last request and its answer
          groot,        \* history: the root it named, when it arrived
          gwrites       \* number of writes

gwvars == <<site, gblocks, gname, gcache, greq, greply, groot, gwrites>>

\* A URL: /ipfs/<root>/<segs> or /ipns/n/<segs>, with or without a slash at its end.
\* The name n is written as a leaf.
Urls == [ns : {"ipfs"}, root : GwRoots, segs : GwPaths, slash : BOOLEAN]
        \cup [ns : {"ipns"}, root : {Leaf("n")}, segs : GwPaths, slash : BOOLEAN]

IndexPage == "index.html"
IsDir(n) == n.data = "dir"
RootOf(url) == IF url.ns = "ipns" THEN gname ELSE url.root

\* Resolution: the node, or the error that stopped it.
RECURSIVE Lookup(_, _, _)
Lookup(blocks, n, segs) ==
    IF n \notin blocks THEN [err |-> "absent", node |-> n]
    ELSE IF segs = <<>> THEN [err |-> "nil", node |-> n]
    ELSE IF Head(segs) \notin LinkNames(n) THEN [err |-> "nolink", node |-> n]
    ELSE Lookup(blocks, n.links[Head(segs)], Tail(segs))
Resolve(url) == Lookup(gblocks, RootOf(url), url.segs)

\* An answer: its code, and what the headers and the body say.
Answer(code) == [code |-> code, etag |-> <<>>, immutable |-> FALSE, body |-> <<>>, location |-> <<>>]
Body(kind, n, back) == <<kind, n, back>>

\* webError
WebError(err, code) == Answer(IF err = "nolink" THEN 404 ELSE code)

-----------------------------------------------------------------------------
(* GET and HEAD                                                            *)

\* The segments of the URL, below the prefix of a reverse proxy, as they are split
\* at the slashes.
Split(url) == <<"">> \o site.prefix \o <<url.ns, "root">> \o url.segs
              \o IF url.slash THEN <<"">> ELSE <<>>
Whole(url) == site.prefix \o <<url.ns, "root">> \o url.segs

\* The link to the parent directory, as the client follows it.
BackLinkUnder(url) == site.prefix
BackLink(url) ==
    LET split == Split(url)
    IN  IF site.hosted /\ url.ns = "ipns"
        THEN IF Len(split) > 5 THEN site.prefix \o SubSeq(split, 4, Len(split) - 2) ELSE site.prefix
        ELSE IF Len(split) = 3 \/ (Len(split) = 4 /\ split[4] = "") THEN Whole(url)
        ELSE SubSeq(Whole(url), 1, Len(Whole(url)) - 1)

\* Cache-Control
ImmutableAny(url, n) == ~IsDir(n)
Immutable(url, n) == url.ns = "ipfs" /\ ~IsDir(n)

\* The index page of a directory is served under a URL that ends with a slash.
RedirectsAlways(url) == TRUE
Redirects(url) == ~url.slash

ServeIndex(head, url, page) ==
    IF page \notin gblocks THEN Answer(500)
    ELSE IF Redirects(url) THEN [Answer(302) EXCEPT !.location = <<url.ns, url.root, url.segs>>]
    ELSE IF IsDir(page) THEN Answer(500)
    ELSE [Answer(200) EXCEPT !.body = Body("content", page, <<>>)]

ServeDir(head, url, dir) ==
    IF IndexPage \in LinkNames(dir) THEN ServeIndex(head, url, dir.links[IndexPage])
    ELSE [Answer(200) EXCEPT !.body = Body("listing", dir, BackLink(url))]

\* getOrHeadHandler; inm is the ETag of If-None-Match, or <<>>.
getOrHeadHandler(head, url, inm) ==
    LET r == Resolve(url)
        answer == IF IsDir(r.node) THEN ServeDir(head, url, r.node)
                  ELSE [Answer(200) EXCEPT !.body = Body("content", r.node, <<>>),
                                           !.immutable = Immutable(url, r.node)]
    IN  IF url.ns = "ipns" /\ ~site.online THEN Answer(503)
        ELSE IF r.err # "nil" THEN WebError(r.err, 404)
        ELSE IF inm = <<r.node>> THEN Answer(304)
        ELSE [answer EXCEPT !.etag = <<r.node>>,
                            !.body = IF head THEN <<>> ELSE @]

-----------------------------------------------------------------------------
(* POST, PUT and DELETE, of a writable gateway: the answer and the blocks it adds *)

Outcome(answer, added) == [answer |-> answer, added |-> added]
Refuse(err, code) == Outcome(WebError(err, code), {})
Created(root, segs, added) == Outcome([Answer(201) EXCEPT !.location = <<"ipfs", root, segs>>], added)

postHandler(file) == Created(file, <<>>, {file})

\* The check for /ipns compares the first segment with "/ipns/".
putHandler(url, file) ==
    LET r == Resolve(url)
        edit == InsertNodeAtPath({}, gblocks, RootOf(url), url.segs, file, TRUE)
    IN  CASE r.err = "nolink" ->
               IF url.ns = "ipns" THEN Refuse("decode", 400)
               ELSE IF RootOf(url).data = "raw" THEN Refuse("notprotobuf", 400)
               ELSE IF edit.ok THEN Created(edit.node, url.segs, CopyDag(edit.node, edit.tmp) \cup {file})
               ELSE Refuse("insert", 500)
          [] r.err = "nil" ->
               IF r.node.data = "raw" THEN Refuse("notprotobuf", 400)
               ELSE LET n == Node(file.data, r.node.links)
                    IN Created(n, url.segs, {n, file})
          [] OTHER -> Refuse(r.err, 500)

\* deleteHandler: the parent without the link, then its ancestors, bottom up.
RECURSIVE Rebuilt(_, _)
Rebuilt(n, segs) ==
    IF Len(segs) = 1 THEN {WithoutLink(n, Head(segs))}
    ELSE LET below == Rebuilt(n.links[Head(segs)], Tail(segs))
             child == CHOOSE c \in below : \A d \in below : d \in Reach(c)
         IN below \cup {WithLink(n, Head(segs), child)}
NewRoot(nodes) == CHOOSE n \in nodes : nodes \subseteq Reach(n)

DeletedAlone(n, segs) == Rebuilt(Leaf(n.data), <<Head(segs)>>)
Deleted(n, segs) == Rebuilt(n, segs)

\* With no segment below the root the handler panics, and the server answers 200.
deleteHandler(url) ==
    IF url.ns = "ipns" THEN Refuse("decode", 500)
    ELSE IF url.root \notin gblocks THEN Refuse("absent", 400)
    ELSE IF url.segs = <<>> THEN Outcome(Answer(200), {})
    ELSE LET parent == Lookup(gblocks, url.root, Front(url.segs))
         IN IF parent.err # "nil" THEN Refuse(parent.err, 400)
            ELSE IF parent.node.data = "raw" \/ Last(url.segs) \notin LinkNames(parent.node)
            THEN Refuse("unlink", 400)
            ELSE LET made == Deleted(url.root, url.segs)
                 IN Created(NewRoot(made), Front(url.segs), made)

-----------------------------------------------------------------------------
(* The handler, and the rest of the world                                  *)

NoRequest == [method |-> "none", url |-> <<>>, file |-> <<>>]

GwInit ==
    /\ site \in GwSites
    /\ \E absent \in GwAbsent : gblocks = UNION {Reach(r) : r \in GwRoots} \ absent
    /\ gname \in GwRoots
    /\ gcache = <<>> /\ greq = NoRequest /\ greply = Answer(0) /\ groot = EmptyDir
    /\ gwrites = 0

Cached(url) == gcache # <<>> /\ gcache[1] = url

\* ServeHTTP
ServeGet(method, url) ==
    /\ \E inm \in {<<>>} \cup (IF Cached(url) THEN {gcache[2].etag} ELSE {}) :
          LET answer == getOrHeadHandler(method = "HEAD", url, inm)
          IN  /\ greply' = answer
              /\ gcache' = IF method = "GET" /\ answer.code = 200 THEN <<url, answer>> ELSE gcache
    /\ greq' = [method |-> method, url |-> url, file |-> <<>>] /\ groot' = RootOf(url)
    /\ UNCHANGED <<site, gblocks, gname, gwrites>>

ServeWrite(method, url, file) ==
    LET out == CASE ~site.writable -> Outcome(Answer(405), {})
                 [] method = "POST" -> postHandler(file)
                 [] method = "PUT" -> putHandler(url, file)
                 [] method = "DELETE" -> deleteHandler(url)
    IN  /\ greply' = out.answer /\ gblocks' = gblocks \cup out.added
        /\ greq' = [method |-> method, url |-> url, file |-> <<file>>] /\ groot' = RootOf(url)
        /\ gwrites' = gwrites + 1
        /\ UNCHANGED <<site, gname, gcache>>

\* The client reads the answer.
ReadAnswer ==
    /\ greq.method # "none"
    /\ greq' = NoRequest /\ greply' = Answer(0) /\ groot' = EmptyDir
    /\ UNCHANGED <<site, gblocks, gname, gcache, gwrites>>

PublishName(root) ==
    /\ gname' = root
    /\ UNCHANGED <<site, gblocks, gcache, greq, greply, groot, gwrites>>

GwNext ==
    \/ ReadAnswer
    \/ /\ greq.method = "none" /\ gwrites < MaxWrites
       /\ \/ \E method \in {"GET", "HEAD"}, url \in Urls : ServeGet(method, url)
          \/ \E method \in {"POST", "DELETE"}, url \in Urls : ServeWrite(method, url, Leaf("post"))
          \/ \E url \in Urls, file \in GwFiles : ServeWrite("PUT", url, file)
          \/ \E root \in GwRoots : PublishName(root)
GwSpec == GwInit /\ [][GwNext]_gwvars

-----------------------------------------------------------------------------
(* Properties                                                              *)

\* What a client keeps is what it would get.  A response marked immutable is still
\* the answer of its URL, whatever was published since; and after a 304 the cached
\* body is the one an unconditional request would bring.
CacheSound ==
    (gcache # <<>> /\ (gcache[2].immutable \/ (greply.code = 304 /\ greq.url = gcache[1])))
        => getOrHeadHandler(FALSE, gcache[1], <<>>).body = gcache[2].body

\* The link of a listing to the parent directory leads there, and from the root of a
\* site to itself; exceptions: a prefix of a reverse proxy, and a site under its own
\* host name whose URL does not end with a slash.
Parent(url) ==
    LET base == IF site.hosted /\ url.ns = "ipns" THEN site.prefix ELSE site.prefix \o <<url.ns, "root">>
    IN  IF url.segs = <<>> THEN base ELSE base \o Front(url.segs)
Listing == greq.method = "GET" /\ greply.code = 200 /\ greply.body[1] = "listing"
BackLinkUp ==
    (Listing /\ site.prefix = <<>> /\ (site.hosted /\ greq.url.ns = "ipns" => greq.url.slash))
        => greply.body[3] = Parent(greq.url)
\* ... which the code does not guarantee without them.
BackLinkAlways == Listing => greply.body[3] = Parent(greq.url)

\* The client that follows a redirect is not redirected again.
RedirectServes ==
    greply.code = 302 => getOrHeadHandler(FALSE, [greq.url EXCEPT !.slash = TRUE], <<>>).code # 302

\* A DAG a PUT or DELETE has made is the old one but for the path it names: that path
\* leads to the file, or nowhere, every path that does not touch it leads where it
\* led, and the location that is sent back resolves.  The exception is a PUT to a path
\* that exists, whose answer names the changed node instead of a root.
Apart(p, q) == ~IsPrefix(p, q) /\ ~IsPrefix(q, p)
Existed == Lookup(Reach(groot), groot, greq.url.segs).err = "nil"
WriteExact ==
    (greply.code = 201 /\ greq.method \in {"PUT", "DELETE"} /\ ~(greq.method = "PUT" /\ Existed)) =>
        LET made == greply.location[2]
            now(q) == Lookup(Reach(made), made, q)
            was(q) == Lookup(Reach(groot), groot, q)
        IN  /\ Lookup(gblocks, made, greply.location[3]).err = "nil"
            /\ \A q \in GwPaths : Apart(q, greq.url.segs)
                  => now(q).err = was(q).err /\ (now(q).err = "nil" => now(q).node = was(q).node)
            /\ IF greq.method = "PUT" THEN now(greq.url.segs).node = greq.file[1]
               ELSE now(greq.url.segs).err = "nolink"
\* ... which the code does not guarantee without it.
WriteLocated ==
    greply.code = 201 => Lookup(gblocks, greply.location[2], greply.location[3]).err = "nil"

\* A PUT under /ipns is refused, as its error message says; the code lets it through.
IpnsPutRefused == (greq.method = "PUT" /\ greq.url.ns = "ipns") => greply.code # 201

=============================================================================
