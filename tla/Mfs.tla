-------------------------------- MODULE Mfs --------------------------------
(***************************************************************************)
(* The mutable file system (mfs/) under the `files` commands               *)
(* (core/commands/files.go).                                               *)
(*                                                                         *)
(* A Directory or File object is an element of the heap `obj`, numbered in *)
(* the order of creation; object 1 is the root directory.  A directory     *)
(* holds the links of its unixfs node and a cache of the child objects     *)
(* handed out so far; a file holds its node and its descriptor lock.  Each *)
(* section that runs under one Directory lock is one step.  GetNode        *)
(* recurses with the locks of the cached directories below taken in turn;  *)
(* it is one step here.                                                    *)
(*                                                                         *)
(* A node is a record: a directory's has links, a file's has data, the set *)
(* of writes it contains (writes are at offsets of their own; a truncating *)
(* write drops the others).  Cid versions, sizes and sharding are data.    *)
(* WaitPub, the republisher's part, is module Republisher; here it returns.*)
(***************************************************************************)
EXTENDS Naturals, Sequences, FiniteSets

CONSTANTS
    Client,         \* processes that run `files` commands
    Script,         \* Script[c]: the sequences of commands c may run
    Tree            \* the root node NewRoot is given

VARIABLES
    obj,            \* the heap of Directory and File objects
    todo,           \* commands the client has still to run
    pc,             \* where in its command the client is
    then,           \* where the client goes when its lookup ends
    cur,            \* the object the client holds
    rest,           \* the names the lookup has still to follow
    val,            \* a node the client has read or is handing upwards
    dst,            \* the target directory of the client's move
    desclock,       \* the file whose descriptor lock the client holds, or 0
    published,      \* the node given to Republisher.Update last
    begun,          \* history: writes whose data is on its way
    acked,          \* history: flushed writes that returned success
    excused,        \* history: writes removed, truncated or overwritten
    overtaken       \* history: writes an older node was published over

vars == <<obj, todo, pc, then, cur, rest, val, dst, desclock,
          published, begun, acked, excused, overtaken>>
locals == <<then, cur, rest, val, dst>>
history == <<begun, acked, excused, overtaken>>

Root == 1
Empty == <<>>
FileNode(data) == [dir |-> FALSE, data |-> data, links |-> Empty]
DirNode(links) == [dir |-> TRUE, data |-> {}, links |-> links]

Extend(f, n, v) == [m \in DOMAIN f \cup {n} |-> IF m = n THEN v ELSE f[m]]
Without(f, n) == [m \in DOMAIN f \ {n} |-> f[m]]

\* NewDirectory and NewFile: the object for the node nd, child n of up.
NewObject(up, n, nd) == [dir |-> nd.dir, up |-> up, name |-> n,
    links |-> nd.links, cache |-> Empty, data |-> nd.data]

----------------------------------------------------------------------------
(* Operations on the heap. *)

\* The node GetNode computes: the links, with every cached child's own node.
RECURSIVE Node(_, _)
Node(h, o) ==
    IF h[o].dir
      THEN DirNode([n \in DOMAIN h[o].links \cup DOMAIN h[o].cache |->
                      IF n \in DOMAIN h[o].cache
                        THEN Node(h, h[o].cache[n]) ELSE h[o].links[n]])
      ELSE FileNode(h[o].data)

\* The node at path p below nd, an empty file where there is none.
RECURSIVE Resolve(_, _)
Resolve(nd, p) ==
    IF p = Empty THEN nd
    ELSE IF Head(p) \in DOMAIN nd.links THEN Resolve(nd.links[Head(p)], Tail(p))
    ELSE FileNode({})

RECURSIVE Below(_, _)
Below(h, o) ==
    {o} \cup UNION {Below(h, h[o].cache[n]) : n \in DOMAIN h[o].cache}

\* What GetNode does to the objects: sync updates the links of every
\* directory it visits.
GetNode(h, o) ==
    [i \in DOMAIN h |-> IF i \in Below(h, o)
                          THEN [h[i] EXCEPT !.links = Node(h, i).links]
                          ELSE h[i]]

\* childUnsync finds name n: in the caches, else in the links.
HasChild(h, o, n) == n \in DOMAIN h[o].cache \cup DOMAIN h[o].links

ChildOffByOne(h, o, n) ==
    IF n \in DOMAIN h[o].cache
      THEN h
      ELSE Append([h EXCEPT ![o].cache = Extend(@, n, Len(h) + 2)],
                  NewObject(o, n, h[o].links[n]))

ChildNoCache(h, o, n) ==
    Append([h EXCEPT ![o].cache = Extend(@, n, Len(h) + 1)],
           NewObject(o, n, h[o].links[n]))

\* childUnsync, for a name it finds: cacheNode if it is not cached yet.
Child(h, o, n) ==
    IF n \in DOMAIN h[o].cache
      THEN h
      ELSE Append([h EXCEPT ![o].cache = Extend(@, n, Len(h) + 1)],
                  NewObject(o, n, h[o].links[n]))

\* AddUnixFSChild and updateChild.
Link(h, o, n, nd) == [h EXCEPT ![o].links = Extend(@, n, nd)]

UnlinkKeepingCache(h, o, n) == [h EXCEPT ![o].links = Without(@, n)]

Unlink(h, o, n) ==
    [h EXCEPT ![o].cache = Without(@, n), ![o].links = Without(@, n)]

\* Directory.Mkdir for a name that is free: link an empty node, cache its
\* object.
MkdirAt(h, o, n) == Child(Link(h, o, n, DirNode(Empty)), o, n)

\* ForEachEntry caches every child.
RECURSIVE CacheAll(_, _, _)
CacheAll(h, o, S) ==
    IF S = {} THEN h
    ELSE LET n == CHOOSE m \in S : TRUE IN CacheAll(Child(h, o, n), o, S \ {n})

----------------------------------------------------------------------------
Init ==
    /\ obj = <<NewObject(0, "", Tree)>>
    /\ todo \in [Client -> UNION {Script[c] : c \in Client}]
    /\ \A c \in Client : todo[c] \in Script[c]
    /\ pc = [c \in Client |-> "idle"]
    /\ then = [c \in Client |-> "idle"]
    /\ cur = [c \in Client |-> Root]
    /\ rest = [c \in Client |-> Empty]
    /\ val = [c \in Client |-> FileNode({})]
    /\ dst = [c \in Client |-> Root]
    /\ desclock = [c \in Client |-> 0]
    /\ published = Tree                     \* NewRoot: repub.setVal
    /\ begun = {} /\ acked = {} /\ excused = {} /\ overtaken = {}

cmd(c) == Head(todo[c])
Parent(p) == SubSeq(p, 1, Len(p) - 1)
Base(p) == p[Len(p)]
IsPrefix(p, q) == Len(p) <= Len(q) /\ SubSeq(q, 1, Len(p)) = p

\* The write a client is at: a name for its data, and where it was put.
Write(c) == <<c, Len(todo[c]), cmd(c).path>>
Under(p) == {w \in begun : IsPrefix(p, w[3])}

\* gopath.Split and the choice of target in Mv.
Target(c) == IF cmd(c).into THEN Append(cmd(c).dst, Base(cmd(c).path))
                            ELSE cmd(c).dst

Goto(c, l) == pc' = [pc EXCEPT ![c] = l]

\* mfs.Lookup(r, p), to go on at l with the object found.
Lookup(c, p, l) ==
    /\ pc' = [pc EXCEPT ![c] = IF p = Empty THEN l ELSE "walk"]
    /\ then' = [then EXCEPT ![c] = l]
    /\ cur' = [cur EXCEPT ![c] = Root]
    /\ rest' = [rest EXCEPT ![c] = p]

\* The command returns; the client's locals are dead.
Return(c) ==
    /\ pc' = [pc EXCEPT ![c] = "idle"]
    /\ todo' = [todo EXCEPT ![c] = Tail(@)]
    /\ then' = [then EXCEPT ![c] = "idle"]
    /\ cur' = [cur EXCEPT ![c] = Root]
    /\ rest' = [rest EXCEPT ![c] = Empty]
    /\ val' = [val EXCEPT ![c] = FileNode({})]
    /\ dst' = [dst EXCEPT ![c] = Root]

\* An early return that has changed nothing.
Fail(c) == Return(c) /\ UNCHANGED <<obj, desclock, published, history>>

\* The command goes on at l, by a step that changes the heap only.
Step(c, h, l) ==
    /\ obj' = h
    /\ Goto(c, l)
    /\ UNCHANGED <<todo, locals, desclock, published, history>>

\* The command returns after changing the heap.
Done(c, h) ==
    /\ obj' = h
    /\ Return(c)
    /\ UNCHANGED <<desclock, published, history>>

----------------------------------------------------------------------------
(* A command starts: Run, up to the first Lookup. *)

First(op) ==
    CASE op = "write" -> "open"
      [] op = "mv"    -> "mvdst"
      [] op = "cp"    -> "cpget"
      [] op = "mkdir" -> "mkdir"
      [] op = "rm"    -> "rm"
      [] OTHER        -> op                 \* flush, chcid, ls, stat, read

Run(c) ==
    /\ pc[c] = "idle"
    /\ todo[c] # Empty
    /\ IF cmd(c).path = Empty /\ cmd(c).op \in {"mkdir", "rm", "mv"}
         THEN Fail(c)                       \* not on the root
         ELSE /\ Lookup(c, CASE cmd(c).op \in {"mkdir", "rm"} -> Parent(cmd(c).path)
                             [] cmd(c).op = "mv" -> Parent(Target(c))
                             [] OTHER -> cmd(c).path,
                        First(cmd(c).op))
              /\ begun' = IF cmd(c).op = "write" THEN begun \cup {Write(c)} ELSE begun
              /\ UNCHANGED <<obj, todo, val, dst, desclock, published, acked,
                             excused, overtaken>>

----------------------------------------------------------------------------
(* Lookup, DirLookup and lookupDir: one Child call a step.                 *)

Walk(c) ==
    /\ pc[c] = "walk"
    /\ obj[cur[c]].dir
    /\ HasChild(obj, cur[c], Head(rest[c]))
    /\ obj' = Child(obj, cur[c], Head(rest[c]))
    /\ cur' = [cur EXCEPT ![c] = obj'[@].cache[Head(rest[c])]]
    /\ rest' = [rest EXCEPT ![c] = Tail(@)]
    /\ Goto(c, IF Len(rest[c]) = 1 THEN then[c] ELSE "walk")
    /\ UNCHANGED <<todo, then, val, dst, desclock, published, history>>

\* Child fails, or the object is no directory.  getFileHandle with create
\* looks up the parent when the error is os.ErrNotExist; Mkdir with parents
\* makes the missing directory (in a Mkdir call of its own); every other
\* command returns the error.
WalkFails(c) ==
    /\ pc[c] = "walk"
    /\ ~(obj[cur[c]].dir /\ HasChild(obj, cur[c], Head(rest[c])))
    /\ \/ /\ obj[cur[c]].dir
          /\ cmd(c).op = "write" /\ cmd(c).create /\ then[c] = "open"
          /\ Lookup(c, Parent(cmd(c).path), "create")
          /\ UNCHANGED <<obj, todo, val, dst, desclock, published, history>>
       \/ /\ obj[cur[c]].dir
          /\ cmd(c).op = "mkdir" /\ cmd(c).parents
          /\ Goto(c, "mkparent")
          /\ UNCHANGED <<obj, todo, locals, desclock, published, history>>
       \/ /\ \/ ~obj[cur[c]].dir
             \/ ~(cmd(c).op = "write" /\ cmd(c).create /\ then[c] = "open")
                /\ ~(cmd(c).op = "mkdir" /\ cmd(c).parents)
          /\ Fail(c)

----------------------------------------------------------------------------
(* closeChild: hand the node val of object cur up to its parent. *)

RECURSIVE Path(_)
Path(o) == IF o = Root THEN Empty ELSE Append(Path(obj[o].up), obj[o].name)

\* The writes the heap has at their place below o and the node nd lacks.
Missing(o, nd) ==
    {w \in begun :
        LET p == SubSeq(w[3], Len(Path(o)) + 1, Len(w[3])) IN
        /\ IsPrefix(Path(o), w[3])
        /\ w \in Resolve(Node(obj, o), p).data
        /\ w \notin Resolve(nd, p).data}

\* closeChild that does not hand its own node on.
CloseChildOnce(c) ==
    /\ pc[c] \in {"up", "upsync"}
    /\ cur[c] # Root
    /\ obj' = Link(obj, obj[cur[c]].up, obj[cur[c]].name, val[c])
    /\ Goto(c, "closed")
    /\ UNCHANGED <<todo, locals, desclock, published, history>>

\* closeChildUpdate on the parent of cur, which links the new node; with
\* sync it goes on with its own current node, which is not synced with its
\* cached children.
CloseChild(c) ==
    LET o == obj[cur[c]].up
        n == obj[cur[c]].name
    IN  /\ pc[c] \in {"up", "upsync"}
        /\ cur[c] # Root
        /\ obj' = Link(obj, o, n, val[c])
        /\ overtaken' = overtaken \cup
             (IF n \in DOMAIN obj[o].cache THEN Missing(obj[o].cache[n], val[c])
                                           ELSE {})
        /\ IF pc[c] = "upsync"
             THEN /\ cur' = [cur EXCEPT ![c] = o]
                  /\ val' = [val EXCEPT ![c] = DirNode(obj'[o].links)]
                  /\ pc' = pc
             ELSE Goto(c, "closed") /\ UNCHANGED <<cur, val>>
        /\ UNCHANGED <<todo, then, rest, dst, desclock, published, begun, acked,
                       excused>>

\* Root.closeChild: the node goes to the republisher.
Update(c) ==
    /\ pc[c] = "upsync"
    /\ cur[c] = Root
    /\ published' = val[c]
    /\ overtaken' = overtaken \cup Missing(Root, val[c])
    /\ Goto(c, "closed")
    /\ UNCHANGED <<obj, todo, locals, desclock, begun, acked, excused>>

ClosedLocked(c) ==
    /\ pc[c] = "closed"
    /\ acked' = IF cmd(c).op = "write" /\ cmd(c).flush /\ then[c] # "failed"
                  THEN acked \cup {Write(c)} ELSE acked
    /\ Return(c)
    /\ UNCHANGED <<obj, desclock, published, begun, excused, overtaken>>

\* The command returns: fileDescriptor.Close unlocks desclock, FlushPath has
\* waited for WaitPub.
Closed(c) ==
    /\ pc[c] = "closed"
    /\ desclock' = [desclock EXCEPT ![c] = 0]
    /\ acked' = IF cmd(c).op = "write" /\ cmd(c).flush /\ then[c] # "failed"
                  THEN acked \cup {Write(c)} ELSE acked
    /\ Return(c)
    /\ UNCHANGED <<obj, published, begun, excused, overtaken>>

----------------------------------------------------------------------------
(* files write, and File.Flush. *)

\* getFileHandle: AddChild of an empty file, then Child.
Create(c) ==
    /\ pc[c] = "create"
    /\ IF obj[cur[c]].dir /\ ~HasChild(obj, cur[c], Base(cmd(c).path))
         THEN /\ obj' = Link(obj, cur[c], Base(cmd(c).path), FileNode({}))
              /\ rest' = [rest EXCEPT ![c] = <<Base(cmd(c).path)>>]
              /\ then' = [then EXCEPT ![c] = "created"]
              /\ Goto(c, "walk")
              /\ UNCHANGED <<todo, cur, val, dst, desclock, published, history>>
         ELSE Fail(c)                       \* not a directory, ErrDirExists

\* File.Open reads the node before it takes the descriptor lock.
Open(c) ==
    /\ \/ pc[c] \in {"open", "created"}
       \/ pc[c] = "flush" /\ ~obj[cur[c]].dir
    /\ IF obj[cur[c]].dir
         THEN Fail(c)
         ELSE /\ val' = [val EXCEPT ![c] = Node(obj, cur[c])]
              /\ Goto(c, "lock")
              /\ UNCHANGED <<obj, todo, then, cur, rest, dst, desclock, published,
                             history>>

\* desclock.Lock returns.  A descriptor opened on an old node will drop the
\* writes made since.
Lock(c) ==
    /\ pc[c] = "lock"
    /\ \A d \in Client : desclock[d] # cur[c]
    /\ desclock' = [desclock EXCEPT ![c] = cur[c]]
    /\ excused' = excused \cup (obj[cur[c]].data \ val[c].data)
    /\ Goto(c, IF cmd(c).op = "write" THEN "write" ELSE "flushup")
    /\ UNCHANGED <<obj, todo, locals, published, begun, acked, overtaken>>

\* Truncate, Seek and io.Copy into the descriptor, whose DagModifier syncs
\* in Close.
WriteData(c) ==
    /\ pc[c] = "write"
    /\ val' = [val EXCEPT ![c] = FileNode(
                 (IF cmd(c).trunc THEN {} ELSE @.data) \cup {Write(c)})]
    /\ excused' = IF cmd(c).trunc THEN excused \cup val[c].data ELSE excused
    /\ Goto(c, "flushup")
    /\ UNCHANGED <<obj, todo, then, cur, rest, dst, desclock, published, begun,
                   acked, overtaken>>

\* The input or its options fail: Close still flushes a truncation, or what
\* was copied before the failure; without changes it only unlocks.
WriteFails(c) ==
    /\ pc[c] = "write"
    /\ then' = [then EXCEPT ![c] = "failed"]
    /\ IF cmd(c).trunc
         THEN /\ val' = [val EXCEPT ![c] = FileNode({})]
              /\ excused' = excused \cup val[c].data
              /\ Goto(c, "flushup")
         ELSE (Goto(c, "closed") \/ Goto(c, "flushup")) /\ UNCHANGED <<val, excused>>
    /\ UNCHANGED <<obj, todo, cur, rest, dst, desclock, published, begun, acked,
                   overtaken>>

\* flushUp: the node is the inode's, then closeChild.
FlushUp(c) ==
    /\ pc[c] = "flushup"
    /\ Step(c, [obj EXCEPT ![cur[c]].data = val[c].data],
            IF cmd(c).op = "write" /\ ~cmd(c).flush THEN "up" ELSE "upsync")

\* Directory.Flush, from FlushPath, rm, mkdir and chcid.
FlushDir(c) ==
    /\ pc[c] = "flush"
    /\ obj[cur[c]].dir
    /\ obj' = GetNode(obj, cur[c])
    /\ val' = [val EXCEPT ![c] = Node(obj, cur[c])]
    /\ Goto(c, "upsync")
    /\ UNCHANGED <<todo, then, cur, rest, dst, desclock, published, history>>

----------------------------------------------------------------------------
(* files mkdir *)

\* Mkdir of a missing parent; it may exist by now.
MkParent(c) ==
    /\ pc[c] = "mkparent"
    /\ IF HasChild(obj, cur[c], Head(rest[c]))
         THEN Done(c, Child(obj, cur[c], Head(rest[c])))
         ELSE /\ obj' = MkdirAt(obj, cur[c], Head(rest[c]))
              /\ cur' = [cur EXCEPT ![c] = obj'[@].cache[Head(rest[c])]]
              /\ rest' = [rest EXCEPT ![c] = Tail(@)]
              /\ Goto(c, IF Len(rest[c]) = 1 THEN then[c] ELSE "walk")
              /\ UNCHANGED <<todo, then, val, dst, desclock, published, history>>

\* Mkdir of the last name, and Flush of the directory made or, with parents,
\* found.
Mkdir(c) ==
    LET n == Base(cmd(c).path)
        found == HasChild(obj, cur[c], n)
        h == IF found THEN Child(obj, cur[c], n) ELSE MkdirAt(obj, cur[c], n)
        final == h[cur[c]].cache[n]
    IN  /\ pc[c] = "mkdir"
        /\ IF ~obj[cur[c]].dir
             THEN Fail(c)
           ELSE IF (found => cmd(c).parents /\ h[final].dir) /\ cmd(c).flush
             THEN /\ obj' = h
                  /\ cur' = [cur EXCEPT ![c] = final]
                  /\ Goto(c, "flush")
                  /\ UNCHANGED <<todo, then, rest, val, dst, desclock, published,
                                 history>>
             ELSE Done(c, h)

----------------------------------------------------------------------------
(* files cp *)

CpGet(c) ==
    /\ pc[c] = "cpget"
    /\ obj' = GetNode(obj, cur[c])
    /\ val' = [val EXCEPT ![c] = Node(obj, cur[c])]
    /\ Lookup(c, Parent(Target(c)), "cpput")
    /\ UNCHANGED <<todo, dst, desclock, published, history>>

\* PutNode, then FlushPath on the copy.
CpPut(c) ==
    LET n == Base(Target(c)) IN
    /\ pc[c] = "cpput"
    /\ IF ~obj[cur[c]].dir
         THEN Fail(c)
       ELSE IF HasChild(obj, cur[c], n)
         THEN Done(c, Child(obj, cur[c], n))
       ELSE IF cmd(c).flush
         THEN /\ obj' = Link(obj, cur[c], n, val[c])
              /\ Lookup(c, Target(c), "flush")
              /\ UNCHANGED <<todo, val, dst, desclock, published, history>>
         ELSE Done(c, Link(obj, cur[c], n, val[c]))

----------------------------------------------------------------------------
(* files mv: mfs.Mv *)

\* lookupDir of the target, then of the source; then Child of the source.
MvDst(c) ==
    /\ pc[c] = "mvdst"
    /\ IF obj[cur[c]].dir
         THEN /\ dst' = [dst EXCEPT ![c] = cur[c]]
              /\ Lookup(c, Parent(cmd(c).path), "mvsrc")
              /\ UNCHANGED <<obj, todo, val, desclock, published, history>>
         ELSE Fail(c)

MvSrc(c) ==
    /\ pc[c] = "mvsrc"
    /\ IF obj[cur[c]].dir
         THEN /\ rest' = [rest EXCEPT ![c] = <<Base(cmd(c).path)>>]
              /\ then' = [then EXCEPT ![c] = "mvget"]
              /\ Goto(c, "walk")
              /\ UNCHANGED <<obj, todo, cur, val, dst, desclock, published, history>>
         ELSE Fail(c)

MvGet(c) ==
    /\ pc[c] = "mvget"
    /\ obj' = GetNode(obj, cur[c])
    /\ val' = [val EXCEPT ![c] = Node(obj, cur[c])]
    /\ Goto(c, "mvcheck")
    /\ UNCHANGED <<todo, then, cur, rest, dst, desclock, published, history>>

\* dstDir.Child(filename): a file is unlinked, a directory is moved into.
MvCheck(c) ==
    LET n == Base(Target(c))
        h == Child(obj, dst[c], n)
        o == h[dst[c]].cache[n]
    IN  /\ pc[c] = "mvcheck"
        /\ IF ~HasChild(obj, dst[c], n)
             THEN Step(c, obj, "mvadd")
           ELSE IF ~h[o].dir
             THEN Step(c, h, "mvunlink")
             ELSE /\ obj' = h
                  /\ dst' = [dst EXCEPT ![c] = o]
                  /\ Goto(c, "mvadd")
                  /\ UNCHANGED <<todo, then, cur, rest, val, desclock, published,
                                 history>>

MvUnlink(c) ==
    /\ pc[c] = "mvunlink"
    /\ obj' = Unlink(obj, dst[c], Base(Target(c)))
    /\ excused' = excused \cup Under(Target(c))
    /\ Goto(c, "mvadd")
    /\ UNCHANGED <<todo, locals, desclock, published, begun, acked, overtaken>>

MvAdd(c) ==
    LET n == Base(Target(c)) IN
    /\ pc[c] = "mvadd"
    /\ IF HasChild(obj, dst[c], n)
         THEN Done(c, Child(obj, dst[c], n))
         ELSE Step(c, Link(obj, dst[c], n, val[c]), "mvrm")

MvRm(c) ==
    /\ pc[c] = "mvrm"
    /\ obj' = Unlink(obj, obj[cur[c]].up, Base(cmd(c).path))
    /\ excused' = excused \cup Under(cmd(c).path)
    /\ Return(c)
    /\ UNCHANGED <<desclock, published, begun, acked, overtaken>>

----------------------------------------------------------------------------
(* files rm *)

\* Without -r, Child tells the type in a call before the Unlink.
RmCheck(c) ==
    LET n == Base(cmd(c).path)
        h == Child(obj, cur[c], n)
    IN  /\ pc[c] = "rm"
        /\ IF ~obj[cur[c]].dir
             THEN Fail(c)
           ELSE IF cmd(c).r
             THEN Step(c, obj, "rmunlink")
           ELSE IF ~HasChild(obj, cur[c], n)
             THEN Fail(c)
           ELSE IF h[h[cur[c]].cache[n]].dir
             THEN Done(c, h)
             ELSE Step(c, h, "rmunlink")

\* Unlink; on success the deferred pdir.Flush.
RmUnlink(c) ==
    LET n == Base(cmd(c).path) IN
    /\ pc[c] = "rmunlink"
    /\ obj' = Unlink(obj, cur[c], n)
    /\ excused' = excused \cup Under(cmd(c).path)
    /\ IF n \in DOMAIN obj[cur[c]].links
         THEN Goto(c, "flush") /\ UNCHANGED <<todo, locals>>
         ELSE Return(c)
    /\ UNCHANGED <<desclock, published, begun, acked, overtaken>>

----------------------------------------------------------------------------
(* The other commands. *)

Chcid(c) ==
    /\ pc[c] = "chcid"
    /\ IF obj[cur[c]].dir /\ cmd(c).flush
         THEN Step(c, obj, "flush")
         ELSE Fail(c)

\* files ls -l: List caches every entry of a directory.
Ls(c) ==
    /\ pc[c] = "ls"
    /\ Done(c, CacheAll(obj, cur[c], DOMAIN obj[cur[c]].links))

\* getNodeFromPath.
Stat(c) ==
    /\ pc[c] = "stat"
    /\ Done(c, GetNode(obj, cur[c]))

\* Open for reading waits for a writer; Run closes the descriptor again.
Read(c) ==
    /\ pc[c] = "read"
    /\ obj[cur[c]].dir \/ \A d \in Client : desclock[d] # cur[c]
    /\ Fail(c)

Command(c) ==
    \/ Run(c) \/ Walk(c) \/ WalkFails(c)
    \/ CloseChild(c) \/ Update(c) \/ Closed(c)
    \/ Create(c) \/ Open(c) \/ Lock(c) \/ WriteData(c) \/ WriteFails(c)
    \/ FlushUp(c) \/ FlushDir(c)
    \/ MkParent(c) \/ Mkdir(c)
    \/ CpGet(c) \/ CpPut(c)
    \/ MvDst(c) \/ MvSrc(c) \/ MvGet(c) \/ MvCheck(c) \/ MvUnlink(c)
    \/ MvAdd(c) \/ MvRm(c)
    \/ RmCheck(c) \/ RmUnlink(c)
    \/ Chcid(c) \/ Ls(c) \/ Stat(c) \/ Read(c)

Next == \E c \in Client : Command(c)

Spec == Init /\ [][Next]_vars

\* A command is a goroutine that runs whenever no lock it waits for is held;
\* its input ends.
FairSpec == Spec /\ \A c \in Client : WF_vars(Command(c))

----------------------------------------------------------------------------
(* Properties *)

Heap == 1 .. Len(obj)

\* Types of the tree of cached directories and files and of the commands on it.
TypeOK ==
    /\ \A o \in Heap : /\ obj[o].dir \in BOOLEAN
                       /\ obj[o].up \in 0 .. Len(obj)
                       /\ ~obj[o].dir => obj[o].links = Empty /\ obj[o].cache = Empty
                       /\ \A n \in DOMAIN obj[o].cache : obj[o].cache[n] \in Heap
    /\ cur \in [Client -> Heap] /\ dst \in [Client -> Heap]
    /\ desclock \in [Client -> 0 .. Len(obj)]
    /\ acked \cup excused \cup overtaken \subseteq begun

\* A cached object is the child its parent links by that name, and no object
\* is cached twice: whoever looks a path up shares one object and its lock
\* with everyone else, and a listing and a lookup agree (childUnsync,
\* cacheNode, Unlink, closeChild).
CacheIsTree ==
    \A o \in Heap : \A n \in DOMAIN obj[o].cache :
        LET p == obj[o].cache[n] IN
        /\ obj[p].up = o /\ obj[p].name = n
        /\ n \in DOMAIN obj[o].links

\* A write that returned success can be read at its path, whatever commands
\* ran beside it, until its path is removed or moved, the file truncated, or
\* it is overwritten through a descriptor that was opened on the older node
\* (getFileHandle, flushUp, closeChild, sync).
WriteKept ==
    \A w \in acked \ excused : w \in Resolve(Node(obj, Root), w[3]).data

\* When no command runs, the root the republisher was given contains every
\* flushed write that is still in the tree, unless an older node of a
\* directory on the way was handed up after it (closeChild, which gives up a
\* directory's lock before it takes the parent's).
PublishedWhole ==
    (\A c \in Client : pc[c] = "idle") =>
        \A w \in acked \ (excused \cup overtaken) :
            w \in Resolve(published, w[3]).data

\* "Flush target and ancestors after write": without the exception.
PublishedAll ==
    (\A c \in Client : pc[c] = "idle") =>
        \A w \in acked \ excused : w \in Resolve(published, w[3]).data

\* Every command returns: a descriptor lock is always given back, so no
\* command waits for one for ever (Open, Close).
CommandEnds == \A c \in Client : []<>(pc[c] = "idle")
============================================================================
