------------------------------ MODULE Blocks --------------------------------
(***************************************************************************)
(* The block service (blockservice/blockservice.go) between the blockstore *)
(* and the exchange, and the block commands and the core API's blocks on   *)
(* top of it (core/commands/block.go, core/coreapi/block.go): puts, gets   *)
(* and removals that run side by side, an exchange that is closed, and a   *)
(* process that dies.                                                      *)
(***************************************************************************)
EXTENDS Naturals, Sequences, FiniteSets, SequencesExt

CONSTANTS Unsafe,       \* keys whose hash ValidateCid refuses
          Remote,       \* keys some peer has
          Pinned,       \* keys that are pinned
          BPutter,      \* processes that add blocks
          PutLists,     \* what each of them may add
          PutOpts,      \* options of a put: via, format, mhtype
          GetLists,     \* what is asked for
          RmLists,      \* what is removed
          MaxDeaths     \* times the process dies

VARIABLES bstore,       \* the blockstore
          exchange,     \* "open" or "closed"
          checkFirst,   \* New or NewWriteThrough
          putter, getter, remover,
          announced,    \* history: keys in the store the exchange was told of
          unsaid,       \* history: keys whose announcement failed or was cut off
          deaths

bkvars == <<bstore, exchange, checkFirst, putter, getter, remover, announced, unsaid, deaths>>

Elems(s) == {s[i] : i \in DOMAIN s}

-----------------------------------------------------------------------------
(* The CID of a put                                                        *)

\* The format the command falls back to.
Format(o) == IF o.format # "unset" THEN o.format
             ELSE IF o.via = "api" \/ o.mhtype = "sha2-256" THEN "v0" ELSE "protobuf"

\* The command refuses a CIDv0 of another hash, the API makes a CIDv1 of it.
Refused(o) == o.via = "cmd" /\ Format(o) = "v0" /\ o.mhtype # "sha2-256"
VersionByFormat(o) == IF Format(o) = "v0" THEN 0 ELSE 1
Version(o) == IF Format(o) = "v0" /\ (o.via = "cmd" \/ o.mhtype = "sha2-256") THEN 0 ELSE 1

-----------------------------------------------------------------------------
(* The exchange                                                            *)

\* Bitswap's receiveBlockFrom, which HasBlock is: the block is stored (again),
\* and whoever waits for it gets it.
ReceivedUnnotified(g, k) == g
Received(g, k) ==
    IF g.pc = "wait" /\ k \in g.wanted
    THEN [g EXCEPT !.wanted = @ \ {k}, !.got = Append(@, k)] ELSE g

-----------------------------------------------------------------------------
(* AddBlock, AddBlocks                                                     *)

IdlePutter == [pc |-> "idle", list |-> <<>>, i |-> 1, toput |-> <<>>, gone |-> {}, cid |-> <<>>]
Finished(q) == [q EXCEPT !.pc = "ok", !.i = 1, !.toput = <<>>, !.cid = <<>>]
Failed == [IdlePutter EXCEPT !.pc = "failed"]

\* A put of the commands or the API (one block), or of AddBlocks; a hash that is
\* not safe refuses the whole call before anything is stored.
PutStart(p) ==
    /\ putter[p].pc = "idle"
    /\ \E list \in PutLists[p], o \in PutOpts :
          putter' = [putter EXCEPT ![p] =
                       IF Elems(list) \cap Unsafe # {} \/ Refused(o) THEN Failed
                       ELSE [@ EXCEPT !.pc = "check", !.list = list, !.cid = <<Version(o), o.mhtype>>]]
    /\ UNCHANGED <<bstore, exchange, checkFirst, getter, remover, announced, unsaid, deaths>>

\* checkFirst: the blocks the store has are left out, one Has at a time.
Missing(k) == ~checkFirst \/ k \notin bstore
NextCheck(me, toput) ==
    IF me.i < Len(me.list) THEN [me EXCEPT !.i = @ + 1, !.toput = toput, !.cid = <<>>]
    ELSE IF toput = <<>> THEN Finished(me)
    ELSE [me EXCEPT !.i = 1, !.toput = toput, !.cid = <<>>, !.pc = "put"]
CheckedReturning(me, toput) == IF toput = me.toput THEN Finished(me) ELSE NextCheck(me, toput)
Checked(me, toput) == NextCheck(me, toput)
PutCheck(p) ==
    LET me == putter[p]
        k  == me.list[me.i]
    IN  /\ me.pc = "check"
        /\ putter' = [putter EXCEPT ![p] =
                        Checked(me, IF Missing(k) THEN Append(me.toput, k) ELSE me.toput)]
        /\ UNCHANGED <<bstore, exchange, checkFirst, getter, remover, announced, unsaid, deaths>>

\* Put, PutMany: the batch is committed at once.
PutStore(p) ==
    /\ putter[p].pc = "put"
    /\ bstore' = bstore \cup Elems(putter[p].toput)
    /\ putter' = [putter EXCEPT ![p].pc = "announce"]
    /\ UNCHANGED <<exchange, checkFirst, getter, remover, announced, unsaid, deaths>>

\* HasBlock of one block after the other; an exchange that is closed ends the call
\* with the blocks stored.
ToAnnounceOnce(toput) == 1
ToAnnounce(toput) == Len(toput)
PutAnnounce(p) ==
    LET me == putter[p]
        k  == me.toput[me.i]
    IN  /\ me.pc = "announce"
        /\ IF exchange = "closed"
           THEN /\ putter' = [putter EXCEPT ![p] = Failed]
                /\ unsaid' = unsaid \cup {me.toput[j] : j \in me.i..Len(me.toput)}
                /\ UNCHANGED <<bstore, getter, announced>>
           ELSE /\ bstore' = bstore \cup {k}
                /\ announced' = announced \cup {k}
                /\ getter' = Received(getter, k)
                /\ putter' = [putter EXCEPT ![p] =
                                IF me.i < ToAnnounce(me.toput) THEN [me EXCEPT !.i = @ + 1]
                                ELSE Finished(me)]
                /\ UNCHANGED unsaid
        /\ UNCHANGED <<exchange, checkFirst, remover, deaths>>

PutStep(p) == PutCheck(p) \/ PutStore(p) \/ PutAnnounce(p)

-----------------------------------------------------------------------------
(* GetBlock, GetBlocks                                                     *)

IdleGetter == [pc |-> "idle", ks |-> <<>>, i |-> 1, misses |-> <<>>, wanted |-> {}, got |-> <<>>]
Stopped == [IdleGetter EXCEPT !.pc = "stopped"]

\* Keys with an unsafe hash are left out of GetBlocks.
SafeOfAll(ks) == ks
SafeOf(ks) == SelectSeq(ks, LAMBDA k : k \notin Unsafe)
GetStart ==
    /\ getter.pc = "idle"
    /\ \E ks \in GetLists :
          getter' = [getter EXCEPT !.ks = SafeOf(ks), !.pc = IF SafeOf(ks) = <<>> THEN "closed" ELSE "local"]
    /\ UNCHANGED <<bstore, exchange, checkFirst, putter, remover, announced, unsaid, deaths>>

\* `block get` and `block stat` ask for one block with GetBlock, to which an
\* unsafe hash is an error.
GetOne ==
    /\ getter.pc = "idle"
    /\ \E k \in UNION {Elems(ks) : ks \in GetLists} :
          getter' = IF k \in Unsafe THEN Stopped
                    ELSE [getter EXCEPT !.ks = <<k>>, !.pc = "local"]
    /\ UNCHANGED <<bstore, exchange, checkFirst, putter, remover, announced, unsaid, deaths>>

\* One key is looked up in the store; a hit is sent to the caller.
AfterLocal(g) == IF g.i <= Len(g.ks) THEN "local" ELSE IF g.misses = <<>> THEN "closed" ELSE "ask"
GetLocal ==
    LET k   == getter.ks[getter.i]
        hit == [getter EXCEPT !.i = @ + 1, !.got = Append(@, k)]
        mis == [getter EXCEPT !.i = @ + 1, !.misses = Append(@, k)]
        g   == IF k \in bstore THEN hit ELSE mis
    IN  /\ getter.pc = "local"
        /\ getter' = [g EXCEPT !.pc = AfterLocal(g)]
        /\ UNCHANGED <<bstore, exchange, checkFirst, putter, remover, announced, unsaid, deaths>>

\* The exchange is asked for the misses.
GetAsk ==
    /\ getter.pc = "ask"
    /\ getter' = IF exchange = "closed" THEN Stopped
                 ELSE [getter EXCEPT !.pc = "wait", !.wanted = Elems(getter.misses)]
    /\ UNCHANGED <<bstore, exchange, checkFirst, putter, remover, announced, unsaid, deaths>>

\* A peer sends a block that is wanted; it is stored and announced.
PeerSends(k) ==
    /\ exchange = "open" /\ getter.pc = "wait" /\ k \in getter.wanted \cap Remote
    /\ getter' = Received(getter, k)
    /\ bstore' = bstore \cup {k}
    /\ announced' = announced \cup {k}
    /\ UNCHANGED <<exchange, checkFirst, putter, remover, unsaid, deaths>>

\* The last wanted block has come.
GetClosed ==
    /\ getter.pc = "wait" /\ getter.wanted = {}
    /\ getter' = [getter EXCEPT !.pc = "closed"]
    /\ UNCHANGED <<bstore, exchange, checkFirst, putter, remover, announced, unsaid, deaths>>

\* The caller's context is done, or the exchange closes its channel.
GetStops ==
    /\ getter.pc \in {"local", "ask", "wait"}
    /\ getter' = Stopped
    /\ UNCHANGED <<bstore, exchange, checkFirst, putter, remover, announced, unsaid, deaths>>

-----------------------------------------------------------------------------
(* block rm                                                                *)

IdleRemover == [pc |-> "idle", list |-> <<>>, force |-> FALSE, todo |-> <<>>, errors |-> {},
                found |-> 0]

\* RmBlocks under the GCLock: FilterPinned reports the pinned keys.
RmStart ==
    /\ remover.pc = "idle"
    /\ \E list \in RmLists, force \in BOOLEAN :
          remover' = [remover EXCEPT !.pc = "delete", !.list = list, !.force = force,
                        !.todo = SelectSeq(list, LAMBDA k : k \notin Pinned),
                        !.errors = Elems(list) \cap Pinned]
    /\ UNCHANGED <<bstore, exchange, checkFirst, putter, getter, announced, unsaid, deaths>>

\* A block that is not there is an error, unless force is given.
RmErrorNever(k) == {}
RmError(k) == IF k \notin bstore /\ ~remover.force THEN {k} ELSE {}
RmDelete ==
    /\ remover.pc = "delete" /\ remover.todo # <<>>
    /\ LET k == Head(remover.todo)
       IN  /\ bstore' = bstore \ {k}
           /\ announced' = announced \ {k}
           /\ unsaid' = unsaid \ {k}
           /\ putter' = [p \in BPutter |-> [putter[p] EXCEPT !.gone = @ \cup ({k} \cap Elems(putter[p].list))]]
           /\ remover' = [remover EXCEPT !.todo = Tail(@), !.errors = @ \cup RmError(k),
                            !.found = IF k \in bstore THEN @ + 1 ELSE @]
    /\ UNCHANGED <<exchange, checkFirst, getter, deaths>>

\* The results are read to the end: ProcRmOutput, or the API with its one key.
RmEnds ==
    /\ remover.pc = "delete" /\ remover.todo = <<>>
    /\ remover' = [remover EXCEPT !.pc = IF remover.errors = {} THEN "ok" ELSE "failed"]
    /\ UNCHANGED <<bstore, exchange, checkFirst, putter, getter, announced, unsaid, deaths>>

-----------------------------------------------------------------------------
\* The block service is closed with the node: its exchange is.
CloseExchange ==
    /\ exchange = "open"
    /\ exchange' = "closed"
    /\ UNCHANGED <<bstore, checkFirst, putter, getter, remover, announced, unsaid, deaths>>

\* The process dies and starts again: only the store is left.
Unannounced(p) == {putter[p].toput[j] : j \in putter[p].i..Len(putter[p].toput)}
Die ==
    /\ deaths < MaxDeaths
    /\ deaths' = deaths + 1
    /\ unsaid' = unsaid \cup UNION {Unannounced(p) : p \in {q \in BPutter : putter[q].pc = "announce"}}
    /\ putter' = [p \in BPutter |-> IdlePutter]
    /\ getter' = IdleGetter
    /\ remover' = IdleRemover
    /\ exchange' = "open"
    /\ UNCHANGED <<bstore, checkFirst, announced>>

BkInit ==
    /\ bstore = {} /\ exchange = "open" /\ checkFirst \in BOOLEAN
    /\ putter = [p \in BPutter |-> IdlePutter]
    /\ getter = IdleGetter /\ remover = IdleRemover
    /\ announced = {} /\ unsaid = {} /\ deaths = 0

Got == GetLocal \/ GetAsk \/ GetClosed \/ \E k \in Remote : PeerSends(k)
Rmd == RmDelete \/ RmEnds
BkNext ==
    \/ \E p \in BPutter : PutStart(p) \/ PutStep(p)
    \/ GetStart \/ GetOne \/ GetStops \/ Got
    \/ RmStart \/ Rmd
    \/ CloseExchange \/ Die
BkSpec == BkInit /\ [][BkNext]_bkvars

\* Calls go on, and a peer that has a wanted block sends it.
BkFairSpec == /\ BkSpec /\ WF_bkvars(Got) /\ WF_bkvars(Rmd)
              /\ \A p \in BPutter : WF_bkvars(PutStep(p))

-----------------------------------------------------------------------------
(* Properties                                                              *)

\* Every block in the store has been announced to the exchange or is about to be,
\* whatever puts, removals and arrivals cross: checkFirst never leaves out a
\* block no one announces.  The exceptions are those whose announcement met a
\* closed exchange or was cut off by the death of the process.
StoredAnnounced ==
    \A k \in bstore : \/ k \in announced \cup unsaid
                      \/ \E p \in BPutter : putter[p].pc = "announce" /\ k \in Unannounced(p)

\* A put that ended well left its blocks in the store, except those that were
\* removed while it ran or later.
AddKept ==
    \A p \in BPutter : putter[p].pc = "ok" => Elems(putter[p].list) \subseteq bstore \cup putter[p].gone

Times(s, k) == Cardinality({i \in DOMAIN s : s[i] = k})

\* GetBlocks gives only keys that were asked for and are safe, none more often
\* than it was asked for; and a channel that closes without the caller or the
\* exchange having stopped it has given every one of them.
GotExact ==
    /\ \A k \in Elems(getter.got) : k \notin Unsafe /\ Times(getter.got, k) <= Times(getter.ks, k)
    /\ getter.pc = "closed" => Elems(getter.got) = Elems(getter.ks)

\* block rm that reports no error left no key out because it is pinned, and
\* without -f it found each of the keys it was given in the store.
RmReported ==
    remover.pc = "ok" => /\ Elems(remover.list) \cap Pinned = {}
                         /\ ~remover.force => remover.found = Len(remover.list)

\* A CIDv0 is made only of a SHA-256 hash, by the command and by the API.
VersionSound ==
    \A p \in BPutter : (putter[p].cid # <<>> /\ putter[p].cid[1] = 0) => putter[p].cid[2] = "sha2-256"

\* A caller that asks only for what some peer has gets its channel closed.
GetEnds ==
    []((getter.pc = "wait" /\ getter.wanted \subseteq Remote /\ exchange = "open")
        ~> (getter.pc # "wait" \/ exchange = "closed"))

-----------------------------------------------------------------------------
(***************************************************************************)
(* The filestore (filestore/): blocks that are references into files or    *)
(* URLs (FileManager, fsrefstore.go) beside the blocks of the main store   *)
(* (filestore.go), the listing and verifying of references (util.go), and  *)
(* the commands 'filestore ls', 'verify', 'dups' and 'urlstore add'.       *)
(*                                                                         *)
(* A block is named by its content, which is what its hash stands for.  A  *)
(* file is a sequence of such contents; its owner may change or remove it. *)
(***************************************************************************)

CONSTANTS Chunk,            \* contents of blocks
          File, Url,        \* paths of files and of URLs
          FirstFiles,       \* their contents at first: sequences of chunks, <<>> for none
          NewContents,      \* contents a file may be given later
          Configs,          \* what may be enabled: sets of "files", "urls"
          Putter, PutOps,   \* PutOps[p]: the blocks p may put, with the place they were read
          MaxFileEdits, MaxDeletes

Path == File \cup Url
NoRef == [path |-> "none", at |-> 0]

VARIABLES allow,            \* what is enabled
          main, refs,       \* the blocks of the main store; the references
          files,            \* what is at each path now
          put,              \* per putter: "idle", or "has" or "absent" and the operation
          lister,           \* a listing: phase, what it lists, what it must list
          readable,         \* history: blocks put, that nothing was done to since
          poisoned,         \* history: blocks a put found to be there that cannot be read
          edits, deletes

fvars == <<allow, main, refs, files, put, lister, readable, poisoned, edits, deletes>>

-----------------------------------------------------------------------------
(* FileManager                                                             *)

Enabled(p) == IF p \in Url THEN "urls" \in allow ELSE "files" \in allow
\* readFileDataObj, readURLDataObj.
StatusUnchecked(c, r) ==
    IF ~Enabled(r.path) THEN "ERROR" ELSE IF files[r.path] = <<>> THEN "no-file"
    ELSE IF r.at > Len(files[r.path]) THEN "changed" ELSE "ok"
StatusOf(c, r) ==
    IF ~Enabled(r.path) THEN "ERROR"
    ELSE IF files[r.path] = <<>> THEN IF r.path \in Url THEN "error" ELSE "no-file"
    ELSE IF r.at > Len(files[r.path]) \/ files[r.path][r.at] # c THEN "changed" ELSE "ok"
HasRef(c) == refs[c] # NoRef
\* Verify (list with verify): the status of a reference.
Verify(c) == IF HasRef(c) THEN StatusOf(c, refs[c]) ELSE "missing"
\* What a Get returns: the bytes found, or nothing.
GetRef(c) == IF Verify(c) = "ok" THEN <<files[refs[c].path][refs[c].at]>> ELSE <<>>

\* Filestore: the main store first.
Get(c) == IF c \in main THEN <<c>> ELSE GetRef(c)
Has(c) == c \in main \/ HasRef(c)

-----------------------------------------------------------------------------
(* Put: Has, then the store of the block's kind                            *)

Idle == [at |-> "idle"]
PutHas(p, op) ==
    /\ put[p].at = "idle" /\ op \in PutOps[p]
    /\ put' = [put EXCEPT ![p] = [at |-> IF Has(op.chunk) THEN "has" ELSE "absent", op |-> op]]
    /\ UNCHANGED <<allow, main, refs, files, lister, readable, poisoned, edits, deletes>>
\* Found: nothing is stored, although the reference may be to what has changed.
PutFound(p) ==
    /\ put[p].at = "has"
    /\ put' = [put EXCEPT ![p] = Idle]
    /\ poisoned' = poisoned \cup ({put[p].op.chunk} \ readable)
    /\ UNCHANGED <<allow, main, refs, files, lister, readable, edits, deletes>>
\* A FilestoreNode to the FileManager, any other block to the main store.
Holds(f, at, c) == at \in DOMAIN files[f] /\ files[f][at] = c
RefPutFirst(op) == [refs EXCEPT ![op.chunk] = [path |-> op.path, at |-> 1]]
RefPut(op) == [refs EXCEPT ![op.chunk] = [path |-> op.path, at |-> op.at]]
PutPlain(p) ==
    LET c == put[p].op.chunk
    IN /\ put[p].at = "absent" /\ put[p].op.path = "none"
       /\ main' = main \cup {c} /\ readable' = readable \cup {c} /\ poisoned' = poisoned \ {c}
       /\ put' = [put EXCEPT ![p] = Idle]
       /\ UNCHANGED <<allow, refs, files, lister, edits, deletes>>
PutRef(p) ==
    LET op == put[p].op
    IN /\ put[p].at = "absent" /\ op.path # "none" /\ Enabled(op.path)
       /\ refs' = RefPut(op) /\ put' = [put EXCEPT ![p] = Idle]
       /\ readable' = IF Holds(op.path, op.at, op.chunk) THEN readable \cup {op.chunk}
                      ELSE readable \ ({op.chunk} \ main)
       /\ UNCHANGED <<allow, main, files, lister, poisoned, edits, deletes>>
PutRefused(p) ==
    /\ put[p].at = "absent" /\ put[p].op.path # "none" /\ ~Enabled(put[p].op.path)
    /\ put' = [put EXCEPT ![p] = Idle]
    /\ UNCHANGED <<allow, main, refs, files, lister, readable, poisoned, edits, deletes>>

\* DeleteBlock: from both; the file is not touched.
Deleted(c) == main' = main \ {c} /\ refs' = [refs EXCEPT ![c] = NoRef]
DeleteBlock(c) ==
    /\ deletes < MaxDeletes /\ deletes' = deletes + 1 /\ Has(c) /\ Deleted(c)
    /\ readable' = readable \ {c} /\ poisoned' = poisoned \ {c}
    /\ lister' = [lister EXCEPT !.must = @ \ {c}]
    /\ UNCHANGED <<allow, files, put, edits>>

\* The owner of a file changes it.
EditFile(f, content) ==
    /\ edits < MaxFileEdits /\ edits' = edits + 1 /\ files[f] # content
    /\ files' = [files EXCEPT ![f] = content]
    /\ readable' = {c \in readable : c \in main \/ refs[c].path # f
                                    \/ (refs[c].at \in DOMAIN content /\ content[refs[c].at] = c)}
    /\ UNCHANGED <<allow, main, refs, put, lister, poisoned, deletes>>

-----------------------------------------------------------------------------
(* AllKeysChan: all of the main store, then all references.  'dups' lists the   *)
(* references and asks for each whether the main store has the block; 'verify'  *)
(* reads what each refers to.                                              *)

NoListing == [at |-> "off", mode |-> "all", listed |-> {}, todo |-> {}, must |-> {}, edits |-> 0]
Stored == {c \in Chunk : Has(c)}
ListStart ==
    /\ lister.at = "off"
    /\ \E mode \in {"all", "dups", "verify"} :
         lister' = [at |-> IF mode = "all" THEN "main" ELSE "refs", mode |-> mode, listed |-> {}, edits |-> edits,
                    todo |-> IF mode = "all" THEN main ELSE {c \in Chunk : HasRef(c)},
                    must |-> CASE mode = "all" -> Stored [] mode = "dups" -> {c \in main : HasRef(c)}
                               [] mode = "verify" -> {c \in Chunk : HasRef(c) /\ Holds(refs[c].path, refs[c].at, c)
                                                                    /\ Enabled(refs[c].path)}]
    /\ UNCHANGED <<allow, main, refs, files, put, readable, poisoned, edits, deletes>>
\* 'verify' prints every reference with its status: here those that are "ok".
Lists(mode, c) == CASE mode = "all" -> TRUE [] mode = "dups" -> c \in main [] mode = "verify" -> Verify(c) = "ok"
ListKey(c) ==
    /\ c \in lister.todo
    /\ lister' = [lister EXCEPT !.todo = @ \ {c},
                                !.listed = IF Lists(lister.mode, c) THEN @ \cup {c} ELSE @]
    /\ UNCHANGED <<allow, main, refs, files, put, readable, poisoned, edits, deletes>>
ToRefsNot == lister' = [lister EXCEPT !.at = "over"]
ToRefs == lister' = [lister EXCEPT !.at = "refs", !.todo = {c \in Chunk : HasRef(c)}]
ListRefs ==
    /\ lister.at = "main" /\ lister.todo = {} /\ ToRefs
    /\ UNCHANGED <<allow, main, refs, files, put, readable, poisoned, edits, deletes>>
ListEnds ==
    /\ lister.at = "refs" /\ lister.todo = {} /\ lister' = [lister EXCEPT !.at = "over"]
    /\ UNCHANGED <<allow, main, refs, files, put, readable, poisoned, edits, deletes>>

FsInit ==
    /\ allow \in Configs /\ main = {} /\ refs = [c \in Chunk |-> NoRef] /\ files = FirstFiles
    /\ put = [p \in Putter |-> Idle] /\ lister = NoListing
    /\ readable = {} /\ poisoned = {} /\ edits = 0 /\ deletes = 0
FsNext ==
    \/ \E p \in Putter : \/ PutFound(p) \/ PutPlain(p) \/ PutRef(p) \/ PutRefused(p)
                         \/ \E op \in PutOps[p] : PutHas(p, op)
    \/ \E c \in Chunk : DeleteBlock(c) \/ ListKey(c)
    \/ \E f \in Path, content \in NewContents : EditFile(f, content)
    \/ ListStart \/ ListRefs \/ ListEnds
FsSpec == FsInit /\ [][FsNext]_fvars

-----------------------------------------------------------------------------
\* A block that was put can be read until it is deleted
\* or its file is changed.
PutReadable == \A c \in readable : Get(c) = <<c>>

\* Whatever happens to the files, a Get returns the content the block was named
\* for, or an error.
GetSound == \A c \in Chunk : Get(c) \in {<<>>, <<c>>}

\* Every successful Put leaves the block readable, as "Put stores a block in the
\* Filestore": not when a reference that has gone bad was found in its place.
PutStored == poisoned = {}

\* AllKeysChan lists every block that was there when it was asked and was not
\* deleted since; 'dups' those that were in both stores; 'verify' finds those good
\* whose files hold their content, when no file was changed meanwhile.
ListComplete ==
    (lister.at = "over" /\ (lister.mode = "verify" => lister.edits = edits)) => lister.must \subseteq lister.listed
=============================================================================
