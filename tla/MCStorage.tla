----------------------------- MODULE MCStorage ------------------------------
(***************************************************************************)
(* The instances of the parts that keep what the user stored: adding files *)
(* against a collection (Adder), the pin commands (PinCommands), the       *)
(* mutable file system (Mfs), names and keys (Names), the repository and   *)
(* its configuration (Repo), the daemon that opens and closes it (Daemon), *)
(* and the push command and the blacklist (PushBlacklist).                 *)
(*                                                                         *)
(* The parts do not share state.  Each behaviour runs one of them, chosen  *)
(* at its start, and the variables of the others are out of use.           *)
(***************************************************************************)
EXTENDS Naturals, Sequences, FiniteSets, TLC

CONSTANTS Units, f1, f2, f3, NoRoot, NoClient, NoKey, NoRec, NoValue, Nobody

VARIABLES unit,
          mode, apc, arg, idx, added, root, fresh, paused, outN, client,
          store, dirs, pins, gpc, todo, pend, delFailed, gcs, gcN, gcReader,
          cancelled, gap, readers, rwait, writer, gcreq,
          pblocks, prec, pdirect, padd, pclient, pgc, swept, orphan,
          obj, mTodo, pc, then, cur, rest, val, dst, desclock, published,
          begun, acked, excused, overtaken,
          ks, ds, net, mu, cache, npc, todoN, key, value, rec, names, listed,
          made, latest, lost, blind, reverted, staleCache, refreshed, faulted,
          file, spec, version, lockBy, api, refs, mem, rpc, what, at, saved,
          conf, why, overlap, broken,
          opts, main, sigs, shutReq, nd, lMade, owned, lTodo, shut, srv,
          repub, gc, reprov, apiFile, hard, early, late, failedAt,
          pWhat, popts, daemon, pinned, userPins, push, backedUp, counts,
          recFile, recorder, flock, clearing, ncrashes, nuser, mixed, pExcused,
          now, madeAt, lastHandleTime, pSaved, refresh, has, pin, nadds,
          handled, kept, behind

\* Two files in a directory, and one on its own.
AddArgs == << <<f1, f2>>, <<f3>> >>

\* b has a child whose hash function is refused.
PinLinks == ("a" :> <<"c", "d">>) @@ ("b" :> <<"c", "u">>) @@ ("c" :> <<"d">>)
         @@ ("d" :> <<>>) @@ ("u" :> <<>>)

\* The files commands.  One client writes below /d, the other does anything.
WriteOp(p, fl, t) == [op |-> "write", path |-> p, create |-> TRUE, flush |-> fl, trunc |-> t]
RmOp(p, r) == [op |-> "rm", path |-> p, r |-> r]
MvOp(p, q, into) == [op |-> "mv", path |-> p, dst |-> q, into |-> into]
CpOp(p, q, fl) == [op |-> "cp", path |-> p, dst |-> q, into |-> FALSE, flush |-> fl]
MkdirOp(p, ps, fl) == [op |-> "mkdir", path |-> p, parents |-> ps, flush |-> fl]
PathOp(o, p) == [op |-> o, path |-> p, flush |-> TRUE]
FileAt == [dir |-> FALSE, data |-> {}, links |-> [n \in {} |-> n]]
DirAt(l) == [dir |-> TRUE, data |-> {}, links |-> l]
MfsTree == DirAt([d |-> DirAt([f |-> FileAt])])
DPath == <<"d">>
FPath == <<"d", "f">>
GPath == <<"d", "g">>
MfsScript ==
    ("c1" :> {<<WriteOp(FPath, TRUE, FALSE)>>, <<WriteOp(GPath, TRUE, FALSE)>>,
              <<WriteOp(FPath, FALSE, TRUE), PathOp("flush", DPath)>>})
    @@ ("c2" :> {<<WriteOp(FPath, TRUE, FALSE)>>, <<RmOp(DPath, TRUE), MkdirOp(FPath, TRUE, TRUE)>>,
              <<RmOp(FPath, FALSE)>>, <<MvOp(FPath, <<>>, TRUE)>>, <<MvOp(FPath, GPath, FALSE)>>,
              <<MvOp(DPath, DPath, FALSE)>>, <<CpOp(FPath, <<"e">>, TRUE)>>,
              <<PathOp("ls", DPath), PathOp("flush", FPath)>>, <<PathOp("stat", <<>>)>>,
              <<PathOp("read", FPath)>>, <<PathOp("chcid", DPath)>>,
              <<MkdirOp(DPath, FALSE, FALSE), CpOp(FPath, GPath, FALSE)>>})

\* The name and key commands; k2 is the node's own key.
Rename(n, m, f) == [op |-> "rename", name |-> n, new |-> m, force |-> f]
Publish(n, v) == [op |-> "publish", name |-> n, value |-> v]
ResolveOp(k) == [op |-> "resolve", key |-> k]
NameScript ==
    ("c1" :> {<<Publish("a", "v1"), Publish("a", "v2")>>, <<Publish("k2", "v1"), ResolveOp("k2")>>,
              <<Rename("a", "b", TRUE)>>, <<Rename("a", "a", TRUE)>>,
              <<[op |-> "rm", name |-> "a", new |-> "b"]>>})
    @@ ("c2" :> {<<Publish("a", "v1")>>, <<ResolveOp("k1")>>, <<Rename("b", "a", FALSE)>>,
              <<[op |-> "gen", name |-> "b", new |-> "b", key |-> "k3"]>>, <<Rename("a", "b", FALSE)>>})
NameKeys == ("a" :> "k1") @@ ("b" :> NoKey)
NameRecords == [k \in {"k1", "k2", "k3"} |-> IF k = "k1" THEN [seq |-> 0, value |-> "v2"] ELSE NoRec]

\* A daemon against commands that make, edit and read the configuration.
ConfOf(peers, v) == [boot |-> peers, val |-> v, spec |-> "flatfs", key |-> Nobody]
RepoOps == ("d" :> {<<"daemon", 0>>})
    @@ ("a" :> {<<"add", {"b2"}>>, <<"set", 2>>, <<"init", 0>>, <<"profile", "test">>,
                <<"edit", 1>>, <<"adddefault", 0>>, <<"get", 0>>})
    @@ ("b" :> {<<"add", {"b1", "b2"}>>, <<"rm", {"b1"}>>, <<"rmall", 0>>,
                <<"replace", ConfOf({}, 1)>>, <<"profile", "badgerds">>,
                <<"profile", "default-networking">>, <<"daemon", 0>>, <<"list", 0>>, <<"show", 0>>})

PushedSame == ("p1" :> "x") @@ ("p2" :> "x")
PushFlags == {("p1" :> {} @@ "p2" :> o) : o \in {{}, {"pin"}, {"only-hash"}}}

A == INSTANCE Adder WITH
    File <- {f1, f2, f3}, Args <- AddArgs,
    Modes <- {"add", "addNoPin", "addR"}, OutCap <- 1, GcCap <- 1, MaxGC <- 1,
    adder <- "adder", collector <- "collector",
    Client <- {"adder", "collector"}

C == INSTANCE PinCommands WITH
    PcKey <- {"a", "b", "c", "d", "u"}, PcLinks <- PinLinks,
    PcUnsafe <- {"u"}, PcRoots <- {"a", "c"}, PcFirst <- {{}, {"b"}},
    PcLossy <- {"d"}

M == INSTANCE Mfs WITH
    Client <- {"c1", "c2"}, Script <- MfsScript, Tree <- MfsTree,
    todo <- mTodo

N == INSTANCE Names WITH
    Client <- {"c1", "c2"}, Script <- NameScript, Name <- {"a", "b"},
    Key <- {"k1", "k2", "k3"}, Value <- {"v1", "v2"}, Repub <- "republisher",
    Self <- "k2", Keys0 <- NameKeys, Routing0 <- NameRecords

R == INSTANCE Repo WITH
    Cmd <- {"d", "a", "b"}, Does <- RepoOps, BPeer <- {"b1", "b2"},
    Fresh <- ConfOf({"b1"}, 0)

L == INSTANCE Daemon WITH
    Options <- {{}, {"gc", "gateway"}, {"offline", "outdated"}},
    made <- lMade, todo <- lTodo

P == INSTANCE PushBlacklist WITH
    Content <- {"x"}, Pusher <- {"p1", "p2"}, Pushed <- {PushedSame},
    PushOptions <- PushFlags, Master <- {"m1"}, NumberForBackup <- 1,
    MaxCrashes <- 1, MaxUserOps <- 1, BFile <- {"f1", "f2"},
    Roots <- ("f1" :> {"x"} @@ "f2" :> {"x"}), Period <- 1, MaxDelay <- 0,
    MaxTime <- 2, FirstPins <- {("x" :> m) : m \in {"own", "indirect"}},
    MaxAdds <- 1, what <- pWhat, excused <- pExcused, saved <- pSaved

AddVars == <<mode, apc, arg, idx, added, root, fresh, paused, outN, client,
             store, dirs, pins, gpc, todo, pend, delFailed, gcs, gcN,
             gcReader, cancelled, gap, readers, rwait, writer, gcreq>>
PinVars == <<pblocks, prec, pdirect, padd, pclient, pgc, swept, orphan>>
MfsVars == <<obj, mTodo, pc, then, cur, rest, val, dst, desclock, published,
             begun, acked, excused, overtaken>>
NamesVars == <<ks, ds, net, mu, cache, npc, todoN, key, value, rec, names,
               listed, made, latest, lost, blind, reverted, staleCache,
               refreshed, faulted>>
RepoVars == <<file, spec, version, lockBy, api, refs, mem, rpc, what, at,
              saved, conf, why, overlap, broken>>
DaemonVars == <<opts, main, sigs, shutReq, nd, lMade, owned, lTodo, shut, srv,
                repub, gc, reprov, apiFile, hard, early, late, failedAt>>
PushVars == <<pWhat, popts, daemon, pinned, userPins, push, backedUp, counts,
              recFile, recorder, flock, clearing, ncrashes, nuser, mixed,
              pExcused>>
BlacklistVars == <<now, madeAt, lastHandleTime, pSaved, refresh, has, pin,
                   nadds, handled, kept, behind>>

\* The variables of a part that is not the one being run.
AddIdle ==
    /\ mode = 0 /\ apc = 0 /\ arg = 0 /\ idx = 0 /\ added = 0 /\ root = 0
    /\ fresh = 0 /\ paused = 0 /\ outN = 0 /\ client = 0 /\ store = 0
    /\ dirs = 0 /\ pins = 0 /\ gpc = 0 /\ todo = 0 /\ pend = 0
    /\ delFailed = 0 /\ gcs = 0 /\ gcN = 0 /\ gcReader = 0 /\ cancelled = 0
    /\ gap = 0 /\ readers = 0 /\ rwait = 0 /\ writer = 0 /\ gcreq = 0
PinIdle ==
    /\ pblocks = 0 /\ prec = 0 /\ pdirect = 0 /\ padd = 0 /\ pclient = 0
    /\ pgc = 0 /\ swept = 0 /\ orphan = 0
MfsIdle ==
    /\ obj = 0 /\ mTodo = 0 /\ pc = 0 /\ then = 0 /\ cur = 0 /\ rest = 0
    /\ val = 0 /\ dst = 0 /\ desclock = 0 /\ published = 0 /\ begun = 0
    /\ acked = 0 /\ excused = 0 /\ overtaken = 0
NamesIdle ==
    /\ ks = 0 /\ ds = 0 /\ net = 0 /\ mu = 0 /\ cache = 0 /\ npc = 0
    /\ todoN = 0 /\ key = 0 /\ value = 0 /\ rec = 0 /\ names = 0
    /\ listed = 0 /\ made = 0 /\ latest = 0 /\ lost = 0 /\ blind = 0
    /\ reverted = 0 /\ staleCache = 0 /\ refreshed = 0 /\ faulted = 0
RepoIdle ==
    /\ file = 0 /\ spec = 0 /\ version = 0 /\ lockBy = 0 /\ api = 0
    /\ refs = 0 /\ mem = 0 /\ rpc = 0 /\ what = 0 /\ at = 0 /\ saved = 0
    /\ conf = 0 /\ why = 0 /\ overlap = 0 /\ broken = 0
DaemonIdle ==
    /\ opts = 0 /\ main = 0 /\ sigs = 0 /\ shutReq = 0 /\ nd = 0 /\ lMade = 0
    /\ owned = 0 /\ lTodo = 0 /\ shut = 0 /\ srv = 0 /\ repub = 0 /\ gc = 0
    /\ reprov = 0 /\ apiFile = 0 /\ hard = 0 /\ early = 0 /\ late = 0
    /\ failedAt = 0
PushIdle ==
    /\ pWhat = 0 /\ popts = 0 /\ daemon = 0 /\ pinned = 0 /\ userPins = 0
    /\ push = 0 /\ backedUp = 0 /\ counts = 0 /\ recFile = 0 /\ recorder = 0
    /\ flock = 0 /\ clearing = 0 /\ ncrashes = 0 /\ nuser = 0 /\ mixed = 0
    /\ pExcused = 0
BlacklistIdle ==
    /\ now = 0 /\ madeAt = 0 /\ lastHandleTime = 0 /\ pSaved = 0
    /\ refresh = 0 /\ has = 0 /\ pin = 0 /\ nadds = 0 /\ handled = 0
    /\ kept = 0 /\ behind = 0

\* One part is run at a time; the others keep still.
SuiteInit ==
    /\ unit \in Units
    /\ IF unit = "add" THEN A!Init ELSE AddIdle
    /\ IF unit = "pin" THEN C!PcInit ELSE PinIdle
    /\ IF unit = "mfs" THEN M!Init ELSE MfsIdle
    /\ IF unit = "names" THEN N!NInit ELSE NamesIdle
    /\ IF unit = "repo" THEN R!RInit ELSE RepoIdle
    /\ IF unit = "daemon" THEN L!LInit ELSE DaemonIdle
    /\ IF unit = "push" THEN P!PuInit ELSE PushIdle
    /\ IF unit = "blacklist" THEN P!BlInit ELSE BlacklistIdle

Rest(u) ==
    /\ UNCHANGED unit
    /\ IF u = "add" THEN TRUE ELSE UNCHANGED AddVars
    /\ IF u = "pin" THEN TRUE ELSE UNCHANGED PinVars
    /\ IF u = "mfs" THEN TRUE ELSE UNCHANGED MfsVars
    /\ IF u = "names" THEN TRUE ELSE UNCHANGED NamesVars
    /\ IF u = "repo" THEN TRUE ELSE UNCHANGED RepoVars
    /\ IF u = "daemon" THEN TRUE ELSE UNCHANGED DaemonVars
    /\ IF u = "push" THEN TRUE ELSE UNCHANGED PushVars
    /\ IF u = "blacklist" THEN TRUE ELSE UNCHANGED BlacklistVars

AddStep == unit = "add" /\ A!Next /\ Rest("add")
PinStep == unit = "pin" /\ C!PcNext /\ Rest("pin")
MfsStep == unit = "mfs" /\ M!Next /\ Rest("mfs")
NamesStep == unit = "names" /\ N!NNext /\ Rest("names")
RepoStep == unit = "repo" /\ R!RNext /\ Rest("repo")
DaemonStep == unit = "daemon" /\ L!LNext /\ Rest("daemon")
PushStep == unit = "push" /\ P!PuNext /\ Rest("push")
BlacklistStep == unit = "blacklist" /\ P!BlNext /\ Rest("blacklist")

SuiteNext ==
    \/ AddStep \/ PinStep \/ MfsStep \/ NamesStep \/ RepoStep \/ DaemonStep
    \/ PushStep \/ BlacklistStep

suiteVars == <<unit, AddVars, PinVars, MfsVars, NamesVars, RepoVars, DaemonVars,
              PushVars, BlacklistVars>>

SuiteSpec == SuiteInit /\ [][SuiteNext]_suiteVars

-----------------------------------------------------------------------------
\* What an adder wrote since it was given the PinLock is there while it holds
\* it; when an add is over the files it reported are pinned, or were pinned as
\* far as it got, and a collection between two files took nothing that it will
\* report.  Each conjunct is explained, with its exceptions, where it is
\* defined.
AddKeeps ==
    /\ unit = "add" =>
           /\ A!TypeOK /\ A!FreshPresent /\ A!AddedKept /\ A!ReportedPinned

\* pin ls and pin ls <key> agree on the type of a pin, pin verify names exactly
\* the roots below which a node is bad, and what a pin command reported is
\* pinned and present.  A push unpins what it pinned and no pin of the user,
\* also after the daemon died, keeps the pin while a push needs it, and reports
\* as backed up what a peer holds; no list of the blacklist is skipped and what
\* a list names is removed.  Each conjunct is explained, with its exceptions,
\* where it is defined.
PinsHonest ==
    /\ unit = "pin" =>
           /\ C!LsAgrees /\ C!VerifyExact /\ C!PinHeld
    /\ unit = "push" =>
           /\ P!NotesBalance /\ P!UserPinKept /\ P!PushKeepsPin
           /\ P!NoPinLeft /\ P!ReportedBackedUp
    /\ unit = "blacklist" =>
           /\ P!NoListSkipped /\ P!ListedRemoved

\* The objects of the mutable file system and the nodes below them agree, what
\* a files command wrote and reported is in the tree unless it was removed or
\* moved, and what is published contains what was flushed.  Each conjunct is
\* explained, with its exceptions, where it is defined.
FilesKept ==
    /\ unit = "mfs" =>
           /\ M!TypeOK /\ M!CacheIsTree /\ M!WriteKept /\ M!PublishedWhole

\* A sequence number names one value, a key that was not removed is in the
\* keystore under one of its names, the last publication reported is the one
\* that is found, and the cache follows it.  Each conjunct is explained, with
\* its exceptions, where it is defined.
NamesKept ==
    /\ unit = "names" =>
           /\ N!NTypeOK /\ N!SeqNamesValue /\ N!KeyKept /\ N!PublishWins
           /\ N!CacheFollows

\* The repository lock is held exactly by the process that has it open, the api
\* file names a daemon that runs, an initialized repository can be opened, and
\* the configuration in memory is the one on disk.  The daemon closes the
\* repository last, lets go of all that it opened, and removes its api file.
\* Each conjunct is explained, with its exceptions, where it is defined.
NodeSound ==
    /\ unit = "repo" =>
           /\ R!RTypeOK /\ R!LockMatches /\ R!ApiNamesDaemon /\ R!Openable
           /\ R!MemoryIsDisk
    /\ unit = "daemon" =>
           /\ L!LTypeOK /\ L!RepoLast /\ L!Released /\ L!ApiFileGone

\* What a bootstrap command reports is on disk once it is written, and what it
\* was not asked to change still is, unless another command of the process
\* changed the configuration meanwhile; no command but init changes the private
\* key, and none loses a key the user put in the file.
ConfigKept == [][unit = "repo" => R!ApplyUpdate /\ R!KeepUserData]_suiteVars
=============================================================================
