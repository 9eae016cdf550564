----------------------------- MODULE MCProgress -----------------------------
(***************************************************************************)
(* Small instances of the parts that owe someone an answer, for what must  *)
(* happen in the end.                                                      *)
(*                                                                         *)
(* The parts do not share state.  Each behaviour runs one of them, chosen  *)
(* at its start, and the variables of the others are out of use.  aim,     *)
(* chosen with it, is the promise that is looked at, for a part that has   *)
(* several.                                                                *)
(***************************************************************************)
EXTENDS Naturals, Sequences, FiniteSets, TLC

CONSTANTS Units, None, Nil, NoKey, NoRec, NoValue, NoRoot, NoClient, Never,
          Nobody, f1, f2

VARIABLES unit, aim,
          partners, queued, trash, requests, activeBlocks, active, freezeVal,
          have, adding, addKey, addLeft, addWork, ledgers, wantList, ref,
          received, stale, workSignal, worker, nextTask, outbox, accounting,
          sending, delivered, events,
          track, shared, refcnt, out, work, wSending, late, remote, asked,
          lost, wEvents,
          ses, live, elems, eset, interest, wanted, store, pc, keys, sub,
          promise, remaining, recv, dropped,
          newBlocks, nextKey, toProvide, provideKeys, pkClosed, held,
          inflight, workers, closing, ctxDone, accepted, started,
          wl, caller, vRemaining, vPromise, running, cancelled, findKeys,
          kset, queries, manager, rb, prCtxDone,
          strat, direct, recursive, pins, rpdone, run, done, mute, src,
          pending, seen, hand, key, provided, roundErr, trig, through,
          partial, honest,
          bstore, exchange, checkFirst, putter, getter, remover, announced,
          unsaid, deaths,
          mode, apc, arg, idx, added, root, fresh, paused, outN, client,
          aStore, dirs, aPins, gpc, todo, pend, delFailed, gcs, gcN, gcReader,
          aCancelled, gap, readers, rwait, writer, gcreq,
          pblocks, prec, pdirect, padd, pclient, pgc, swept, orphan,
          obj, mTodo, mPc, then, cur, rest, val, dst, desclock, published,
          begun, acked, excused, overtaken,
          ks, ds, net, mu, cache, npc, todoN, nKey, value, rec, names, listed,
          made, latest, nLost, blind, reverted, staleCache, refreshed, faulted,
          opts, main, sigs, shutReq, nd, lMade, owned, lTodo, shut, srv,
          repub, gc, reprov, apiFile, hard, early, lLate, failedAt,
          kind, cctx, mpc, keysLeft, evLeft, finals, evClosed, fpc, outClosed,
          qPublished, emitted, broken,
          conn, flaps, notes, testing, inTable, dLate, strmap, dMade, snd,
          doomed, wire, cpc, cms, retry, got, oneway,
          numPings, known, gClient, ctx, cmd, gOut, rounds, pongs, pinger,
          handler, timer, stream, gWire, echoed,
          linked, addrs, round, dialing, boot, walk, seek, gTodo, gAsked,
          tried, drops,
          hConn, notice, currid, chan, protos, ttl, at, on, call, undone,
          protoOf, opener, tCancelled, loop, mux, registry, loaded, closer,
          crossed, raced,
          estab, ends, copier, handlerID, nextID, sregistry, sloaded, killer,
          nends, sraced,
          rfargs, unique, rRecursive, rfabsent, nextArg, stack, rfseen, offer,
          rfout, rfstatus, left,
          mkeys, coming, mcount, decoder, mout, mreader, mgot, mctx,
          nextc, todobuffer, inProgress, visited, fetcher, returned, fLost,
          fetches

Callers == <<"c1", "c2">>
Keys2 == <<"k", "l">>
Servers == <<"api", "gateway">>
Fetchers == <<"f1", "f2">>
Workers == <<"now", "tick">>

\* Calls that overlap, for a session and outside one.
Overlap == {<<"k", "l">>}
CallKeys == ("r1" :> <<"k1">>) @@ ("r2" :> <<"k1">>)
KidsOf == ("k1" :> {"k2"}) @@ ("k2" :> {})

WriteOp(p, fl) == [op |-> "write", path |-> p, create |-> TRUE, flush |-> fl, trunc |-> FALSE]
MfsTree == [dir |-> TRUE, data |-> {}, links |-> [f |-> [dir |-> FALSE, data |-> {}, links |-> [n \in {} |-> n]]]]
MfsScript == ("c1" :> {<<WriteOp(<<"f">>, TRUE)>>})
          @@ ("c2" :> {<<WriteOp(<<"f">>, FALSE), [op |-> "flush", path |-> <<"f">>, flush |-> TRUE]>>,
                       <<[op |-> "rm", path |-> <<"f">>, r |-> FALSE]>>})
NameScript == ("c1" :> {<<[op |-> "publish", name |-> "a", value |-> "v1"]>>})
NameRecords == [k \in {"k1", "k2"} |-> NoRec]
PinLinks == ("a" :> <<"d">>) @@ ("d" :> <<>>)
RefLinks == ("a" :> <<"b", "c">>) @@ ("b" :> <<"c", "d">>) @@ ("c" :> <<"d">>) @@ ("d" :> <<>>)
FetchKids == ("a" :> <<"b", "c">>) @@ ("b" :> <<"c", "d">>) @@ ("c" :> <<"d">>) @@ ("d" :> <<>>)
OneProto == {("l1" :> "a" @@ "l2" :> "a")}

E == INSTANCE Engine WITH
    Peer <- {"p"}, Key <- {"k", "l"},
    Env <- {"full", "delete", "connect", "cancel"}, Workers <- 1,
    MaxEvents <- 2

W == INSTANCE WantManager WITH
    Peer <- {"p1", "p2"}, Key <- {"k"}, Session <- {"s", "t"},
    Env <- {"disconnect", "fail"}, MaxEvents <- 4, sending <- wSending,
    events <- wEvents

S == INSTANCE Session WITH
    Key <- {"k", "l"}, Caller <- {"c1", "c2"}, Receiver <- {"r"},
    Requests <- Overlap, Limit <- 1, InterestSize <- 2, MaxQueue <- 2,
    Env <- {"cancel"}

V == INSTANCE Providing WITH
    PqKey <- {"k1", "k2"}, PqNoKey <- NoKey, NewCap <- 1, KeysCap <- 1,
    ProvideMax <- 1, MaxAccepted <- 2, Keys <- CallKeys, PrKey <- {"k1"},
    Request <- {"r1", "r2"}, Impatient <- {}, Rebroadcast <- "rebroadcast",
    FindCap <- 1, RbIdle <- "idle", RbStopped <- "stopped",
    RKey <- {"k1", "k2"}, Kids <- KidsOf, Insecure <- {},
    FirstDirect <- {"k2"}, FirstRecursive <- {}, Strategies <- {"pinned"},
    Caller <- {"c1"}, MaxPins <- 0, remaining <- vRemaining, promise <- vPromise

B == INSTANCE Blocks WITH
    Unsafe <- {"u"}, Remote <- {"y", "z"}, Pinned <- {}, BPutter <- {"p1"},
    PutLists <- ("p1" :> {<<"y">>}), GetLists <- {<<"z", "y">>},
    RmLists <- {<<"y">>}, PutOpts <- {}, MaxDeaths <- 0, Chunk <- {},
    File <- {}, Url <- {}, FirstFiles <- <<>>, NewContents <- {},
    Configs <- {}, Putter <- {}, PutOps <- <<>>, MaxFileEdits <- 0,
    MaxDeletes <- 0, allow <- 0, main <- 0, refs <- 0, files <- 0, put <- 0,
    lister <- 0, readable <- 0, poisoned <- 0, edits <- 0, deletes <- 0

A == INSTANCE Adder WITH
    File <- {f1, f2}, Args <- << <<f1>> >>, Modes <- {"add"}, OutCap <- 1,
    GcCap <- 1, MaxGC <- 1, adder <- "adder", collector <- "collector",
    Client <- {"adder", "collector"}, store <- aStore, pins <- aPins,
    cancelled <- aCancelled

C == INSTANCE PinCommands WITH
    PcKey <- {"a", "d"}, PcLinks <- PinLinks, PcUnsafe <- {},
    PcRoots <- {"a"}, PcFirst <- {{}}, PcLossy <- {"d"}

M == INSTANCE Mfs WITH
    Client <- {"c1", "c2"}, Script <- MfsScript, Tree <- MfsTree,
    todo <- mTodo, pc <- mPc

N == INSTANCE Names WITH
    Client <- {"c1"}, Script <- NameScript, Name <- {"a"},
    Key <- {"k1", "k2"}, Value <- {"v1"}, Repub <- "republisher",
    Self <- "k2", Keys0 <- ("a" :> "k1"), Routing0 <- NameRecords,
    key <- nKey, lost <- nLost

L == INSTANCE Daemon WITH
    Options <- {{}}, made <- lMade, todo <- lTodo, late <- lLate

Q == INSTANCE DhtQuery WITH
    Peer <- {}, Self <- "self", Nearest <- {}, Closer <- <<>>, Dist <- <<>>,
    Connected <- {}, Flaky <- {}, Target <- "p3", Held <- <<>>, Local <- 1,
    Provs <- <<>>, Alpha <- 2, KValue <- 2, NVals <- 3, Count <- 2,
    Put <- {2, 3}, Ops <- {}, QWorker <- {"w1"}, PerWorker <- 1,
    MaxFinal <- 1, Keys <- 1, Online <- TRUE, HasDHT <- TRUE, Conns <- 1,
    NumProviders <- {0, 1}, published <- qPublished, op <- 0, qpc <- 0,
    err <- 0, seen <- 0, queried <- 0, queue <- 0, remaining <- 0,
    finished <- 0, tokens <- 0, spawner <- 0, wk <- 0, closing <- 0,
    closeReq <- 0, errs <- 0, success <- 0, ctx <- 0, vals <- 0, out <- 0,
    stored <- 0, local <- 0, best <- 0, fix <- 0, puts <- 0, putVal <- 0,
    failed <- 0

D == INSTANCE DhtNode WITH
    Caller <- {"c1", "c2"}, OneWay <- {"c2"}, MaxSender <- 2,
    Stream <- {"s1", "s2"}, MaxFlap <- 0, ProvKey <- {}, ProvPeer <- {},
    LruSize <- 1, Validity <- 1, MaxTime <- 3, Bits <- 3, BucketSize <- 2,
    Slow <- {6}, Master <- {}, late <- dLate, made <- dMade, clock <- 0,
    dstore <- 0, lru <- 0, psets <- 0, cleaned <- 0, announced <- 0,
    onDisk <- 0, buckets <- 0, tagged <- 0

G == INSTANCE Swarm WITH
    Counts <- {0, 1}, KnownAddrs <- {TRUE}, VPeer <- {"p1", "p2"},
    BootPeer <- {"p1", "p2"}, Reachable <- {"p1"}, MinPeerThreshold <- 2,
    MaxDrops <- 0, ConnectArgs <- {}, FCmd <- {}, FilterArg <- {},
    MaskOf <- <<>>, FOps <- <<>>, client <- gClient, out <- gOut,
    wire <- gWire, todo <- gTodo, asked <- gAsked, active <- 0, fcfg <- 0,
    stage <- 0, fop <- 0, left <- 0, torn <- 0

H == INSTANCE Host WITH
    Link <- {"c1"}, Caller <- {"d1"}, Group <- {}, ActivationThresh <- 2,
    Ttl <- 2, MaxTime <- 1, LAddr <- {}, conn <- hConn, now <- 0, seenBy <- 0,
    lastSeen <- 0, observed <- 0, natmgr <- 0, listening <- 0, mapped <- 0,
    job <- 0, late <- 0, unmapped <- 0

T == INSTANCE P2P WITH
    Listener <- {"l1", "l2"}, Protos <- OneProto, Closer <- {"c1"},
    Wants <- {"a"}, NStreams <- 1, Killer <- {"q1"}, MaxEnds <- 1,
    cancelled <- tCancelled

R == INSTANCE Walks WITH
    TDags <- {}, TRoot <- 1, TMissing <- {}, TFails <- {},
    RefKids <- RefLinks, RefArgs <- {<<"a">>}, RefAbsent <- {{}, {"c"}},
    ManyLists <- {<<"a">>, <<"a", "b", "a">>, <<"a", "z">>},
    Undecodable <- {"z"}, recursive <- rRecursive, tdag <- 0, order <- 0,
    skipDup <- 0, errFunc <- 0, missing <- 0, failsAt <- 0, walk <- 0

F == INSTANCE FetchGraph WITH
    GNode <- {"a", "b", "c", "d"}, GKids <- FetchKids, GRoot <- "a",
    Fetcher <- {"f1", "f2"}, Lost <- {{}, {"b", "d"}}, NoNode <- "none",
    lost <- fLost

EngineVars == <<partners, queued, trash, requests, activeBlocks, active,
                freezeVal, have, adding, addKey, addLeft, addWork, ledgers,
                wantList, ref, received, stale, workSignal, worker, nextTask,
                outbox, accounting, sending, delivered, events>>
WantsVars == <<track, shared, refcnt, out, work, wSending, late, remote,
               asked, lost, wEvents>>
SessionVars == <<ses, live, elems, eset, interest, wanted, store, pc, keys,
                 sub, promise, remaining, recv, dropped>>
QueueVars == <<newBlocks, nextKey, toProvide, provideKeys, pkClosed, held,
               inflight, workers, closing, ctxDone, accepted, started>>
SearchVars == <<wl, caller, vRemaining, vPromise, running, cancelled,
                findKeys, kset, queries, manager, rb, prCtxDone>>
ReprovideVars == <<strat, direct, recursive, pins, rpdone, run, done, mute,
                   src, pending, seen, hand, key, provided, roundErr, trig,
                   through, partial, honest>>
BlocksVars == <<bstore, exchange, checkFirst, putter, getter, remover,
                announced, unsaid, deaths>>
AddVars == <<mode, apc, arg, idx, added, root, fresh, paused, outN, client,
             aStore, dirs, aPins, gpc, todo, pend, delFailed, gcs, gcN,
             gcReader, aCancelled, gap, readers, rwait, writer, gcreq>>
PinVars == <<pblocks, prec, pdirect, padd, pclient, pgc, swept, orphan>>
MfsVars == <<obj, mTodo, mPc, then, cur, rest, val, dst, desclock, published,
             begun, acked, excused, overtaken>>
NamesVars == <<ks, ds, net, mu, cache, npc, todoN, nKey, value, rec, names,
               listed, made, latest, nLost, blind, reverted, staleCache,
               refreshed, faulted>>
DaemonVars == <<opts, main, sigs, shutReq, nd, lMade, owned, lTodo, shut, srv,
                repub, gc, reprov, apiFile, hard, early, lLate, failedAt>>
CommandVars == <<kind, cctx, mpc, keysLeft, evLeft, finals, evClosed, fpc,
                 outClosed, qPublished, emitted, broken>>
SenderVars == <<conn, flaps, notes, testing, inTable, dLate, strmap, dMade,
                snd, doomed, wire, cpc, cms, retry, got, oneway>>
PingVars == <<numPings, known, gClient, ctx, cmd, gOut, rounds, pongs, pinger,
              handler, timer, stream, gWire, echoed>>
PeersVars == <<linked, addrs, round, dialing, boot, walk, seek, gTodo, gAsked,
               tried, drops>>
IdentifyVars == <<hConn, notice, currid, chan, protos, ttl, at, on, call,
                  undone>>
ListenersVars == <<protoOf, opener, tCancelled, loop, mux, registry, loaded,
                   closer, crossed, raced>>
StreamsVars == <<estab, ends, copier, handlerID, nextID, sregistry, sloaded,
                 killer, nends, sraced>>
RefsVars == <<rfargs, unique, rRecursive, rfabsent, nextArg, stack, rfseen,
              offer, rfout, rfstatus, left>>
ManyVars == <<mkeys, coming, mcount, decoder, mout, mreader, mgot, mctx>>
FetchVars == <<nextc, todobuffer, inProgress, visited, fetcher, returned,
               fLost, fetches>>

\* The variables of a part that is not the one being run.
EngineIdle ==
    /\ partners = 0 /\ queued = 0 /\ trash = 0 /\ requests = 0
    /\ activeBlocks = 0 /\ active = 0 /\ freezeVal = 0 /\ have = 0
    /\ adding = 0 /\ addKey = 0 /\ addLeft = 0 /\ addWork = 0 /\ ledgers = 0
    /\ wantList = 0 /\ ref = 0 /\ received = 0 /\ stale = 0 /\ workSignal = 0
    /\ worker = 0 /\ nextTask = 0 /\ outbox = 0 /\ accounting = 0
    /\ sending = 0 /\ delivered = 0 /\ events = 0
WantsIdle ==
    /\ track = 0 /\ shared = 0 /\ refcnt = 0 /\ out = 0 /\ work = 0
    /\ wSending = 0 /\ late = 0 /\ remote = 0 /\ asked = 0 /\ lost = 0
    /\ wEvents = 0
SessionIdle ==
    /\ ses = 0 /\ live = 0 /\ elems = 0 /\ eset = 0 /\ interest = 0
    /\ wanted = 0 /\ store = 0 /\ pc = 0 /\ keys = 0 /\ sub = 0
    /\ promise = 0 /\ remaining = 0 /\ recv = 0 /\ dropped = 0
QueueIdle ==
    /\ newBlocks = 0 /\ nextKey = 0 /\ toProvide = 0 /\ provideKeys = 0
    /\ pkClosed = 0 /\ held = 0 /\ inflight = 0 /\ workers = 0 /\ closing = 0
    /\ ctxDone = 0 /\ accepted = 0 /\ started = 0
SearchIdle ==
    /\ wl = 0 /\ caller = 0 /\ vRemaining = 0 /\ vPromise = 0 /\ running = 0
    /\ cancelled = 0 /\ findKeys = 0 /\ kset = 0 /\ queries = 0
    /\ manager = 0 /\ rb = 0 /\ prCtxDone = 0
ReprovideIdle ==
    /\ strat = 0 /\ direct = 0 /\ recursive = 0 /\ pins = 0 /\ rpdone = 0
    /\ run = 0 /\ done = 0 /\ mute = 0 /\ src = 0 /\ pending = 0 /\ seen = 0
    /\ hand = 0 /\ key = 0 /\ provided = 0 /\ roundErr = 0 /\ trig = 0
    /\ through = 0 /\ partial = 0 /\ honest = 0
BlocksIdle ==
    /\ bstore = 0 /\ exchange = 0 /\ checkFirst = 0 /\ putter = 0
    /\ getter = 0 /\ remover = 0 /\ announced = 0 /\ unsaid = 0 /\ deaths = 0
AddIdle ==
    /\ mode = 0 /\ apc = 0 /\ arg = 0 /\ idx = 0 /\ added = 0 /\ root = 0
    /\ fresh = 0 /\ paused = 0 /\ outN = 0 /\ client = 0 /\ aStore = 0
    /\ dirs = 0 /\ aPins = 0 /\ gpc = 0 /\ todo = 0 /\ pend = 0
    /\ delFailed = 0 /\ gcs = 0 /\ gcN = 0 /\ gcReader = 0 /\ aCancelled = 0
    /\ gap = 0 /\ readers = 0 /\ rwait = 0 /\ writer = 0 /\ gcreq = 0
PinIdle ==
    /\ pblocks = 0 /\ prec = 0 /\ pdirect = 0 /\ padd = 0 /\ pclient = 0
    /\ pgc = 0 /\ swept = 0 /\ orphan = 0
MfsIdle ==
    /\ obj = 0 /\ mTodo = 0 /\ mPc = 0 /\ then = 0 /\ cur = 0 /\ rest = 0
    /\ val = 0 /\ dst = 0 /\ desclock = 0 /\ published = 0 /\ begun = 0
    /\ acked = 0 /\ excused = 0 /\ overtaken = 0
NamesIdle ==
    /\ ks = 0 /\ ds = 0 /\ net = 0 /\ mu = 0 /\ cache = 0 /\ npc = 0
    /\ todoN = 0 /\ nKey = 0 /\ value = 0 /\ rec = 0 /\ names = 0
    /\ listed = 0 /\ made = 0 /\ latest = 0 /\ nLost = 0 /\ blind = 0
    /\ reverted = 0 /\ staleCache = 0 /\ refreshed = 0 /\ faulted = 0
DaemonIdle ==
    /\ opts = 0 /\ main = 0 /\ sigs = 0 /\ shutReq = 0 /\ nd = 0 /\ lMade = 0
    /\ owned = 0 /\ lTodo = 0 /\ shut = 0 /\ srv = 0 /\ repub = 0 /\ gc = 0
    /\ reprov = 0 /\ apiFile = 0 /\ hard = 0 /\ early = 0 /\ lLate = 0
    /\ failedAt = 0
CommandIdle ==
    /\ kind = 0 /\ cctx = 0 /\ mpc = 0 /\ keysLeft = 0 /\ evLeft = 0
    /\ finals = 0 /\ evClosed = 0 /\ fpc = 0 /\ outClosed = 0
    /\ qPublished = 0 /\ emitted = 0 /\ broken = 0
SenderIdle ==
    /\ conn = 0 /\ flaps = 0 /\ notes = 0 /\ testing = 0 /\ inTable = 0
    /\ dLate = 0 /\ strmap = 0 /\ dMade = 0 /\ snd = 0 /\ doomed = 0
    /\ wire = 0 /\ cpc = 0 /\ cms = 0 /\ retry = 0 /\ got = 0 /\ oneway = 0
PingIdle ==
    /\ numPings = 0 /\ known = 0 /\ gClient = 0 /\ ctx = 0 /\ cmd = 0
    /\ gOut = 0 /\ rounds = 0 /\ pongs = 0 /\ pinger = 0 /\ handler = 0
    /\ timer = 0 /\ stream = 0 /\ gWire = 0 /\ echoed = 0
PeersIdle ==
    /\ linked = 0 /\ addrs = 0 /\ round = 0 /\ dialing = 0 /\ boot = 0
    /\ walk = 0 /\ seek = 0 /\ gTodo = 0 /\ gAsked = 0 /\ tried = 0
    /\ drops = 0
IdentifyIdle ==
    /\ hConn = 0 /\ notice = 0 /\ currid = 0 /\ chan = 0 /\ protos = 0
    /\ ttl = 0 /\ at = 0 /\ on = 0 /\ call = 0 /\ undone = 0
ListenersIdle ==
    /\ protoOf = 0 /\ opener = 0 /\ tCancelled = 0 /\ loop = 0 /\ mux = 0
    /\ registry = 0 /\ loaded = 0 /\ closer = 0 /\ crossed = 0 /\ raced = 0
StreamsIdle ==
    /\ estab = 0 /\ ends = 0 /\ copier = 0 /\ handlerID = 0 /\ nextID = 0
    /\ sregistry = 0 /\ sloaded = 0 /\ killer = 0 /\ nends = 0 /\ sraced = 0
RefsIdle ==
    /\ rfargs = 0 /\ unique = 0 /\ rRecursive = 0 /\ rfabsent = 0
    /\ nextArg = 0 /\ stack = 0 /\ rfseen = 0 /\ offer = 0 /\ rfout = 0
    /\ rfstatus = 0 /\ left = 0
ManyIdle ==
    /\ mkeys = 0 /\ coming = 0 /\ mcount = 0 /\ decoder = 0 /\ mout = 0
    /\ mreader = 0 /\ mgot = 0 /\ mctx = 0
FetchIdle ==
    /\ nextc = 0 /\ todobuffer = 0 /\ inProgress = 0 /\ visited = 0
    /\ fetcher = 0 /\ returned = 0 /\ fLost = 0 /\ fetches = 0

\* The number of promises of the part that is run: aim is the one looked at.
Aims ==
    IF unit \in {"queue", "search", "reprovide", "add", "mfs", "sender", "fetch"} THEN 2 ELSE 
    IF unit \in {"ping", "peers"} THEN 3 ELSE 1

\* One part is run at a time; the others keep still.
SuiteInit ==
    /\ unit \in Units
    /\ aim \in 1 .. Aims
    /\ IF unit = "engine" THEN E!Init ELSE EngineIdle
    /\ IF unit = "wants" THEN W!Init ELSE WantsIdle
    /\ IF unit = "session" THEN S!Init ELSE SessionIdle
    /\ IF unit = "queue" THEN V!PqInit ELSE QueueIdle
    /\ IF unit = "search" THEN V!PrInit ELSE SearchIdle
    /\ IF unit = "reprovide" THEN V!RpInit ELSE ReprovideIdle
    /\ IF unit = "blocks" THEN B!BkInit ELSE BlocksIdle
    /\ IF unit = "add" THEN A!Init ELSE AddIdle
    /\ IF unit = "pin" THEN C!PcInit ELSE PinIdle
    /\ IF unit = "mfs" THEN M!Init ELSE MfsIdle
    /\ IF unit = "names" THEN N!NInit ELSE NamesIdle
    /\ IF unit = "daemon" THEN L!LInit ELSE DaemonIdle
    /\ IF unit = "command" THEN Q!CInit ELSE CommandIdle
    /\ IF unit = "sender" THEN D!DInit ELSE SenderIdle
    /\ IF unit = "ping" THEN G!PiInit ELSE PingIdle
    /\ IF unit = "peers" THEN G!VInit ELSE PeersIdle
    /\ IF unit = "identify" THEN H!IInit ELSE IdentifyIdle
    /\ IF unit = "listeners" THEN T!ZInit ELSE ListenersIdle
    /\ IF unit = "streams" THEN T!JInit ELSE StreamsIdle
    /\ IF unit = "refs" THEN R!RfInit ELSE RefsIdle
    /\ IF unit = "many" THEN R!GmInit ELSE ManyIdle
    /\ IF unit = "fetch" THEN F!GInit ELSE FetchIdle

Rest(u) ==
    /\ UNCHANGED <<unit, aim>>
    /\ IF u = "engine" THEN TRUE ELSE UNCHANGED EngineVars
    /\ IF u = "wants" THEN TRUE ELSE UNCHANGED WantsVars
    /\ IF u = "session" THEN TRUE ELSE UNCHANGED SessionVars
    /\ IF u = "queue" THEN TRUE ELSE UNCHANGED QueueVars
    /\ IF u = "search" THEN TRUE ELSE UNCHANGED SearchVars
    /\ IF u = "reprovide" THEN TRUE ELSE UNCHANGED ReprovideVars
    /\ IF u = "blocks" THEN TRUE ELSE UNCHANGED BlocksVars
    /\ IF u = "add" THEN TRUE ELSE UNCHANGED AddVars
    /\ IF u = "pin" THEN TRUE ELSE UNCHANGED PinVars
    /\ IF u = "mfs" THEN TRUE ELSE UNCHANGED MfsVars
    /\ IF u = "names" THEN TRUE ELSE UNCHANGED NamesVars
    /\ IF u = "daemon" THEN TRUE ELSE UNCHANGED DaemonVars
    /\ IF u = "command" THEN TRUE ELSE UNCHANGED CommandVars
    /\ IF u = "sender" THEN TRUE ELSE UNCHANGED SenderVars
    /\ IF u = "ping" THEN TRUE ELSE UNCHANGED PingVars
    /\ IF u = "peers" THEN TRUE ELSE UNCHANGED PeersVars
    /\ IF u = "identify" THEN TRUE ELSE UNCHANGED IdentifyVars
    /\ IF u = "listeners" THEN TRUE ELSE UNCHANGED ListenersVars
    /\ IF u = "streams" THEN TRUE ELSE UNCHANGED StreamsVars
    /\ IF u = "refs" THEN TRUE ELSE UNCHANGED RefsVars
    /\ IF u = "many" THEN TRUE ELSE UNCHANGED ManyVars
    /\ IF u = "fetch" THEN TRUE ELSE UNCHANGED FetchVars

EngineStep == unit = "engine" /\ E!Next /\ Rest("engine")
WantsStep == unit = "wants" /\ W!Next /\ Rest("wants")
SessionStep == unit = "session" /\ S!Next /\ Rest("session")
QueueStep == unit = "queue" /\ V!PqNext /\ Rest("queue")
SearchStep == unit = "search" /\ V!PrNext /\ Rest("search")
ReprovideStep == unit = "reprovide" /\ V!RpNext /\ Rest("reprovide")
BlocksStep == unit = "blocks" /\ B!BkNext /\ Rest("blocks")
AddStep == unit = "add" /\ A!Next /\ Rest("add")
PinStep == unit = "pin" /\ C!PcNext /\ Rest("pin")
MfsStep == unit = "mfs" /\ M!Next /\ Rest("mfs")
NamesStep == unit = "names" /\ N!NNext /\ Rest("names")
DaemonStep == unit = "daemon" /\ L!LNext /\ Rest("daemon")
CommandStep == unit = "command" /\ Q!CNext /\ Rest("command")
SenderStep == unit = "sender" /\ D!DNext /\ Rest("sender")
PingStep == unit = "ping" /\ G!PiNext /\ Rest("ping")
PeersStep == unit = "peers" /\ G!VNext /\ Rest("peers")
IdentifyStep == unit = "identify" /\ H!INext /\ Rest("identify")
ListenersStep == unit = "listeners" /\ T!ZNext /\ Rest("listeners")
StreamsStep == unit = "streams" /\ T!JNext /\ Rest("streams")
RefsStep == unit = "refs" /\ R!RfNext /\ Rest("refs")
ManyStep == unit = "many" /\ R!GmNext /\ Rest("many")
FetchStep == unit = "fetch" /\ F!GNext /\ Rest("fetch")

SuiteNext ==
    \/ EngineStep \/ WantsStep \/ SessionStep \/ QueueStep \/ SearchStep
    \/ ReprovideStep \/ BlocksStep \/ AddStep \/ PinStep \/ MfsStep
    \/ NamesStep \/ DaemonStep \/ CommandStep \/ SenderStep \/ PingStep
    \/ PeersStep \/ IdentifyStep \/ ListenersStep \/ StreamsStep \/ RefsStep
    \/ ManyStep \/ FetchStep

suiteVars == <<unit, aim, EngineVars, WantsVars, SessionVars, QueueVars, SearchVars,
              ReprovideVars, BlocksVars, AddVars, PinVars, MfsVars, NamesVars,
              DaemonVars, CommandVars, SenderVars, PingVars, PeersVars,
              IdentifyVars, ListenersVars, StreamsVars, RefsVars, ManyVars,
              FetchVars>>

\* The variables of the part that is run.
unitVars ==
    CASE unit = "engine" -> EngineVars
      [] unit = "wants" -> WantsVars
      [] unit = "session" -> SessionVars
      [] unit = "queue" -> QueueVars
      [] unit = "search" -> SearchVars
      [] unit = "reprovide" -> ReprovideVars
      [] unit = "blocks" -> BlocksVars
      [] unit = "add" -> AddVars
      [] unit = "pin" -> PinVars
      [] unit = "mfs" -> MfsVars
      [] unit = "names" -> NamesVars
      [] unit = "daemon" -> DaemonVars
      [] unit = "command" -> CommandVars
      [] unit = "sender" -> SenderVars
      [] unit = "ping" -> PingVars
      [] unit = "peers" -> PeersVars
      [] unit = "identify" -> IdentifyVars
      [] unit = "listeners" -> ListenersVars
      [] unit = "streams" -> StreamsVars
      [] unit = "refs" -> RefsVars
      [] unit = "many" -> ManyVars
      [] unit = "fetch" -> FetchVars

SuiteSpec == SuiteInit /\ [][SuiteNext]_suiteVars

\* The fairness of each part is that of its own specification.  The parts share
\* the conditions, for only one is run: the i-th of a part holds when it is run.
EngineWeak(i) ==
    \/ i = 1 /\ (E!Pop \/ E!WakeBySignal \/ E!WakeByTicker \/ E!GetBlock \/ E!GetFailed)
    \/ i = 2 /\ E!TaskWorkers
    \/ i = 3 /\ E!Handlers
WantsWeak(i) ==
    \/ i = 1 /\ W!Queue("p1")
    \/ i = 2 /\ W!Queue("p2")
SessionWeak(i) ==
    \/ \E j \in 1..2 : i = 0 + j /\ (S!Subscribe(Callers[j]) \/ S!NewReqs(Callers[j]) \/ S!FetchSkipped(Callers[j]))
    \/ \E j \in 1..2 : i = 2 + j /\ ((\E k \in {"k", "l"} : S!Take(Callers[j], k)) \/ S!Finish(Callers[j]))
    \/ \E j \in 1..2 : i = 4 + j /\ S!CancelKeys(Callers[j])
    \/ i = 7 /\ (S!SessionsForBlock("r") \/ S!Offer("r") \/ S!CancelWants("r"))
    \/ i = 8 /\ S!Tick
QueueWeak(i) ==
    \/ i = 1 /\ V!CollectKey
    \/ i = 2 /\ V!FeedKey
    \/ i = 3 /\ V!CollectorReturns
    \/ i = 4 /\ (V!TakeKey \/ V!GoProvide)
    \/ i = 5 /\ V!WorkerReturns
    \/ i = 6 /\ V!ProvideReturns
    \/ i = 7 /\ closing /\ V!CtxDone
    \/ i = 8 /\ ctxDone /\ V!Closing
SearchWeak(i) ==
    \/ i = 1 /\ V!RequestStep("r1")
    \/ i = 2 /\ V!RequestStep("r2")
    \/ i = 3 /\ V!ReceiveFindKey
    \/ i = 4 /\ V!ManagerReturns
    \/ i = 5 /\ V!QueryEnds("k1")
    \/ i = 6 /\ V!RebroadcastSend
    \/ i = 7 /\ V!RebroadcastReturns
ReprovideWeak(i) ==
    \/ i = 1 /\ V!RunSteps
    \/ i = 2 /\ V!Feeding
    \/ i = 3 /\ (V!Provided \/ V!ProvideFails)
    \/ i = 4 /\ V!MuteEnds
    \/ i = 5 /\ V!CallRefused("c1")
BlocksWeak(i) ==
    \/ i = 1 /\ B!Got
    \/ i = 2 /\ B!Rmd
    \/ i = 3 /\ B!PutStep("p1")
AddWeak(i) ==
    \/ i = 1 /\ A!AdderStep
    \/ i = 2 /\ A!CollectorStep
    \/ i = 3 /\ A!EmitOut
    \/ i = 4 /\ A!CollectResult
PinWeak(i) ==
    \/ i = 1 /\ C!Work
    \/ i = 2 /\ C!ClientReads
    \/ i = 3 /\ C!AddEnded
MfsWeak(i) ==
    \/ \E j \in 1..2 : i = 0 + j /\ M!Command(Callers[j])
NamesWeak(i) ==
    \/ i = 1 /\ (N!Republish \/ N!PublishStep("republisher"))
    \/ i = 2 /\ (N!Command("c1") \/ N!PublishStep("c1"))
DaemonWeak(i) ==
    \/ i = 1 /\ main # "exit" /\ L!Main
    \/ i = 2 /\ main # "exit" /\ L!Ending
    \/ \E j \in 1..2 : i = 2 + j /\ main # "exit" /\ L!ServeStarts(Servers[j])
    \/ \E j \in 1..2 : i = 4 + j /\ main # "exit" /\ L!Closing /\ L!ServeEnds(Servers[j])
CommandWeak(i) ==
    \/ i = 1 /\ Q!StartCall
    \/ i = 2 /\ Q!QueryReturns
    \/ i = 3 /\ Q!CloseEvents
    \/ i = 4 /\ (Q!Forward \/ Q!ForwarderEnds)
SenderWeak(i) ==
    \/ \E j \in 1..2 : i = 0 + j /\ D!Send(Callers[j]) /\ UNCHANGED oneway
PingWeak(i) ==
    \/ i = 1 /\ G!Receive
    \/ i = 2 /\ G!Command
    \/ i = 3 /\ G!PingStep
    \/ i = 4 /\ G!Timeout
    \/ i = 5 /\ G!Accept
    \/ i = 6 /\ G!HandlerEnds
    \/ i = 7 /\ G!TimerFires
PeersWeak(i) ==
    \/ \E j \in 1..2 : i = 0 + j /\ \E P \in SUBSET {"p1", "p2"} : G!StartRound(Workers[j], P)
    \/ \E j \in 1..2 : i = 2 + j /\ \E p \in {"p1", "p2"} : G!DialEnds(Workers[j], p)
    \/ \E j \in 1..2 : i = 4 + j /\ (G!RoundEnds(Workers[j]) \/ G!SendDone(Workers[j]))
    \/ i = 7 /\ G!RoutingBootstrap
IdentifyWeak(i) ==
    \/ i = 1 /\ H!Step("c1")
    \/ i = 2 /\ H!Step("d1")
    \/ i = 3 /\ H!Disconnected("c1")
    \/ i = 4 /\ H!DialPeer("d1")
    \/ i = 5 /\ at["d1"] = "done" /\ H!ConnectReturns("d1")
ListenersWeak(i) ==
    \/ i = 1 /\ \E l \in {"l1"} : T!AcceptFails(l) \/ T!LoopCloses(l) \/ T!LoopLoad(l) \/ T!LoopStore(l)
    \/ i = 2 /\ \E l \in {"l2"} : T!AcceptFails(l) \/ T!LoopCloses(l) \/ T!LoopLoad(l) \/ T!LoopStore(l)
StreamsWeak(i) ==
    \/ i = 1 /\ (T!CopyEnds(1, T!In) \/ T!CopyStore(1, T!In))
    \/ i = 2 /\ (T!CopyEnds(1, T!Out) \/ T!CopyStore(1, T!Out))
RefsWeak(i) ==
    \/ i = 1 /\ R!Writer
ManyWeak(i) ==
    \/ i = 1 /\ R!Decoder
    \/ i = 2 /\ R!Reader
FetchWeak(i) ==
    \/ i = 1 /\ F!LoopStep
    \/ \E j \in 1..2 : i = 1 + j /\ F!FetcherStep(Fetchers[j])
Weak(i) ==
    \/ unit = "engine" /\ EngineWeak(i) /\ UNCHANGED <<unit, aim>>
    \/ unit = "wants" /\ WantsWeak(i) /\ UNCHANGED <<unit, aim>>
    \/ unit = "session" /\ SessionWeak(i) /\ UNCHANGED <<unit, aim>>
    \/ unit = "queue" /\ QueueWeak(i) /\ UNCHANGED <<unit, aim>>
    \/ unit = "search" /\ SearchWeak(i) /\ UNCHANGED <<unit, aim>>
    \/ unit = "reprovide" /\ ReprovideWeak(i) /\ UNCHANGED <<unit, aim>>
    \/ unit = "blocks" /\ BlocksWeak(i) /\ UNCHANGED <<unit, aim>>
    \/ unit = "add" /\ AddWeak(i) /\ UNCHANGED <<unit, aim>>
    \/ unit = "pin" /\ PinWeak(i) /\ UNCHANGED <<unit, aim>>
    \/ unit = "mfs" /\ MfsWeak(i) /\ UNCHANGED <<unit, aim>>
    \/ unit = "names" /\ NamesWeak(i) /\ UNCHANGED <<unit, aim>>
    \/ unit = "daemon" /\ DaemonWeak(i) /\ UNCHANGED <<unit, aim>>
    \/ unit = "command" /\ CommandWeak(i) /\ UNCHANGED <<unit, aim>>
    \/ unit = "sender" /\ SenderWeak(i) /\ UNCHANGED <<unit, aim>>
    \/ unit = "ping" /\ PingWeak(i) /\ UNCHANGED <<unit, aim>>
    \/ unit = "peers" /\ PeersWeak(i) /\ UNCHANGED <<unit, aim>>
    \/ unit = "identify" /\ IdentifyWeak(i) /\ UNCHANGED <<unit, aim>>
    \/ unit = "listeners" /\ ListenersWeak(i) /\ UNCHANGED <<unit, aim>>
    \/ unit = "streams" /\ StreamsWeak(i) /\ UNCHANGED <<unit, aim>>
    \/ unit = "refs" /\ RefsWeak(i) /\ UNCHANGED <<unit, aim>>
    \/ unit = "many" /\ ManyWeak(i) /\ UNCHANGED <<unit, aim>>
    \/ unit = "fetch" /\ FetchWeak(i) /\ UNCHANGED <<unit, aim>>

SessionStrong(i) ==
    \/ \E j \in 1..2 : i = 0 + j /\ (Keys2[j] \in wanted /\ S!Arrive("r", Keys2[j]))
SearchStrong(i) ==
    \/ i = 1 /\ V!Rebroadcasting("k1")
ReprovideStrong(i) ==
    \/ i = 1 /\ V!SelectDone
    \/ i = 2 /\ V!TriggerTaken
PinStrong(i) ==
    \/ i = 1 /\ C!Result
    \/ i = 2 /\ C!ContextDone
CommandStrong(i) ==
    \/ i = 1 /\ Q!Result
    \/ i = 2 /\ Q!WorkerPublish("w1")
SenderStrong(i) ==
    \/ \E j \in 1..2 : i = 0 + j /\ (D!Lock(Callers[j]) \/ D!Prep(Callers[j])) /\ UNCHANGED oneway
Strong(i) ==
    \/ unit = "session" /\ SessionStrong(i) /\ UNCHANGED <<unit, aim>>
    \/ unit = "search" /\ SearchStrong(i) /\ UNCHANGED <<unit, aim>>
    \/ unit = "reprovide" /\ ReprovideStrong(i) /\ UNCHANGED <<unit, aim>>
    \/ unit = "pin" /\ PinStrong(i) /\ UNCHANGED <<unit, aim>>
    \/ unit = "command" /\ CommandStrong(i) /\ UNCHANGED <<unit, aim>>
    \/ unit = "sender" /\ SenderStrong(i) /\ UNCHANGED <<unit, aim>>

SuiteFairSpec ==
    /\ SuiteSpec
    /\ \A i \in 1..8 : WF_unitVars(Weak(i))
    /\ \A i \in 1..2 : SF_unitVars(Strong(i))

-----------------------------------------------------------------------------
\* What the exchange is asked for comes, if peers answer.  A queued task is
\* served or cancelled (QueuedIsServed).  A want is told to every connected
\* peer (WantIsTold).  A GetBlocks call of a session ends (CallEnds), and one
\* of the block service (GetEnds).  Every key handed over is provided
\* (AllProvided), a wanted key is searched for (WantedIsSearched), Trigger
\* returns (TriggerReturns), and a shutdown ends the goroutines of all three
\* (WorkersEnd, CloseEnds, RunEnds).
BlocksComeAsked ==
    \/ unit = "engine" /\ "k" \in E!Live("p")
    \/ unit = "wants" /\ "p1" \in W!peers /\ asked["k"] # {}
    \/ unit = "session" /\ pc["c1"] = "missed"
    \/ unit = "queue" /\ aim = 1 /\ Len(accepted) >= 2
    \/ unit = "queue" /\ aim = 2 /\ closing
    \/ unit = "search" /\ aim = 1 /\ wl["k1"] # {}
    \/ unit = "search" /\ aim = 2 /\ prCtxDone
    \/ unit = "reprovide" /\ aim = 1 /\ trig["c1"] \in {"sending", "waiting"}
    \/ unit = "reprovide" /\ aim = 2 /\ rpdone
    \/ unit = "blocks" /\ getter.pc = "wait" /\ exchange = "open"
BlocksComeOver ==
    \/ unit = "engine" /\ "k" \notin E!Live("p")
    \/ unit = "wants" /\ ("k" \in remote["p1"] \/ "p1" \notin W!peers \/ "p1" \in lost \/ asked["k"] = {})
    \/ unit = "session" /\ (pc["c1"] = "idle" \/ sub["c1"] \cap dropped # {})
    \/ unit = "queue" /\ aim = 1 /\ (Len(started) >= 2 \/ closing \/ ctxDone)
    \/ unit = "queue" /\ aim = 2 /\ workers = {}
    \/ unit = "search" /\ aim = 1 /\ ("k1" \in kset \/ wl["k1"] = {} \/ prCtxDone)
    \/ unit = "search" /\ aim = 2 /\ ~manager /\ (rb = "stopped" \/ V!RebroadcastBlocked)
    \/ unit = "reprovide" /\ aim = 1 /\ trig["c1"] \notin {"sending", "waiting"}
    \/ unit = "reprovide" /\ aim = 2 /\ (run = "ended" /\ mute = {})
    \/ unit = "blocks" /\ (getter.pc # "wait" \/ exchange = "closed")
BlocksCome == BlocksComeAsked ~> BlocksComeOver

\* What the user asks of the store ends.  An add and a collection end, unless a
\* client that left blocks the one that holds the lock (AddEnds,
\* CollectionEnds), pin add frees the PinLock with the same exception
\* (PinLockFreed), files commands return (CommandEnds), records are put again
\* for ever while routing does not fail (RecordsRefreshed), a daemon that is
\* interrupted or told to shut down ends (InterruptEnds, ShutdownEnds), and a
\* walk comes to its end unless its reader left it with something in hand: the
\* writer of refs (WriterEnds), the goroutine that decodes the nodes of GetMany
\* (ManyEnds), and EnumerateChildrenAsync with its fetchers (FetchReturns,
\* FetchersEnd).
StorageEndsAsked ==
    \/ unit = "add" /\ aim = 1 /\ apc = "next"
    \/ unit = "add" /\ aim = 2 /\ gpc = "lock"
    \/ unit = "pin" /\ C!PinLocked
    \/ unit = "mfs" /\ aim = 1 /\ mPc["c1"] # "idle"
    \/ unit = "mfs" /\ aim = 2 /\ mPc["c2"] # "idle"
    \/ unit = "names" /\ ~(faulted \/ "k1" \in refreshed \/ ds["k1"] = NoRec \/ "k1" \notin N!Stored)
    \/ unit = "daemon" /\ (L!CtxDone \/ shutReq)
    \/ unit = "refs" /\ rfstatus = "run"
    \/ unit = "many" /\ decoder.pc # "gone"
    \/ unit = "fetch" /\ aim = 1 /\ returned = "no"
    \/ unit = "fetch" /\ aim = 2 /\ fetcher["f1"].pc \notin {"gone", "err"}
StorageEndsOver ==
    \/ unit = "add" /\ aim = 1 /\ (apc \in {"done", "failed"} \/ A!AdderBlocked \/ A!CollectorBlocked)
    \/ unit = "add" /\ aim = 2 /\ (gpc = "idle" \/ A!AdderBlocked \/ A!CollectorBlocked)
    \/ unit = "pin" /\ (~ C!PinLocked \/ (pclient = "gone" /\ padd.loop \in {"send", "last"}))
    \/ unit = "mfs" /\ aim = 1 /\ mPc["c1"] = "idle"
    \/ unit = "mfs" /\ aim = 2 /\ mPc["c2"] = "idle"
    \/ unit = "names" /\ (faulted \/ "k1" \in refreshed \/ ds["k1"] = NoRec \/ "k1" \notin N!Stored)
    \/ unit = "daemon" /\ main = "exit"
    \/ unit = "refs" /\ (rfstatus # "run" \/ (left /\ offer # R!NoOffer))
    \/ unit = "many" /\ (decoder.pc = "gone" \/ (decoder.item = "cancelled" /\ mgot = <<>> /\ mcount = Cardinality(R!Asked)))
    \/ unit = "fetch" /\ aim = 1 /\ returned # "no"
    \/ unit = "fetch" /\ aim = 2 /\ fetcher["f1"].pc \in {"gone", "err"}
StorageEnds == StorageEndsAsked ~> StorageEndsOver

\* What is asked of the network ends, whatever peers and clients do.  A dht
\* command ends, with its output and goroutines (DhtCommandEnds), a message is
\* answered or given up (SendEnds), Connect returns (ConnectEnds), the
\* goroutine of ping, the handler of the pinged node and the command end
\* (PingerEnds, PingHandlerEnds, PingCommandEnds), the bootstrap rounds do not
\* wait for ever (RoundsGoOn), a closed listener stops accepting (ClosedGone)
\* and both copies of a closed stream end (StreamEnds).
NetworkEndsAsked ==
    \/ unit = "command" /\ mpc = "call"
    \/ unit = "sender" /\ aim = 1 /\ cpc["c1"] = "lock"
    \/ unit = "sender" /\ aim = 2 /\ cpc["c2"] = "lock"
    \/ unit = "ping" /\ aim = 1 /\ pinger = "check"
    \/ unit = "ping" /\ aim = 2 /\ handler = "read"
    \/ unit = "ping" /\ aim = 3 /\ cmd # "closed"
    \/ unit = "peers" /\ aim = 1 /\ round["now"] = "wait"
    \/ unit = "peers" /\ aim = 2 /\ round["tick"] = "wait"
    \/ unit = "peers" /\ aim = 3 /\ boot # "done"
    \/ unit = "identify" /\ call["d1"] = "wait"
    \/ unit = "listeners" /\ "l1" \in tCancelled
    \/ unit = "streams" /\ ends[1].local = "closed" /\ copier[1][T!Out] = "copy"
NetworkEndsOver ==
    \/ unit = "command" /\ (mpc = "ended" /\ outClosed)
    \/ unit = "sender" /\ aim = 1 /\ cpc["c1"] \in {"done", "failed"}
    \/ unit = "sender" /\ aim = 2 /\ cpc["c2"] \in {"done", "failed"}
    \/ unit = "ping" /\ aim = 1 /\ pinger = "ended"
    \/ unit = "ping" /\ aim = 2 /\ handler = "ended"
    \/ unit = "ping" /\ aim = 3 /\ (cmd = "closed" \/ gClient = "gone")
    \/ unit = "peers" /\ aim = 1 /\ round["now"] # "wait"
    \/ unit = "peers" /\ aim = 2 /\ round["tick"] # "wait"
    \/ unit = "peers" /\ aim = 3 /\ boot = "done"
    \/ unit = "identify" /\ call["d1"] \in {"ok", "err"}
    \/ unit = "listeners" /\ loop["l1"] = "over"
    \/ unit = "streams" /\ (\A k \in {T!In, T!Out} : copier[1][k] = "done")
NetworkEnds == NetworkEndsAsked ~> NetworkEndsOver
=============================================================================
