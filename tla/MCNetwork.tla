----------------------------- MODULE MCNetwork ------------------------------
(***************************************************************************)
(* The instances of the parts of the node that deal with its peers: the    *)
(* engine that serves them (Engine), the DHT (DhtQuery, DhtNode), the host *)
(* (Host), the bootstrap, ping and filter commands (Swarm) and the tunnels *)
(* of p2p (P2P).                                                           *)
(*                                                                         *)
(* The parts do not share state.  Each behaviour runs one of them, chosen  *)
(* at its start, and the variables of the others are out of use; Engine,   *)
(* which this module extends, then stays in an initial state.  Peers and   *)
(* keys of the engine are alike, and nothing else uses them.               *)
(***************************************************************************)
EXTENDS Engine, TLC

CONSTANTS Units, Never, Nobody

VARIABLES unit,
          op, qpc, err, seen, queried, queue, remaining, finished, tokens,
          spawner, wk, closing, closeReq, errs, success, ctx, vals, out,
          stored, local, best, fix, puts, putVal, failed,
          kind, cctx, mpc, keysLeft, evLeft, finals, evClosed, fpc, outClosed,
          published, emitted, broken,
          conn, flaps, notes, testing, inTable, late, strmap, made, snd,
          doomed, wire, cpc, cms, retry, got, oneway,
          clock, dstore, lru, psets, cleaned, announced, onDisk,
          buckets, tagged,
          hConn, notice, currid, chan, protos, ttl, at, on, call, undone,
          now, seenBy, lastSeen, observed,
          natmgr, listening, mapped, job, hLate, unmapped,
          numPings, known, client, sCtx, cmd, sOut, rounds, pongs, pinger,
          handler, timer, stream, sWire, echoed,
          linked, addrs, round, dialing, boot, walk, seek, todo, asked, tried,
          drops,
          sActive, fcfg, stage, fop, left, torn,
          protoOf, opener, cancelled, loop, mux, registry, loaded, closer,
          crossed, raced,
          estab, ends, copier, handlerID, nextID, sregistry, sloaded, killer,
          nends, sraced

EngineSymmetry == Permutations(Peer) \cup Permutations(Key)

\* Three peers in a line: each knows the next one, and the last is the closest.
QPeers == <<"p1", "p2", "p3">>
QCloser == ("p1" :> {"p2", "self"}) @@ ("p2" :> {"p1", "p3"}) @@ ("p3" :> {})
QDist == ("p1" :> 3) @@ ("p2" :> 2) @@ ("p3" :> 1)
QHeld == ("p1" :> 1) @@ ("p2" :> (0 - 1)) @@ ("p3" :> 2)
QProvs == ("self" :> {"a"}) @@ ("p1" :> {"a"}) @@ ("p2" :> {"b", "c"}) @@ ("p3" :> {"c", "d"})
QWorkers == <<"w1", "w2">>
DCallers == <<"c1", "c2">>

\* Spellings of two masks and of none, and the commands over them.
FMask == [a |-> "m1", b |-> "m1", d |-> "m2", x |-> "invalid"]
FCommand(d, s) == [do |-> d, args |-> s]
FOps == ("c1" :> {FCommand("add", <<"a", "d">>), FCommand("add", <<"a", "x">>),
                  FCommand("rm", <<"d", "a">>)})
     @@ ("c2" :> {FCommand("add", <<"b", "b">>), FCommand("rm", <<"a">>), FCommand("rmall", <<>>)})

\* Two listeners of one protocol, or of two.
ZProtos == {("l1" :> "a" @@ "l2" :> "b"), ("l1" :> "a" @@ "l2" :> "a")}

VWorkers == <<"now", "tick">>
ZListeners == <<"l1", "l2">>

Q == INSTANCE DhtQuery WITH
    Peer <- {"p1", "p2", "p3"}, Self <- "self", Nearest <- {"p1"},
    Closer <- QCloser, Dist <- QDist, Connected <- {"p3"}, Flaky <- {"p2"},
    Target <- "p3", Held <- QHeld, Local <- 1, Provs <- QProvs, Alpha <- 2,
    KValue <- 2, NVals <- 3, Count <- 2, Put <- {2, 3},
    Ops <- {"findpeer", "closest", "put", "get", "provide", "findprovs"},
    QWorker <- {"w1", "w2"}, PerWorker <- 1, MaxFinal <- 2, Keys <- 2,
    Online <- TRUE, HasDHT <- TRUE, Conns <- 1, NumProviders <- {0, 1}

D == INSTANCE DhtNode WITH
    Caller <- {"c1", "c2"}, OneWay <- {"c2"}, MaxSender <- 2,
    Stream <- {"s1", "s2"}, MaxFlap <- 1, ProvKey <- {"k1", "k2"},
    ProvPeer <- {"a", "b"}, LruSize <- 1, Validity <- 1, MaxTime <- 3,
    Bits <- 3, BucketSize <- 2, Slow <- {6}, Master <- {1, 3, 5}

H == INSTANCE Host WITH
    Link <- {"c1", "c2"}, Caller <- {"d1"}, Group <- {"g1", "g2", "g3"},
    ActivationThresh <- 2, Ttl <- 2, MaxTime <- 7, LAddr <- {"a1", "a2"},
    conn <- hConn, late <- hLate

S == INSTANCE Swarm WITH
    Counts <- {0, 1, 2}, KnownAddrs <- BOOLEAN, VPeer <- {"p1", "p2", "p3"},
    BootPeer <- {"p1", "p2"}, Reachable <- {"p1", "p3"},
    MinPeerThreshold <- 2, MaxDrops <- 1,
    ConnectArgs <- {<<"p3", "p1">>, <<"p2", "p3">>}, FCmd <- {"c1", "c2"},
    FilterArg <- {"a", "b", "d", "x"}, MaskOf <- FMask, ctx <- sCtx,
    out <- sOut, wire <- sWire, active <- sActive

T == INSTANCE P2P WITH
    Listener <- {"l1", "l2"}, Protos <- ZProtos, Closer <- {"c1"},
    Wants <- {"a", "all"}, NStreams <- 2, Killer <- {"q1"}, MaxEnds <- 1

QueryVars == <<op, qpc, err, seen, queried, queue, remaining, finished,
               tokens, spawner, wk, closing, closeReq, errs, success, ctx,
               vals, out, stored, local, best, fix, puts, putVal, failed>>
CommandVars == <<kind, cctx, mpc, keysLeft, evLeft, finals, evClosed, fpc,
                 outClosed, published, emitted, broken>>
SenderVars == <<conn, flaps, notes, testing, inTable, late, strmap, made, snd,
                doomed, wire, cpc, cms, retry, got, oneway>>
ProvidersVars == <<clock, dstore, lru, psets, cleaned, announced, onDisk>>
BucketsVars == <<buckets, tagged>>
IdentifyVars == <<hConn, notice, currid, chan, protos, ttl, at, on, call,
                  undone>>
ObservedVars == <<now, seenBy, lastSeen, observed>>
NatVars == <<natmgr, listening, mapped, job, hLate, unmapped>>
PingVars == <<numPings, known, client, sCtx, cmd, sOut, rounds, pongs, pinger,
              handler, timer, stream, sWire, echoed>>
PeersVars == <<linked, addrs, round, dialing, boot, walk, seek, todo, asked,
               tried, drops>>
FiltersVars == <<sActive, fcfg, stage, fop, left, torn>>
ListenersVars == <<protoOf, opener, cancelled, loop, mux, registry, loaded,
                   closer, crossed, raced>>
StreamsVars == <<estab, ends, copier, handlerID, nextID, sregistry, sloaded,
                 killer, nends, sraced>>

\* The variables of a part that is not the one being run.
QueryIdle ==
    /\ op = 0 /\ qpc = 0 /\ err = 0 /\ seen = 0 /\ queried = 0 /\ queue = 0
    /\ remaining = 0 /\ finished = 0 /\ tokens = 0 /\ spawner = 0 /\ wk = 0
    /\ closing = 0 /\ closeReq = 0 /\ errs = 0 /\ success = 0 /\ ctx = 0
    /\ vals = 0 /\ out = 0 /\ stored = 0 /\ local = 0 /\ best = 0 /\ fix = 0
    /\ puts = 0 /\ putVal = 0 /\ failed = 0
CommandIdle ==
    /\ kind = 0 /\ cctx = 0 /\ mpc = 0 /\ keysLeft = 0 /\ evLeft = 0
    /\ finals = 0 /\ evClosed = 0 /\ fpc = 0 /\ outClosed = 0
    /\ published = 0 /\ emitted = 0 /\ broken = 0
SenderIdle ==
    /\ conn = 0 /\ flaps = 0 /\ notes = 0 /\ testing = 0 /\ inTable = 0
    /\ late = 0 /\ strmap = 0 /\ made = 0 /\ snd = 0 /\ doomed = 0
    /\ wire = 0 /\ cpc = 0 /\ cms = 0 /\ retry = 0 /\ got = 0 /\ oneway = 0
ProvidersIdle ==
    /\ clock = 0 /\ dstore = 0 /\ lru = 0 /\ psets = 0 /\ cleaned = 0
    /\ announced = 0 /\ onDisk = 0
BucketsIdle ==
    /\ buckets = 0 /\ tagged = 0
IdentifyIdle ==
    /\ hConn = 0 /\ notice = 0 /\ currid = 0 /\ chan = 0 /\ protos = 0
    /\ ttl = 0 /\ at = 0 /\ on = 0 /\ call = 0 /\ undone = 0
ObservedIdle ==
    /\ now = 0 /\ seenBy = 0 /\ lastSeen = 0 /\ observed = 0
NatIdle ==
    /\ natmgr = 0 /\ listening = 0 /\ mapped = 0 /\ job = 0 /\ hLate = 0
    /\ unmapped = 0
PingIdle ==
    /\ numPings = 0 /\ known = 0 /\ client = 0 /\ sCtx = 0 /\ cmd = 0
    /\ sOut = 0 /\ rounds = 0 /\ pongs = 0 /\ pinger = 0 /\ handler = 0
    /\ timer = 0 /\ stream = 0 /\ sWire = 0 /\ echoed = 0
PeersIdle ==
    /\ linked = 0 /\ addrs = 0 /\ round = 0 /\ dialing = 0 /\ boot = 0
    /\ walk = 0 /\ seek = 0 /\ todo = 0 /\ asked = 0 /\ tried = 0
    /\ drops = 0
FiltersIdle ==
    /\ sActive = 0 /\ fcfg = 0 /\ stage = 0 /\ fop = 0 /\ left = 0
    /\ torn = 0
ListenersIdle ==
    /\ protoOf = 0 /\ opener = 0 /\ cancelled = 0 /\ loop = 0 /\ mux = 0
    /\ registry = 0 /\ loaded = 0 /\ closer = 0 /\ crossed = 0 /\ raced = 0
StreamsIdle ==
    /\ estab = 0 /\ ends = 0 /\ copier = 0 /\ handlerID = 0 /\ nextID = 0
    /\ sregistry = 0 /\ sloaded = 0 /\ killer = 0 /\ nends = 0 /\ sraced = 0

\* One part is run at a time; the others keep still.
SuiteInit ==
    /\ unit \in Units
    /\ IF unit = "engine" THEN Init ELSE (Init /\ have = {})
    /\ IF unit = "query" THEN Q!QInit ELSE QueryIdle
    /\ IF unit = "command" THEN Q!CInit ELSE CommandIdle
    /\ IF unit = "sender" THEN D!DInit ELSE SenderIdle
    /\ IF unit = "providers" THEN D!PInit ELSE ProvidersIdle
    /\ IF unit = "buckets" THEN D!KInit ELSE BucketsIdle
    /\ IF unit = "identify" THEN H!IInit ELSE IdentifyIdle
    /\ IF unit = "observed" THEN H!BInit ELSE ObservedIdle
    /\ IF unit = "nat" THEN H!GInit ELSE NatIdle
    /\ IF unit = "ping" THEN S!PiInit ELSE PingIdle
    /\ IF unit = "peers" THEN S!VInit ELSE PeersIdle
    /\ IF unit = "filters" THEN S!FInit ELSE FiltersIdle
    /\ IF unit = "listeners" THEN T!ZInit ELSE ListenersIdle
    /\ IF unit = "streams" THEN T!JInit ELSE StreamsIdle

Rest(u) ==
    /\ UNCHANGED unit
    /\ IF u \in {"engine"} THEN TRUE ELSE UNCHANGED vars
    /\ IF u = "query" THEN TRUE ELSE UNCHANGED QueryVars
    /\ IF u = "command" THEN TRUE ELSE UNCHANGED CommandVars
    /\ IF u = "sender" THEN TRUE ELSE UNCHANGED SenderVars
    /\ IF u = "providers" THEN TRUE ELSE UNCHANGED ProvidersVars
    /\ IF u = "buckets" THEN TRUE ELSE UNCHANGED BucketsVars
    /\ IF u = "identify" THEN TRUE ELSE UNCHANGED IdentifyVars
    /\ IF u = "observed" THEN TRUE ELSE UNCHANGED ObservedVars
    /\ IF u = "nat" THEN TRUE ELSE UNCHANGED NatVars
    /\ IF u = "ping" THEN TRUE ELSE UNCHANGED PingVars
    /\ IF u = "peers" THEN TRUE ELSE UNCHANGED PeersVars
    /\ IF u = "filters" THEN TRUE ELSE UNCHANGED FiltersVars
    /\ IF u = "listeners" THEN TRUE ELSE UNCHANGED ListenersVars
    /\ IF u = "streams" THEN TRUE ELSE UNCHANGED StreamsVars

EngineStep == unit = "engine" /\ Next /\ Rest("engine")
QueryStep == unit = "query" /\ Q!QNext /\ Rest("query")
CommandStep == unit = "command" /\ Q!CNext /\ Rest("command")
SenderStep == unit = "sender" /\ D!DNext /\ Rest("sender")
ProvidersStep == unit = "providers" /\ D!PNext /\ Rest("providers")
BucketsStep == unit = "buckets" /\ D!KNext /\ Rest("buckets")
IdentifyStep == unit = "identify" /\ H!INext /\ Rest("identify")
ObservedStep == unit = "observed" /\ H!BNext /\ Rest("observed")
NatStep == unit = "nat" /\ H!GNext /\ Rest("nat")
PingStep == unit = "ping" /\ S!PiNext /\ Rest("ping")
PeersStep == unit = "peers" /\ S!VNext /\ Rest("peers")
FiltersStep == unit = "filters" /\ S!FNext /\ Rest("filters")
ListenersStep == unit = "listeners" /\ T!ZNext /\ Rest("listeners")
StreamsStep == unit = "streams" /\ T!JNext /\ Rest("streams")

SuiteNext ==
    \/ EngineStep \/ QueryStep \/ CommandStep \/ SenderStep \/ ProvidersStep
    \/ BucketsStep \/ IdentifyStep \/ ObservedStep \/ NatStep \/ PingStep
    \/ PeersStep \/ FiltersStep \/ ListenersStep \/ StreamsStep

suiteVars == <<unit, vars, QueryVars, CommandVars, SenderVars, ProvidersVars,
              BucketsVars, IdentifyVars, ObservedVars, NatVars, PingVars,
              PeersVars, FiltersVars, ListenersVars, StreamsVars>>

SuiteSpec == SuiteInit /\ [][SuiteNext]_suiteVars

-----------------------------------------------------------------------------
\* A query of the DHT never has more than Alpha requests under way nor asks a
\* peer twice; it ends without an answer only when nobody is left to ask, with
\* a value only after the quorum, with no more providers than were asked for;
\* and peers that sent an older record are sent the best one.  A dht command
\* closes its events after the last one was published, and the client gets all
\* of them.  Each conjunct is explained, with its exceptions, where it is
\* defined.
QueriesSound ==
    /\ unit = "query" =>
           /\ Q!QTypeOK /\ Q!RateLimited /\ Q!Exhausted /\ Q!QuorumMet
           /\ Q!Corrected /\ Q!ProvidersBounded
    /\ unit = "command" =>
           /\ Q!CTypeOK /\ Q!NoLateEvent /\ Q!AllForwarded

\* A reply on a stream is taken for the request it answers, an open stream is
\* in a sender that is still known, and the routing table holds who is
\* connected.  A provider is known until its record is too old, and the cleanup
\* drops it then, wherever the cache keeps it.  Buckets hold the peers of their
\* distance, the connection manager's tags match them, and lookups return the
\* nearest.  Each conjunct is explained, with its exceptions, where it is
\* defined.
DhtKept ==
    /\ unit = "sender" =>
           /\ D!DTypeOK /\ D!OwnReply /\ D!NoForgottenStream
           /\ D!TableFollows
    /\ unit = "providers" =>
           /\ D!PTypeOK /\ D!FreshKnown /\ D!CleanupHolds
    /\ unit = "buckets" =>
           /\ D!BucketsOrdered /\ D!TagsMatch /\ D!FindExact
           /\ D!NearestExact

\* A connection is identified by one goroutine at a time, its protocols are
\* known when Connect returns, and addresses expire with the last connection.
\* An observed address is advertised exactly on the word of enough groups that
\* saw it lately.  Every listener has its NAT mapping and no other has one.
\* Each conjunct is explained, with its exceptions, where it is defined.
HostSound ==
    /\ unit = "identify" =>
           /\ H!OneIdentifies /\ H!AddrsExpire /\ H!ProtocolsKnown
    /\ unit = "observed" =>
           /\ H!AdvertisedSound /\ H!AdvertisedComplete
    /\ unit = "nat" =>
           /\ H!ListenersMapped /\ H!NoStaleMapping

\* Every pong that ping reports answers a ping of its own; a connection the
\* command reports was made; the filters of the swarm are those of the
\* configuration, each once; a p2p listener is listed exactly while it is open
\* and serves what was opened, close ends what it names, and streams are listed
\* while they are copied.  Each conjunct is explained, with its exceptions,
\* where it is defined.
CommandsHonest ==
    /\ unit = "ping" => S!PongsAnswered
    /\ unit = "peers" => S!ConnectHonest
    /\ unit = "filters" =>
           /\ S!FiltersOnce /\ S!FiltersAgree
    /\ unit = "listeners" =>
           /\ T!OpenServed /\ T!ListedExact /\ T!CloseCloses
    /\ unit = "streams" => T!StreamsListed
=============================================================================
