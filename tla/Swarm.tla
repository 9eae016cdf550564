------------------------------- MODULE Swarm --------------------------------
(***************************************************************************)
(* 'udfs ping' (core/commands/ping.go) and the ping protocol (go-          *)
(* libp2p/p2p/protocol/ping): the goroutine of pingPeer, which sends       *)
(* results to the command's client over an unbuffered channel; the         *)
(* goroutine of PingService.Ping; the remote PingHandler, with its loop    *)
(* and its timer. Streams are external: reliable until closed or reset.    *)
(***************************************************************************)
EXTENDS Naturals, FiniteSets, Sequences, SequencesExt

CONSTANTS Counts,         \* values of the count option
          KnownAddrs      \* the peerstore has addresses of the peer: set of Booleans

VARIABLES numPings, known,
          client,         \* who reads outChan: "reads", "gone"
          ctx,            \* the context of pingPeer: "live", "done"
          cmd,            \* pingPeer: "start", "find", "open", "loop", "sent",
                          \* "average", "last", "closed"
          out,            \* a result waiting on outChan: "none", "text", "pong"
          rounds,         \* i of the loop
          pongs,          \* history: pongs the client received
          pinger,         \* Ping's goroutine: "none", "check", "write", "read",
                          \* "offer", "ended"
          handler,        \* PingHandler's loop: "none", "read", "write", "ended"
          timer,          \* its timeout: "running", "fired", "stopped"
          stream,         \* "none", "open", "closed" (by the pinger), "reset"
          wire,           \* what is under way on the stream: "none", "ping", "pong"
          echoed          \* history: pings the handler answered

pivars == <<numPings, known, client, ctx, cmd, out, rounds, pongs,
            pinger, handler, timer, stream, wire, echoed>>
remote == <<handler, timer, echoed>>

Say(kind, next) == out' = kind /\ cmd' = next

\* The client takes a result, or leaves: its request's context ends.
Receive ==
    /\ client = "reads" /\ out # "none" /\ out' = "none"
    /\ pongs' = IF out = "pong" THEN pongs + 1 ELSE pongs
    /\ UNCHANGED <<numPings, known, client, ctx, cmd, rounds, pinger, stream, wire>>
    /\ UNCHANGED remote
ClientLeaves ==
    /\ client = "reads" /\ cmd # "closed" /\ client' = "gone" /\ ctx' = "done"
    /\ UNCHANGED <<numPings, known, cmd, out, rounds, pongs, pinger, stream, wire>>
    /\ UNCHANGED remote
Timeout ==
    /\ cmd \in {"loop", "sent"} /\ ctx = "live" /\ ctx' = "done"
    /\ UNCHANGED <<numPings, known, client, cmd, out, rounds, pongs, pinger, stream, wire>>
    /\ UNCHANGED remote

-----------------------------------------------------------------------------
(* pingPeer: each step waits for the last result to be taken.              *)

Turn == out = "none" /\ UNCHANGED <<numPings, known, client, pongs>> /\ UNCHANGED remote

LookUp == /\ Turn /\ cmd = "start"
          /\ IF known THEN Say("text", "open") ELSE Say("text", "find")
          /\ UNCHANGED <<ctx, rounds, pinger, stream, wire>>
FindPeer == /\ Turn /\ cmd = "find"
            /\ Say("text", "open") \/ Say("text", "last")
            /\ UNCHANGED <<ctx, rounds, pinger, stream, wire>>
\* Ping: NewStream fails, or the goroutine starts.
StartPing == /\ Turn /\ cmd = "open"
             /\ \/ Say("text", "last") /\ UNCHANGED <<pinger, stream>>
                \/ /\ cmd' = "loop" /\ pinger' = "check" /\ stream' = "open"
                   /\ UNCHANGED out
             /\ UNCHANGED <<ctx, rounds, wire>>

\* One turn of the loop: the count is reached, the context is done, the channel
\* is closed, or a time is received and passed on.
EnoughLate == rounds > numPings
Enough == rounds = numPings
OverWhenCounted == Enough
Over == Enough \/ ctx = "done" \/ pinger = "ended"
LoopEnds == /\ Turn /\ cmd = "loop" /\ Over
            /\ cmd' = "average" /\ UNCHANGED <<ctx, out, rounds, pinger, stream, wire>>
TakePing == /\ Turn /\ cmd = "loop" /\ ~Enough /\ pinger = "offer" /\ pinger' = "check"
            /\ Say("pong", "loop") /\ rounds' = rounds + 1
            /\ UNCHANGED <<ctx, stream, wire>>
Average == /\ Turn /\ cmd = "average" /\ Say("text", "last")
           /\ UNCHANGED <<ctx, rounds, pinger, stream, wire>>
\* The deferred cancel and close.
CloseOut == /\ Turn /\ cmd = "last" /\ cmd' = "closed" /\ ctx' = "done"
            /\ UNCHANGED <<out, rounds, pinger, stream, wire>>

-----------------------------------------------------------------------------
(* The goroutine of PingService.Ping                                       *)

Still == UNCHANGED <<numPings, known, client, ctx, cmd, out, rounds, pongs>> /\ UNCHANGED remote
Hangs(s) == pinger' = "ended" /\ stream' = s
PingCheck == /\ Still /\ pinger = "check" /\ UNCHANGED wire
             /\ IF ctx = "done" THEN Hangs("closed") ELSE pinger' = "write" /\ UNCHANGED stream
PingWrite == /\ Still /\ pinger = "write"
             /\ IF stream = "reset" THEN Hangs("reset") /\ UNCHANGED wire
                ELSE pinger' = "read" /\ wire' = "ping" /\ UNCHANGED stream
PingRead == /\ Still /\ pinger = "read"
            /\ \/ stream = "reset" /\ Hangs("reset") /\ UNCHANGED wire
               \/ wire = "pong" /\ wire' = "none" /\ pinger' = "offer" /\ UNCHANGED stream
\* out <- t is TakePing; or the context is done.
OfferNever == FALSE
OfferEnds == ctx = "done"
PingOffer == /\ Still /\ pinger = "offer" /\ OfferEnds /\ Hangs("closed") /\ UNCHANGED wire
PingStep == PingCheck \/ PingWrite \/ PingRead \/ PingOffer

-----------------------------------------------------------------------------
(* PingHandler on the other side, and the connection                       *)

Local == UNCHANGED <<numPings, known, client, ctx, cmd, out, rounds, pongs, pinger>>
Accept == /\ Local /\ handler = "none" /\ stream = "open"
          /\ handler' = "read" /\ timer' = "running" /\ UNCHANGED <<stream, wire, echoed>>
HandlerRead == /\ Local /\ handler = "read" /\ wire = "ping" /\ stream # "reset"
               /\ handler' = "write" /\ UNCHANGED <<timer, stream, wire, echoed>>
HandlerWrite == /\ Local /\ handler = "write" /\ stream # "reset" /\ wire' = "pong"
                /\ handler' = "read" /\ timer' = "running" /\ echoed' = echoed + 1
                /\ UNCHANGED stream
\* The read ends with EOF or the stream is reset: the loop ends, the timer stops.
HandlerEnds == /\ Local /\ handler \in {"read", "write"}
               /\ stream = "reset" \/ (stream = "closed" /\ handler = "read" /\ wire # "ping")
               /\ handler' = "ended" /\ timer' = "stopped"
               /\ stream' = IF stream = "closed" THEN "closed" ELSE "reset"
               /\ UNCHANGED <<wire, echoed>>
\* pingTimeout without an answered ping.
TimerNever == FALSE
TimerResets == handler # "none" /\ timer = "running"
TimerFires == /\ Local /\ TimerResets /\ timer' = "fired"
              /\ stream' = IF stream = "none" THEN stream ELSE "reset"
              /\ UNCHANGED <<handler, wire, echoed>>

PiInit ==
    /\ numPings \in Counts /\ known \in KnownAddrs
    /\ client = "reads" /\ ctx = "live" /\ cmd = "start" /\ out = "none" /\ rounds = 0
    /\ pongs = 0 /\ pinger = "none" /\ handler = "none" /\ timer = "stopped"
    /\ stream = "none" /\ wire = "none" /\ echoed = 0
Command == LookUp \/ FindPeer \/ StartPing \/ LoopEnds \/ TakePing \/ Average \/ CloseOut
PiNext == \/ Receive \/ ClientLeaves \/ Timeout \/ Command \/ PingStep
          \/ Accept \/ HandlerRead \/ HandlerWrite \/ HandlerEnds \/ TimerFires
PiSpec == PiInit /\ [][PiNext]_pivars
\* The goroutines run, the client reads while it is there, timers fire.  The
\* other node accepts the stream; it need not answer.
PiFairSpec == /\ PiSpec /\ WF_pivars(Receive) /\ WF_pivars(Command) /\ WF_pivars(PingStep)
              /\ WF_pivars(Timeout) /\ WF_pivars(Accept) /\ WF_pivars(HandlerEnds) /\ WF_pivars(TimerFires)

-----------------------------------------------------------------------------
(* Properties                                                              *)

\* Every pong the client is shown answers a ping of its own, and there are at
\* most as many as asked for: none is counted twice, or offered after the count.
PongsAnswered ==
    /\ pongs + (IF out = "pong" THEN 1 ELSE 0) + (IF pinger = "offer" THEN 1 ELSE 0) <= echoed
    /\ pongs <= numPings

\* The goroutine of Ping ends, whatever the client and the other node do: the
\* context ends it while it offers a time, the other side's timer while it reads.
PingerEnds == (pinger = "check") ~> (pinger = "ended")

\* The command ends for a client that stays to read.
PingCommandEnds == <>(cmd = "closed" \/ client = "gone")

\* The handler on the other side ends too.
PingHandlerEnds == (handler = "read") ~> (handler = "ended")

-----------------------------------------------------------------------------
(***************************************************************************)
(* How a node gets and keeps its peers: the connection supervisor of       *)
(* core/bootstrap.go (Bootstrap, bootstrapRound, bootstrapConnect), the    *)
(* random walk of dht_bootstrap.go, the peers mDNS finds (mdns.go,         *)
(* HandlePeerFound), and RoutedHost.Connect (routed.go), which the         *)
(* 'swarm connect' command calls for its arguments in turn.  Dialling and  *)
(* the routing system's FindPeer are external: they succeed or fail.       *)
(***************************************************************************)

CONSTANTS VPeer,
          BootPeer,           \* bootstrap peers of the config
          Reachable,          \* peers a dial can reach
          MinPeerThreshold,
          MaxDrops,           \* bound on the connections that break
          ConnectArgs         \* the arguments of a 'swarm connect'

Worker == {"now", "tick"}     \* the round run right away, the rounds of the ticker

VARIABLES linked,             \* peers the node is connected to
          addrs,              \* peers whose addresses the peerstore has
          round,              \* round[w]: "idle", "dial", "wait", "over"
          dialing,            \* dialing[w]: peers the round still dials
          boot,               \* Bootstrap: "routing", "send", "done"
          walk,               \* the DHT's bootstrap has been started
          seek,               \* 'swarm connect': "idle", "find", "dial", "ok", "err"
          todo,               \* its arguments still to connect to
          asked, tried,       \* history: all of them; those linked at their turn
          drops

vvars == <<linked, addrs, round, dialing, boot, walk, seek, todo, asked, tried, drops>>

-----------------------------------------------------------------------------
(* bootstrapRound and bootstrapConnect                                     *)

FewOff == Cardinality(linked) + 1 < MinPeerThreshold
Few == Cardinality(linked) < MinPeerThreshold
NotConnected == BootPeer \ linked
NumToDial == MinPeerThreshold - Cardinality(linked)
Least(a, b) == IF a < b THEN a ELSE b
RandomSubsets == {S \in SUBSET NotConnected :
                      Cardinality(S) = Least(NumToDial, Cardinality(NotConnected))}

StartRound(w, S) ==
    /\ round[w] = "idle"
    /\ IF Few /\ NotConnected # {}
       THEN /\ S \in RandomSubsets
            /\ round' = [round EXCEPT ![w] = "dial"]
            /\ dialing' = [dialing EXCEPT ![w] = S] /\ addrs' = addrs \cup S
       ELSE /\ S = {} /\ round' = [round EXCEPT ![w] = "wait"]
            /\ UNCHANGED <<dialing, addrs>>
    /\ UNCHANGED <<linked, boot, walk, seek, todo, asked, tried, drops>>

\* Every dial ends, within the round's timeout; the round ends with the last.
DialEnds(w, p) ==
    /\ p \in dialing[w] /\ dialing' = [dialing EXCEPT ![w] = @ \ {p}]
    /\ round' = [round EXCEPT ![w] = IF dialing[w] = {p} THEN "wait" ELSE @]
    /\ linked' = linked \cup ({p} \cap Reachable)
    /\ UNCHANGED <<addrs, boot, walk, seek, todo, asked, tried, drops>>

\* <-doneWithRound: closed, or (SendDone) the one value Bootstrap sends.  The
\* ticker runs its next round after this one.
AfterRound(w) == round' = [round EXCEPT ![w] = IF w = "now" THEN "over" ELSE "idle"]
ClosedNever == FALSE
DoneClosed == boot = "done"
RoundEnds(w) ==
    /\ round[w] = "wait" /\ DoneClosed /\ AfterRound(w)
    /\ UNCHANGED <<linked, addrs, dialing, boot, walk, seek, todo, asked, tried, drops>>

\* Bootstrap: Routing.Bootstrap starts the walk, then the value is sent to a
\* round that waits for it.
RoutingBootstrap == /\ boot = "routing" /\ boot' = "send" /\ walk' = TRUE
                    /\ UNCHANGED <<linked, addrs, round, dialing, seek, todo, asked, tried, drops>>
SendDone(w) == /\ boot = "send" /\ boot' = "done"
               /\ round[w] = "wait" /\ AfterRound(w)
               /\ UNCHANGED <<linked, addrs, dialing, walk, seek, todo, asked, tried, drops>>

\* runBootstrap: a query walks from a linked peer to others it learns of.
RandomWalk(p) == /\ walk /\ linked # {} /\ p \in Reachable \ linked
                 /\ linked' = linked \cup {p} /\ addrs' = addrs \cup {p}
                 /\ UNCHANGED <<round, dialing, boot, walk, seek, todo, asked, tried, drops>>

\* handleEntry: a peer on the local network; HandlePeerFound connects to it.
PeerFound(p) == /\ addrs' = addrs \cup {p} /\ linked' = linked \cup ({p} \cap Reachable)
                /\ UNCHANGED <<round, dialing, boot, walk, seek, todo, asked, tried, drops>>

-----------------------------------------------------------------------------
(* 'swarm connect' and RoutedHost.Connect                                  *)

ConnectCmd(args) ==
    /\ seek = "idle" /\ todo' = args /\ tried' = {} /\ asked' = ToSet(args)
    /\ seek' = "conn" /\ UNCHANGED <<linked, addrs, round, dialing, boot, walk, drops>>

\* Connected: the next argument.  Else addresses from the peerstore, or routing.
NextArg == todo' = Tail(todo) /\ seek' = (IF Len(todo) = 1 THEN "ok" ELSE "conn")
ConnectArg ==
    /\ seek = "conn"
    /\ IF Head(todo) \in linked THEN NextArg /\ tried' = tried \cup {Head(todo)}
       ELSE /\ seek' = (IF Head(todo) \in addrs THEN "dial" ELSE "find")
            /\ UNCHANGED <<todo, tried>>
    /\ UNCHANGED <<linked, addrs, round, dialing, boot, walk, asked, drops>>
FindPeerAddrs ==
    /\ seek = "find"
    /\ \/ seek' = "dial" /\ addrs' = addrs \cup {Head(todo)}
       \/ seek' = "err" /\ UNCHANGED addrs
    /\ UNCHANGED <<linked, round, dialing, boot, walk, todo, asked, tried, drops>>
DialSkipping ==
    /\ seek = "dial" /\ NextArg
    /\ linked' = linked \cup ({Head(todo)} \cap Reachable)
    /\ tried' = tried \cup ({Head(todo)} \cap Reachable)
    /\ UNCHANGED <<addrs, round, dialing, boot, walk, asked, drops>>
DialArg ==
    /\ seek = "dial"
    /\ \/ /\ Head(todo) \in Reachable /\ linked' = linked \cup {Head(todo)}
          /\ NextArg /\ tried' = tried \cup {Head(todo)}
       \/ seek' = "err" /\ UNCHANGED <<linked, todo, tried>>
    /\ UNCHANGED <<addrs, round, dialing, boot, walk, asked, drops>>
CommandOver == /\ seek \in {"ok", "err"} /\ seek' = "idle"
               /\ UNCHANGED <<linked, addrs, round, dialing, boot, walk, todo, asked, tried, drops>>

\* A connection breaks, or 'swarm disconnect' closes it.
Disconnect(p) == /\ p \in linked /\ drops < MaxDrops /\ drops' = drops + 1
                 /\ linked' = linked \ {p}
                 /\ UNCHANGED <<addrs, round, dialing, boot, walk, seek, todo, asked, tried>>
\* Addresses with a temporary TTL expire.
AddrsExpired(p) == /\ p \in addrs \ (linked \cup BootPeer) /\ addrs' = addrs \ {p}
                   /\ UNCHANGED <<linked, round, dialing, boot, walk, seek, todo, asked, tried, drops>>

VInit == /\ linked = {} /\ addrs = {} /\ round = [w \in Worker |-> "idle"]
         /\ dialing = [w \in Worker |-> {}] /\ boot = "routing" /\ walk = FALSE
         /\ seek = "idle" /\ todo = <<>> /\ asked = {} /\ tried = {} /\ drops = 0
VNext == \/ \E w \in Worker : \/ \E S \in SUBSET BootPeer : StartRound(w, S)
                              \/ \E p \in BootPeer : DialEnds(w, p)
                              \/ RoundEnds(w) \/ SendDone(w)
         \/ RoutingBootstrap
         \/ \E p \in VPeer : RandomWalk(p) \/ PeerFound(p) \/ Disconnect(p) \/ AddrsExpired(p)
         \/ \E args \in ConnectArgs : ConnectCmd(args)
         \/ ConnectArg \/ FindPeerAddrs \/ DialArg \/ CommandOver
VSpec == VInit /\ [][VNext]_vvars

\* Rounds start with the ticker and their dials end; Bootstrap runs.
\* The subset of a round is random, so a peer that could be in it time
\* and again is in it at some point.
VFairSpec ==
    /\ VSpec
    /\ \A w \in Worker :
         /\ WF_vvars(\E S \in SUBSET BootPeer : StartRound(w, S))
         /\ WF_vvars(\E p \in BootPeer : DialEnds(w, p))
         /\ WF_vvars(RoundEnds(w)) /\ WF_vvars(SendDone(w))
    /\ \A p \in BootPeer :
         SF_vvars(\E S \in SUBSET BootPeer : p \in S /\ StartRound("tick", S))
    /\ WF_vvars(RoutingBootstrap)

-----------------------------------------------------------------------------
(* Properties                                                              *)

\* The supervisor does its work: once connections stop breaking, the node has
\* its minimum of peers for good, or every bootstrap peer that can be reached.
KeepsConnected == <>[](Cardinality(linked) >= MinPeerThreshold \/ (BootPeer \cap Reachable) \subseteq linked)

\* Bootstrap returns, and its first value does not hold up the rounds after it.
RoundsGoOn == /\ <>(boot = "done")
              /\ \A w \in Worker : round[w] = "wait" ~> round[w] # "wait"

\* 'swarm connect' reports success only when each of its peers was linked to
\* at its turn, whatever connects and breaks meanwhile.
ConnectHonest == seek = "ok" => asked \subseteq tried

-----------------------------------------------------------------------------
(***************************************************************************)
(* 'swarm filters add' and 'swarm filters rm' (core/commands/swarm.go):    *)
(* each changes the filters of the running swarm, then the list in the     *)
(* config, and saves it.  Filters are named by strings; two strings may    *)
(* denote the same mask (an address with bits outside the prefix), and a   *)
(* string may be no mask at all.  A restarted daemon takes its filters     *)
(* from the config (startOnlineServices in core/core.go).                  *)
(***************************************************************************)

CONSTANTS FCmd,            \* commands that run concurrently
          FilterArg,       \* filter strings
          MaskOf,          \* [FilterArg -> masks]; "invalid": not a mask
          FOps             \* FOps[c]: the operations command c may perform

VARIABLES active,          \* masks of the running swarm
          fcfg,            \* Swarm.AddrFilters, in memory and on disk
          stage,           \* stage[c]: "idle", "mask", "save", "done", "err"
          fop,             \* fop[c]: the operation, [do, args]
          left,            \* left[c]: arguments whose masks are still to be applied
          torn             \* history: why swarm and config may differ

fsvars == <<active, fcfg, stage, fop, left, torn>>

Masks(S) == {MaskOf[a] : a \in S} \ {"invalid"}
Busy == {c \in FCmd : stage[c] \in {"mask", "save"}}

FStart(c, op) ==
    /\ stage[c] = "idle" /\ op \in FOps[c]
    /\ fop' = [fop EXCEPT ![c] = op] /\ left' = [left EXCEPT ![c] = op.args]
    /\ stage' = [stage EXCEPT ![c] = "mask"]
    /\ torn' = torn \cup {x \in {"race"} : Busy # {}}
    /\ UNCHANGED <<active, fcfg>>

\* The loop over the arguments: one that does not parse ends the command, those
\* before it stay applied.
ApplyMask(c) ==
    /\ stage[c] = "mask" /\ left[c] # <<>>
    /\ LET m == MaskOf[Head(left[c])] IN
         IF m = "invalid"
         THEN /\ stage' = [stage EXCEPT ![c] = "err"] /\ UNCHANGED <<active, left>>
              /\ torn' = torn \cup {x \in {"partial"} : Len(left[c]) < Len(fop[c].args)}
         ELSE /\ active' = IF fop[c].do = "add" THEN active \cup {m} ELSE active \ {m}
              /\ left' = [left EXCEPT ![c] = Tail(@)] /\ UNCHANGED <<stage, torn>>
    /\ UNCHANGED <<fcfg, fop>>
ToSave(c) ==
    /\ stage[c] = "mask" /\ left[c] = <<>> /\ stage' = [stage EXCEPT ![c] = "save"]
    /\ active' = IF fop[c].do = "rmall" THEN {} ELSE active
    /\ UNCHANGED <<fcfg, fop, left, torn>>

\* filtersAdd: the new ones first, each string once; then the old ones.
Unique(s) == FoldLeft(LAMBDA acc, a : IF a \in ToSet(acc) THEN acc ELSE Append(acc, a), <<>>, s)
FiltersAddAll(args, old) == args \o old
FiltersAdd(args, old) == Unique(args \o old)
\* filtersRemove compares strings.
RemoveOneArg(args, old) == SelectSeq(old, LAMBDA a : a # args[1])
FiltersRemove(args, old) == SelectSeq(old, LAMBDA a : a \notin ToSet(args))

SaveFilters(c) ==
    /\ stage[c] = "save" /\ stage' = [stage EXCEPT ![c] = "done"]
    /\ fcfg' = CASE fop[c].do = "add" -> FiltersAdd(fop[c].args, fcfg)
                 [] fop[c].do = "rm" -> FiltersRemove(fop[c].args, fcfg)
                 [] fop[c].do = "rmall" -> <<>>
    \* a removed mask that another string of the config denotes as well
    /\ torn' = torn \cup {x \in {"alias"} : /\ fop[c].do = "rm"
                                            /\ \E a \in ToSet(fcfg) \ ToSet(fop[c].args) :
                                                 MaskOf[a] \in Masks(ToSet(fop[c].args))}
    /\ UNCHANGED <<active, fop, left>>
Again(c) == /\ stage[c] \in {"done", "err"} /\ stage' = [stage EXCEPT ![c] = "idle"]
            /\ UNCHANGED <<active, fcfg, fop, left, torn>>

\* The daemon is stopped and started again.
FRestart == /\ Busy = {} /\ active' = Masks(ToSet(fcfg)) /\ torn' = {}
            /\ UNCHANGED <<fcfg, stage, fop, left>>

FInit == /\ active = {} /\ fcfg = <<>> /\ stage = [c \in FCmd |-> "idle"]
         /\ fop = [c \in FCmd |-> [do |-> "none", args |-> <<>>]]
         /\ left = [c \in FCmd |-> <<>>] /\ torn = {}
FNext == \/ \E c \in FCmd : \/ \E op \in FOps[c] : FStart(c, op)
                            \/ ApplyMask(c) \/ ToSave(c) \/ SaveFilters(c) \/ Again(c)
         \/ FRestart
FSpec == FInit /\ [][FNext]_fsvars

-----------------------------------------------------------------------------
(* Properties                                                              *)

\* Between commands the swarm filters exactly what the config says, so that a
\* restart changes nothing: unless two commands overlapped, one stopped at an
\* argument that does not parse, or a filter was removed under another spelling.
FiltersAgree == (Busy = {} /\ torn = {}) => active = Masks(ToSet(fcfg))

\* The saved list holds no string twice, so that one 'rm' removes it.
FiltersOnce == IsInjective(fcfg)

\* "Filters applied this way will not persist daemon reboots": a restart does
\* bring back what 'swarm filters add' added.
NotPersisted == [][FRestart => active' = {}]_fsvars
=============================================================================
