-------------------------------- MODULE P2P ---------------------------------
(***************************************************************************)
(* The two registries of p2p/registry.go are plain Go slices, changed      *)
(* without a lock by commands and by the goroutines of listeners and       *)
(* streams.  A registry is the heap of its backing arrays and the slice    *)
(* header (array and length).  Appending fills a spare slot of the array   *)
(* or moves to an array twice as large; removing shifts the array in       *)
(* place, so a loop that ranges over the slice sees its elements move.     *)
(* Each change reads the header in one step and stores it in another.      *)
(***************************************************************************)
EXTENDS Naturals, Sequences, FiniteSets

NoEntry == "none"

\* The nil slice.
EmptyRegistry == [mem |-> <<<<>>>>, a |-> 1, n |-> 0]

Header(reg) == [a |-> reg.a, n |-> reg.n]
Entries(reg) == SubSeq(reg.mem[reg.a], 1, reg.n)
Listed(reg) == {Entries(reg)[i] : i \in 1..reg.n}

\* append(c.Listeners, x) for the header h read before.
Appended(reg, h, x) ==
    IF h.n < Len(reg.mem[h.a])
    THEN [mem |-> [reg.mem EXCEPT ![h.a][h.n + 1] = x], a |-> h.a, n |-> h.n + 1]
    ELSE LET bigger == [i \in 1..(IF h.n = 0 THEN 1 ELSE 2 * h.n) |->
                          CASE i <= h.n -> reg.mem[h.a][i] [] i = h.n + 1 -> x [] OTHER -> NoEntry]
         IN [mem |-> Append(reg.mem, bigger), a |-> Len(reg.mem) + 1, n |-> h.n + 1]

\* append(c.Listeners[:i], c.Listeners[i+1:]...) for the header h read before.
SplicedTail(reg, h, i) ==
    [mem |-> [reg.mem EXCEPT ![h.a] = [j \in 1..Len(@) |-> IF i < j /\ j < h.n THEN @[j + 1] ELSE @[j]]],
     a |-> h.a, n |-> h.n - 1]
Spliced(reg, h, i) ==
    [mem |-> [reg.mem EXCEPT ![h.a] = [j \in 1..Len(@) |-> IF i <= j /\ j < h.n THEN @[j + 1] ELSE @[j]]],
     a |-> h.a, n |-> h.n - 1]

\* The places of h with one of the entries sought; Deregister takes the first.
Deregistered(reg, h, sought) ==
    LET found == {i \in 1..h.n : reg.mem[h.a][i] \in sought}
    IN IF found = {} THEN reg
       ELSE Spliced(reg, h, CHOOSE i \in found : \A j \in found : i <= j)

-----------------------------------------------------------------------------
(***************************************************************************)
(* Listeners of 'p2p listener open' and 'close' (core/commands/p2p.go,     *)
(* p2p/p2p.go, p2p/registry.go).  Opening checks that the protocol has no  *)
(* handler, sets one, starts the accept loop and registers the listener.   *)
(* Closing walks the registry, cancels the listener, removes the handler   *)
(* of its protocol and deregisters it; the accept loop, when it sees the   *)
(* cancellation, removes the handler and deregisters the protocol again.   *)
(* Connections that are accepted become streams.                           *)
(***************************************************************************)

CONSTANTS Listener,     \* listeners that commands open, each once
          Protos,       \* choices of the protocol of each: functions on Listener
          Closer,       \* close commands
          Wants         \* what a close command names: protocols and "all"

VARIABLES protoOf,      \* the protocol of each listener
          opener,       \* its open command: "idle", "checked", "register", "store", "opened", "refused"
          cancelled,    \* listeners whose context was cancelled
          loop,         \* their accept loops: "none", "accept", "close", "deregister", "store", "over"
          mux,          \* the handler of each protocol on the host
          registry,     \* p2p.Listeners
          loaded,       \* the header that each of the goroutines read for its change
          closer,       \* the close commands (ghosts: what each names, whether a listener was opened meanwhile)
          crossed,      \* ghost: listeners opened while the protocol was being opened or closed
          raced         \* ghost: two changes of the registry overlapped

zvars == <<protoOf, opener, cancelled, loop, mux, registry, loaded, closer, crossed, raced>>

NoHeader == [a |-> 0, n |-> 0]
Actor == ({"open", "loop"} \X Listener) \cup ({"close"} \X Closer)
NotClosing == [at |-> "idle", want |-> "all", view |-> NoHeader, i |-> 1, cur |-> NoEntry, named |-> {}, met |-> FALSE]

ZInit ==
    /\ protoOf \in Protos
    /\ opener = [l \in Listener |-> "idle"]
    /\ cancelled = {}
    /\ loop = [l \in Listener |-> "none"]
    /\ mux = [p \in {protoOf[l] : l \in Listener} |-> NoEntry]
    /\ registry = EmptyRegistry
    /\ loaded = [x \in Actor |-> NoHeader]
    /\ closer = [c \in Closer |-> NotClosing]
    /\ crossed = {}
    /\ raced = FALSE

\* Other open commands of l's protocol that are under way, and cancelled listeners
\* of it whose accept loop has not ended.
Busy(l) ==
    {k \in Listener \ {l} : protoOf[k] = protoOf[l] /\ (opener[k] = "checked" \/ (k \in cancelled /\ loop[k] # "over"))}
\* A close command is between closing a listener of p and deregistering it.
Closing(p) == \E c \in Closer : closer[c].cur # NoEntry /\ protoOf[closer[c].cur] = p

\* A goroutine reads the slice header for its change.
Load(x) ==
    /\ loaded' = [loaded EXCEPT ![x] = Header(registry)]
    /\ raced' = (raced \/ \E y \in Actor \ {x} : loaded[y] # NoHeader)
Stored(x) == loaded' = [loaded EXCEPT ![x] = NoHeader]

CheckProtoExists(p) == mux[p] # NoEntry

\* p2pListenerListenCmd refuses a protocol that has a handler.
CheckAlways(l) ==
    /\ opener[l] = "idle"
    /\ opener' = [opener EXCEPT ![l] = "checked"]
    /\ UNCHANGED <<protoOf, cancelled, loop, mux, registry, loaded, closer, crossed, raced>>
CheckProto(l) ==
    /\ opener[l] = "idle"
    /\ opener' = [opener EXCEPT ![l] = IF CheckProtoExists(protoOf[l]) THEN "refused" ELSE "checked"]
    /\ UNCHANGED <<protoOf, cancelled, loop, mux, registry, loaded, closer, crossed, raced>>

\* registerStreamHandler, and the accept loop starts.
SetHandler(l) ==
    /\ opener[l] = "checked"
    /\ mux' = [mux EXCEPT ![protoOf[l]] = l]
    /\ opener' = [opener EXCEPT ![l] = "register"]
    /\ loop' = [loop EXCEPT ![l] = "accept"]
    /\ crossed' = crossed \cup Busy(l) \cup (IF Busy(l) # {} \/ Closing(protoOf[l]) THEN {l} ELSE {})
    /\ UNCHANGED <<protoOf, cancelled, registry, loaded, closer, raced>>

RegisterLoad(l) ==
    /\ opener[l] = "register"
    /\ Load(<<"open", l>>)
    /\ opener' = [opener EXCEPT ![l] = "store"]
    /\ UNCHANGED <<protoOf, cancelled, loop, mux, registry, closer, crossed>>
RegisterStore(l) ==
    /\ opener[l] = "store"
    /\ registry' = Appended(registry, loaded[<<"open", l>>], l)
    /\ opener' = [opener EXCEPT ![l] = "opened"]
    /\ closer' = [c \in Closer |-> [closer[c] EXCEPT !.met = TRUE]]
    /\ Stored(<<"open", l>>)
    /\ UNCHANGED <<protoOf, cancelled, loop, mux, crossed, raced>>

\* The accept loop: Accept fails once the listener is cancelled, the loop closes
\* it and deregisters its protocol.
AcceptGoesOn(l) ==
    /\ loop[l] = "accept" /\ l \in cancelled
    /\ UNCHANGED zvars
AcceptFails(l) ==
    /\ loop[l] = "accept" /\ l \in cancelled
    /\ loop' = [loop EXCEPT ![l] = "close"]
    /\ UNCHANGED <<protoOf, opener, cancelled, mux, registry, loaded, closer, crossed, raced>>
LoopCloses(l) ==
    /\ loop[l] = "close"
    /\ mux' = [mux EXCEPT ![protoOf[l]] = NoEntry]
    /\ loop' = [loop EXCEPT ![l] = "deregister"]
    /\ UNCHANGED <<protoOf, opener, cancelled, registry, loaded, closer, crossed, raced>>
LoopLoad(l) ==
    /\ loop[l] = "deregister"
    /\ Load(<<"loop", l>>)
    /\ loop' = [loop EXCEPT ![l] = "store"]
    /\ UNCHANGED <<protoOf, opener, cancelled, mux, registry, closer, crossed>>
\* Deregister removes the first listener of the protocol.
OtherProto(p, k) == protoOf[k] # p
SameProto(p, k) == protoOf[k] = p

LoopStore(l) ==
    /\ loop[l] = "store"
    /\ registry' = Deregistered(registry, loaded[<<"loop", l>>],
                               {k \in Listener : SameProto(protoOf[l], k)})
    /\ loop' = [loop EXCEPT ![l] = "over"]
    /\ Stored(<<"loop", l>>)
    /\ UNCHANGED <<protoOf, opener, cancelled, mux, closer, crossed, raced>>

Named(w, l) == w = "all" \/ protoOf[l] = w

\* p2pListenerCloseCmd ranges over the slice as it is now.
CloseStart(c, w) ==
    /\ closer[c].at = "idle"
    /\ closer' = [closer EXCEPT ![c] = [at |-> "next", want |-> w, view |-> Header(registry), i |-> 1, cur |-> NoEntry,
                                        named |-> {l \in Listed(registry) : Named(w, l)}, met |-> FALSE]]
    /\ UNCHANGED <<protoOf, opener, cancelled, loop, mux, registry, loaded, crossed, raced>>
CloseEnds(c) ==
    /\ closer[c].at = "next" /\ closer[c].i > closer[c].view.n
    /\ closer' = [closer EXCEPT ![c].at = "over"]
    /\ UNCHANGED <<protoOf, opener, cancelled, loop, mux, registry, loaded, crossed, raced>>
CloseNext(c) ==
    LET l == registry.mem[closer[c].view.a][closer[c].i] IN
    /\ closer[c].at = "next" /\ closer[c].i <= closer[c].view.n
    /\ IF Named(closer[c].want, l)
       THEN /\ cancelled' = cancelled \cup {l}
            /\ mux' = [mux EXCEPT ![protoOf[l]] = NoEntry]
            /\ closer' = [closer EXCEPT ![c].at = "deregister", ![c].cur = l]
            /\ crossed' = IF l \in cancelled THEN crossed \cup {k \in Listener : protoOf[k] = protoOf[l]} ELSE crossed
       ELSE /\ closer' = [closer EXCEPT ![c].i = @ + 1]
            /\ UNCHANGED <<cancelled, mux, crossed>>
    /\ UNCHANGED <<protoOf, opener, loop, registry, loaded, raced>>
CloseLoad(c) ==
    /\ closer[c].at = "deregister"
    /\ Load(<<"close", c>>)
    /\ closer' = [closer EXCEPT ![c].at = "store"]
    /\ UNCHANGED <<protoOf, opener, cancelled, loop, mux, registry, crossed>>
\* The loop ends with the first match unless all are closed.
AfterFirst(w) == "over"
After(w) == IF w = "all" THEN "next" ELSE "over"
CloseStore(c) ==
    /\ closer[c].at = "store"
    /\ registry' = Deregistered(registry, loaded[<<"close", c>>],
                               {k \in Listener : SameProto(protoOf[closer[c].cur], k)})
    /\ closer' = [closer EXCEPT ![c].at = After(closer[c].want), ![c].i = @ + 1,
                                 ![c].cur = NoEntry]
    /\ Stored(<<"close", c>>)
    /\ UNCHANGED <<protoOf, opener, cancelled, loop, mux, crossed, raced>>

ZNext ==
    \/ \E l \in Listener : CheckProto(l) \/ SetHandler(l) \/ RegisterLoad(l) \/ RegisterStore(l)
    \/ \E l \in Listener : AcceptFails(l) \/ LoopCloses(l) \/ LoopLoad(l) \/ LoopStore(l)
    \/ \E c \in Closer, w \in Wants : CloseStart(c, w)
    \/ \E c \in Closer : CloseNext(c) \/ CloseEnds(c) \/ CloseLoad(c) \/ CloseStore(c)

ZSpec == ZInit /\ [][ZNext]_zvars
\* The accept loops are goroutines that nothing blocks once they are cancelled.
ZFairSpec == ZSpec /\ \A l \in Listener : WF_zvars(AcceptFails(l) \/ LoopCloses(l) \/ LoopLoad(l) \/ LoopStore(l))

\* An open listener that was not closed keeps the handler of its protocol, unless
\* the protocol was being opened or closed by another command then, an older
\* listener's accept loop had still to end, or 'close -a' closed an older one twice.
OpenServed ==
    \A l \in Listener \ (cancelled \cup crossed) :
       opener[l] \in {"register", "store", "opened"} => mux[protoOf[l]] = l

\* When no two changes of the registry overlapped, 'p2p listener ls' shows every
\* open listener once, and none whose accept loop has ended.
ListedExact ==
    ~raced =>
      /\ \A l \in Listener \ (cancelled \cup crossed) : opener[l] = "opened" => l \in Listed(registry)
      /\ \A i, j \in 1..registry.n : Entries(registry)[i] = Entries(registry)[j] => i = j
      /\ \A l \in Listed(registry) \ crossed : loop[l] # "over"

\* With no other change of the registry meanwhile, 'close proto' closes the listed
\* listener of that protocol, and 'close -a' all that were listed when there were
\* at most two.
CloseCloses ==
    \A c \in Closer : closer[c].at = "over" /\ ~raced /\ ~closer[c].met =>
       LET named == closer[c].named IN
       (Cardinality(named) = 1 \/ (closer[c].want = "all" /\ closer[c].view.n <= 2)) => named \subseteq cancelled

\* "Close all listeners": 'close -a' closes every listener that was listed.
CloseAllCloses ==
    \A c \in Closer : closer[c].at = "over" /\ ~raced /\ ~closer[c].met /\ closer[c].want = "all" => closer[c].named \subseteq cancelled

\* A listener that was closed is served no longer: its accept loop ends.
ClosedGone == \A l \in Listener : (l \in cancelled) ~> (loop[l] = "over")

-----------------------------------------------------------------------------
(***************************************************************************)
(* Streams of 'p2p stream dial', 'close' and of the listeners (p2p/p2p.go, *)
(* p2p/registry.go, core/commands/p2p.go).  A stream joins a local         *)
(* connection and a stream of a peer; it is registered under the next      *)
(* HandlerID and copied by two goroutines.  Each, when its copy ends,      *)
(* closes or resets both ends and deregisters the stream, as the close     *)
(* command does.  Close of the peer's stream ends only the writing half.   *)
(***************************************************************************)

CONSTANTS NStreams,     \* streams, established in the order of their numbers
          Killer,       \* stream close commands
          MaxEnds       \* how often an application or a peer ends its side

Stream == 1..NStreams

VARIABLES estab,        \* how far a stream is: "none", "listening", "store", "on", "refused", "leaked"
          ends,         \* its two ends: [local |-> "open" | "eof" | "closed", remote |-> "open" | "eof" | "half" | "reset"]
          copier,       \* its goroutines: "none", "copy", "deregister", "done"
          handlerID,    \* the HandlerID it was given
          nextID,
          sregistry,    \* p2p.Streams
          sloaded,      \* header (and next identifier) that each goroutine read for its change
          killer,       \* the close commands
          nends,        \* sides ended from outside
          sraced        \* ghost: two changes of the registry overlapped

jvars == <<estab, ends, copier, handlerID, nextID, sregistry, sloaded, killer, nends, sraced>>

In == "in"      \* io.Copy(s.Local, s.Remote)
Out == "out"    \* io.Copy(s.Remote, s.Local)
SActor == ({"new", In, Out} \X Stream) \cup ({"kill"} \X Killer)
NotLoaded == [a |-> 0, n |-> 0, id |-> 0]
NoKill == [at |-> "idle", all |-> FALSE, id |-> 0, view |-> NotLoaded, i |-> 1, cur |-> 0, hit |-> {}]

JInit ==
    /\ estab = [s \in Stream |-> "none"]
    /\ ends = [s \in Stream |-> [local |-> "open", remote |-> "open"]]
    /\ copier = [s \in Stream |-> [k \in {In, Out} |-> "none"]]
    /\ handlerID = [s \in Stream |-> 0]
    /\ nextID = 0
    /\ sregistry = EmptyRegistry
    /\ sloaded = [x \in SActor |-> NotLoaded]
    /\ killer = [q \in Killer |-> NoKill]
    /\ nends = 0
    /\ sraced = FALSE

SLoad(x) ==
    /\ sloaded' = [sloaded EXCEPT ![x] = [a |-> sregistry.a, n |-> sregistry.n, id |-> nextID]]
    /\ sraced' = (sraced \/ \E y \in SActor \ {x} : sloaded[y] # NotLoaded)
SStored(x) == sloaded' = [sloaded EXCEPT ![x] = NotLoaded]

IsNext(s) == estab[s] = "none" /\ \A t \in 1..(s - 1) : estab[t] # "none"

\* acceptStreams: the peer's stream is taken and the local address dialled, or
\* the dial fails and the stream is reset.
AcceptStream(s) ==
    /\ IsNext(s)
    /\ \/ estab' = [estab EXCEPT ![s] = "store"] /\ SLoad(<<"new", s>>) /\ UNCHANGED ends
       \/ /\ estab' = [estab EXCEPT ![s] = "refused"]
          /\ ends' = [ends EXCEPT ![s].remote = "reset"]
          /\ UNCHANGED <<sloaded, sraced>>
    /\ UNCHANGED <<copier, handlerID, nextID, sregistry, killer, nends>>

\* Dial: the stream to the peer, then a listener for one connection.  When the
\* address cannot be bound the stream is reset; for an address that is not TCP
\* it is left open.
Dial(s) ==
    \/ estab' = [estab EXCEPT ![s] = "listening"] /\ UNCHANGED ends
    \/ /\ estab' = [estab EXCEPT ![s] = "refused"]
       /\ ends' = [ends EXCEPT ![s].remote = "reset"]
    \/ estab' = [estab EXCEPT ![s] = "leaked"] /\ UNCHANGED ends

\* p2pStreamDialCmd.
StreamDial(s) ==
    /\ IsNext(s)
    /\ Dial(s)
    /\ UNCHANGED <<copier, handlerID, nextID, sregistry, sloaded, killer, sraced, nends>>

\* doAccept: the application connects, or Accept fails and the stream stays open.
DoAccept(s) ==
    /\ estab[s] = "listening"
    /\ \/ estab' = [estab EXCEPT ![s] = "store"] /\ SLoad(<<"new", s>>)
       \/ estab' = [estab EXCEPT ![s] = "leaked"] /\ UNCHANGED <<sloaded, sraced>>
    /\ UNCHANGED <<ends, copier, handlerID, nextID, sregistry, killer, nends>>

\* StreamRegistry.Register, whose header was read when the connection was made,
\* and startStreaming.
SameID(id) == id
NextID(id) == id + 1
NewStore(s) ==
    LET h == sloaded[<<"new", s>>] IN
    /\ estab[s] = "store"
    /\ handlerID' = [handlerID EXCEPT ![s] = h.id]
    /\ nextID' = NextID(h.id)
    /\ sregistry' = Appended(sregistry, h, s)
    /\ estab' = [estab EXCEPT ![s] = "on"]
    /\ copier' = [copier EXCEPT ![s] = [k \in {In, Out} |-> "copy"]]
    /\ SStored(<<"new", s>>)
    /\ UNCHANGED <<ends, killer, sraced, nends>>

\* The application or the peer ends its side.
LocalEnds(s) ==
    /\ estab[s] = "on" /\ ends[s].local = "open"
    /\ nends < MaxEnds /\ nends' = nends + 1
    /\ ends' = [ends EXCEPT ![s].local = "eof"]
    /\ UNCHANGED <<estab, copier, handlerID, nextID, sregistry, sloaded, killer, sraced>>
RemoteEnds(s) ==
    /\ estab[s] = "on" /\ ends[s].remote \in {"open", "half"}
    /\ nends < MaxEnds /\ nends' = nends + 1
    /\ \E how \in {"eof", "reset"} : ends' = [ends EXCEPT ![s].remote = how]
    /\ UNCHANGED <<estab, copier, handlerID, nextID, sregistry, sloaded, killer, sraced>>

\* StreamInfo.Close and Reset, up to their Deregister: they go on to read the
\* header of the registry in the same step.
ClosedEnds(e) == [local |-> "closed", remote |-> IF e.remote = "open" THEN "half" ELSE e.remote]
ResetHalf(e) == ClosedEnds(e)
ResetEnds(e) == [local |-> "closed", remote |-> "reset"]

\* A copy ends when its source does: cleanly at the end of the data, with an error
\* when that end was closed here or reset.
Source(s, k) == IF k = In THEN ends[s].remote ELSE ends[s].local
CopyEnds(s, k) ==
    /\ copier[s][k] = "copy"
    /\ Source(s, k) \in {"eof", "closed", "reset"}
    /\ ends' = [ends EXCEPT ![s] = IF Source(s, k) = "eof" THEN ClosedEnds(@) ELSE ResetEnds(@)]
    /\ copier' = [copier EXCEPT ![s][k] = "deregister"]
    /\ SLoad(<<k, s>>)
    /\ UNCHANGED <<estab, handlerID, nextID, sregistry, killer, nends>>
\* Data arrived that cannot be written to the other end.
WriteFails(s, k) ==
    /\ copier[s][k] = "copy"
    /\ IF k = In THEN ends[s].local # "open" ELSE ends[s].remote # "open"
    /\ ends' = [ends EXCEPT ![s] = ResetEnds(@)]
    /\ copier' = [copier EXCEPT ![s][k] = "deregister"]
    /\ SLoad(<<k, s>>)
    /\ UNCHANGED <<estab, handlerID, nextID, sregistry, killer, nends>>
CopyStore(s, k) ==
    /\ copier[s][k] = "deregister"
    /\ sregistry' = Deregistered(sregistry, sloaded[<<k, s>>],
                                {r \in DOMAIN handlerID : handlerID[r] = handlerID[s]})
    /\ copier' = [copier EXCEPT ![s][k] = "done"]
    /\ SStored(<<k, s>>)
    /\ UNCHANGED <<estab, ends, handlerID, nextID, killer, sraced, nends>>

\* p2pStreamCloseCmd, for one HandlerID or all, over the slice as it is now.
KillStart(q, all, id) ==
    /\ killer[q].at = "idle"
    /\ killer' = [killer EXCEPT ![q] = [NoKill EXCEPT !.at = "next", !.all = all, !.id = id,
                                         !.view = [a |-> sregistry.a, n |-> sregistry.n, id |-> 0]]]
    /\ UNCHANGED <<estab, ends, copier, handlerID, nextID, sregistry, sloaded, sraced, nends>>
KillOver(q) == [NoKill EXCEPT !.at = "over", !.hit = killer[q].hit]
KillEnds(q) ==
    /\ killer[q].at = "next" /\ killer[q].i > killer[q].view.n
    /\ killer' = [killer EXCEPT ![q] = KillOver(q)]
    /\ UNCHANGED <<estab, ends, copier, handlerID, nextID, sregistry, sloaded, sraced, nends>>
KillNext(q) ==
    LET s == sregistry.mem[killer[q].view.a][killer[q].i] IN
    /\ killer[q].at = "next" /\ killer[q].i <= killer[q].view.n
    /\ IF killer[q].all \/ handlerID[s] = killer[q].id
       THEN /\ ends' = [ends EXCEPT ![s] = ClosedEnds(@)]
            /\ killer' = [killer EXCEPT ![q].at = "deregister", ![q].cur = s, ![q].hit = @ \cup {s}]
            /\ SLoad(<<"kill", q>>)
       ELSE killer' = [killer EXCEPT ![q].i = @ + 1] /\ UNCHANGED <<ends, sloaded, sraced>>
    /\ UNCHANGED <<estab, copier, handlerID, nextID, sregistry, nends>>
KillStore(q) ==
    /\ killer[q].at = "deregister"
    /\ sregistry' = Deregistered(sregistry, sloaded[<<"kill", q>>],
           {r \in DOMAIN handlerID : handlerID[r] = handlerID[killer[q].cur]})
    /\ killer' = [killer EXCEPT ![q] = IF @.all THEN [@ EXCEPT !.at = "next", !.i = @ + 1, !.cur = 0] ELSE KillOver(q)]
    /\ SStored(<<"kill", q>>)
    /\ UNCHANGED <<estab, ends, copier, handlerID, nextID, sraced, nends>>

JNext ==
    \/ \E s \in Stream : AcceptStream(s) \/ StreamDial(s) \/ DoAccept(s) \/ NewStore(s)
    \/ \E s \in Stream : LocalEnds(s) \/ RemoteEnds(s)
    \/ \E s \in Stream, k \in {In, Out} : CopyEnds(s, k) \/ WriteFails(s, k) \/ CopyStore(s, k)
    \/ \E q \in Killer : KillStart(q, TRUE, 0) \/ KillStart(q, FALSE, 0)
    \/ \E q \in Killer : KillNext(q) \/ KillEnds(q) \/ KillStore(q)

JSpec == JInit /\ [][JNext]_jvars
\* The goroutines of a stream run once a copy has ended.
JFairSpec == JSpec /\ \A s \in Stream, k \in {In, Out} : WF_jvars(CopyEnds(s, k) \/ CopyStore(s, k))

\* When no two changes of the registry overlapped, every stream being copied is
\* listed under an identifier of its own, and no stream whose copies have ended.
StreamsListed ==
    ~sraced =>
      /\ \A s \in Stream : (\A k \in {In, Out} : copier[s][k] = "copy") /\ (\A q \in Killer : s \notin killer[q].hit)
                             => s \in Listed(sregistry)
      /\ \A s, t \in Listed(sregistry) : handlerID[s] = handlerID[t] => s = t
      /\ \A s \in Listed(sregistry) : \E k \in {In, Out} : copier[s][k] # "done"

\* A stream closed by a command or by its reading goroutine while the application
\* was being read ends altogether: the failing read resets the peer's stream, so
\* that the other goroutine is not left waiting for the peer.
StreamEnds ==
    \A s \in Stream : (ends[s].local = "closed" /\ copier[s][Out] = "copy")
                          ~> (\A k \in {In, Out} : copier[s][k] = "done")
=============================================================================
