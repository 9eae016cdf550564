------------------------------- MODULE Host ---------------------------------
(***************************************************************************)
(* Connections to a peer and how they are identified: BasicHost.Connect,   *)
(* dialPeer and newConnHandler (basic_host.go), IDService.IdentifyConn,    *)
(* responseHandler, consumeMessage and the Disconnected notification       *)
(* (identify/id.go), and what 'swarm connect' and 'swarm disconnect' do    *)
(* with them (core/commands/swarm.go).                                     *)
(*                                                                         *)
(* One remote peer, several connections to it.  The swarm, which opens and *)
(* closes connections and calls the handlers, is external.  Each           *)
(* connection has a handler goroutine, and each caller of Connect that     *)
(* dials has a goroutine that identifies: both run IdentifyConn.           *)
(***************************************************************************)
EXTENDS FiniteSets, Integers

CONSTANTS Link,           \* connections
          Caller          \* callers of Connect

Agent == Link \cup Caller

VARIABLES conn,           \* conn[c]: "new", "open", "closed"
          notice,         \* connections whose Disconnected is not yet handled
          currid,         \* IDService.currid, the connections in it
          chan,           \* chan[c]: the channel of its identification
          protos,         \* the peerstore has the peer's protocols
          ttl,            \* TTL of the peer's addresses in the peerstore
          at,             \* at[a]: where an agent is in IdentifyConn
          on,             \* on[a]: the connection it identifies
          call,           \* call[d]: "idle", "dial", "wait", "ok", "err"
          undone          \* history: why protocols may be missing, since they
                          \* were last set: "raced", "failed", "stale"

ivars == <<conn, notice, currid, chan, protos, ttl, at, on, call, undone>>

Open == {c \in Link : conn[c] = "open"}
Connected == Open # {}
Go(a, l) == at' = [at EXCEPT ![a] = l]

\* Peerstore.AddAddrs keeps the larger TTL.
Rank(t) == CASE t = "none" -> 0 [] t = "temp" -> 1 [] t = "recent" -> 2 [] t = "connected" -> 3
AddAddrs(t) == ttl' = IF Rank(t) > Rank(ttl) THEN t ELSE ttl

-----------------------------------------------------------------------------
(* The swarm (external): connections come and go.                          *)

\* A connection is added; its handler goroutine starts.
Opened(c) == conn' = [conn EXCEPT ![c] = "open"]
Inbound(c) ==
    /\ conn[c] = "new" /\ Opened(c)
    /\ at' = [at EXCEPT ![c] = "clear"] /\ on' = [on EXCEPT ![c] = c]
    /\ UNCHANGED <<notice, currid, chan, protos, ttl, call, undone>>

Shut(S) == /\ conn' = [c \in Link |-> IF c \in S THEN "closed" ELSE conn[c]]
           /\ notice' = notice \cup (S \cap Open)

\* The remote end, or conn.Close of 'swarm disconnect' with an address.
CloseConn(c) == /\ c \in Open /\ Shut({c})
                /\ UNCHANGED <<currid, chan, protos, ttl, at, on, call, undone>>
\* net.ClosePeer of 'swarm disconnect' with a peer ID.
ClosePeer == /\ Connected /\ Shut(Open)
             /\ UNCHANGED <<currid, chan, protos, ttl, at, on, call, undone>>

\* netNotifiee.Disconnected, under addrMu.
Downgraded == IF ~Connected /\ ttl = "connected" THEN "recent" ELSE ttl
Disconnected(c) ==
    /\ c \in notice /\ notice' = notice \ {c}
    /\ ttl' = Downgraded
    /\ UNCHANGED <<conn, currid, chan, protos, at, on, call, undone>>

-----------------------------------------------------------------------------
(* BasicHost.Connect and dialPeer                                          *)

Connect(d) ==
    /\ call[d] = "idle" /\ AddAddrs("temp")
    /\ call' = [call EXCEPT ![d] = IF Connected THEN "ok" ELSE "dial"]
    /\ UNCHANGED <<conn, notice, currid, chan, protos, at, on, undone>>

\* DialPeer returns a connection that exists, or a new one, whose handler the
\* swarm starts, or an error.
DialPeer(d) ==
    /\ call[d] = "dial"
    /\ \/ \E c \in Link :
            /\ \/ conn[c] = "open" /\ UNCHANGED conn /\ at' = [at EXCEPT ![d] = "clear"]
                    /\ on' = [on EXCEPT ![d] = c]
               \/ conn[c] = "new" /\ ~Connected /\ Opened(c)
                    /\ at' = [at EXCEPT ![d] = "clear", ![c] = "clear"]
                    /\ on' = [on EXCEPT ![d] = c, ![c] = c]
            /\ call' = [call EXCEPT ![d] = "wait"]
       \/ call' = [call EXCEPT ![d] = "err"] /\ UNCHANGED <<conn, at, on>>
    /\ UNCHANGED <<notice, currid, chan, protos, ttl, undone>>

\* The identification is done, or the context is first: its goroutine goes on.
ConnectReturns(d) ==
    /\ call[d] = "wait"
    /\ \/ at[d] = "done" /\ call' = [call EXCEPT ![d] = "ok"]
       \/ call' = [call EXCEPT ![d] = "err"]
    /\ UNCHANGED <<conn, notice, currid, chan, protos, ttl, at, on, undone>>

\* A caller comes back later.
CallAgain(d) ==
    /\ call[d] \in {"ok", "err"} /\ at[d] \in {"idle", "done"}
    /\ call' = [call EXCEPT ![d] = "idle"] /\ Go(d, "idle")
    /\ UNCHANGED <<conn, notice, currid, chan, protos, ttl, on, undone>>

-----------------------------------------------------------------------------
(* newConnHandler and dialPeer: clear the protocols, then IdentifyConn.    *)

\* An identification of c that has set the protocols and not yet ended.
SetBy(a) == at[a] \in {"addrs", "leave"} /\ protos
ClearProtocols(a) ==
    /\ at[a] = "clear" /\ Go(a, "enter")
    /\ protos' = FALSE
    /\ undone' = undone \cup {r \in {"raced"} : \E b \in Agent \ {a} : SetBy(b)}
    /\ UNCHANGED <<conn, notice, currid, chan, ttl, on, call>>

\* The first to come identifies, the others wait for it.
EnterAlways(a) ==
    /\ at[a] = "enter" /\ Go(a, "open")
    /\ currid' = currid \cup {on[a]} /\ chan' = [chan EXCEPT ![on[a]] = "made"]
    /\ UNCHANGED <<conn, notice, protos, ttl, on, call, undone>>
Enter(a) ==
    /\ at[a] = "enter"
    /\ IF on[a] \in currid
       THEN /\ Go(a, "wait") /\ UNCHANGED <<currid, chan>>
            /\ undone' = undone \cup {r \in {"stale"} : chan[on[a]] = "closed"}
       ELSE /\ currid' = currid \cup {on[a]} /\ chan' = [chan EXCEPT ![on[a]] = "made"]
            /\ Go(a, "open") /\ UNCHANGED undone
    /\ UNCHANGED <<conn, notice, protos, ttl, on, call>>

WaitIdentified(a) == /\ at[a] = "wait" /\ chan[on[a]] = "closed" /\ Go(a, "done")
                     /\ UNCHANGED <<conn, notice, currid, chan, protos, ttl, on, call, undone>>

\* A stream that cannot be opened: the connection is closed and the entry stays
\* in currid, its channel closed.
OpenFails(a) ==
    /\ at[a] = "open" /\ Go(a, "done")
    /\ chan' = [chan EXCEPT ![on[a]] = "closed"] /\ Shut({on[a]})
    /\ undone' = undone \cup {"failed"}
    /\ UNCHANGED <<currid, protos, ttl, on, call>>
OpenStream(a) == /\ at[a] = "open" /\ conn[on[a]] = "open" /\ Go(a, "select")
                 /\ UNCHANGED <<conn, notice, currid, chan, protos, ttl, on, call, undone>>
\* The same entry stays when the protocol cannot be selected.
SelectFails(a) == /\ at[a] = "select" /\ Go(a, "done")
                  /\ chan' = [chan EXCEPT ![on[a]] = "closed"]
                  /\ undone' = undone \cup {"failed"}
                  /\ UNCHANGED <<conn, notice, currid, protos, ttl, on, call>>

\* responseHandler: no message, or consumeMessage, which first sets the protocols.
ReadFails(a) == /\ at[a] = "select" /\ Go(a, "leave")
                /\ undone' = undone \cup {"failed"}
                /\ UNCHANGED <<conn, notice, currid, chan, protos, ttl, on, call>>
SetProtocols(a) == /\ at[a] = "select" /\ conn[on[a]] = "open" /\ Go(a, "addrs")
                   /\ protos' = TRUE /\ undone' = {}
                   /\ UNCHANGED <<conn, notice, currid, chan, ttl, on, call>>

\* consumeMessage: the addresses, under addrMu, then the version check, which
\* may close the connection.
TtlBlind == "connected"
TtlNow == IF Connected THEN "connected" ELSE "recent"
ConsumeAddrs(a) ==
    /\ at[a] = "addrs" /\ Go(a, "leave")
    /\ AddAddrs(TtlNow)
    /\ \/ UNCHANGED <<conn, notice>>
       \/ Shut({on[a]})
    /\ UNCHANGED <<currid, chan, protos, on, call, undone>>

\* IdentifyConn ends: the entry is deleted, the channel closed.
LeaveSilently(a) ==
    /\ at[a] = "leave" /\ Go(a, "done")
    /\ currid' = currid \ {on[a]}
    /\ UNCHANGED <<conn, notice, chan, protos, ttl, on, call, undone>>
LeaveClearing(a) ==
    /\ at[a] = "leave" /\ Go(a, "done")
    /\ currid' = currid \ {on[a]} /\ chan' = [chan EXCEPT ![on[a]] = "closed"]
    /\ protos' = FALSE
    /\ UNCHANGED <<conn, notice, ttl, on, call, undone>>
Leave(a) ==
    /\ at[a] = "leave" /\ Go(a, "done")
    /\ currid' = currid \ {on[a]} /\ chan' = [chan EXCEPT ![on[a]] = "closed"]
    /\ UNCHANGED <<conn, notice, protos, ttl, on, call, undone>>

Step(a) == \/ ClearProtocols(a) \/ Enter(a) \/ WaitIdentified(a) \/ OpenFails(a) \/ OpenStream(a)
           \/ SelectFails(a) \/ ReadFails(a) \/ SetProtocols(a) \/ ConsumeAddrs(a) \/ Leave(a)

IInit ==
    /\ conn = [c \in Link |-> "new"] /\ notice = {} /\ currid = {}
    /\ chan = [c \in Link |-> "none"] /\ protos = FALSE /\ ttl = "none"
    /\ at = [a \in Agent |-> "idle"] /\ on = [a \in Agent |-> CHOOSE c \in Link : TRUE]
    /\ call = [d \in Caller |-> "idle"] /\ undone = {}

INext ==
    \/ \E c \in Link : Inbound(c) \/ CloseConn(c) \/ Disconnected(c)
    \/ ClosePeer
    \/ \E d \in Caller : Connect(d) \/ DialPeer(d) \/ ConnectReturns(d) \/ CallAgain(d)
    \/ \E a \in Agent : Step(a)
ISpec == IInit /\ [][INext]_ivars

\* The goroutines run, the network answers or fails, notifications are handled.
IFairSpec == /\ ISpec
             /\ \A a \in Agent : WF_ivars(Step(a))
             /\ \A c \in Link : WF_ivars(Disconnected(c))
             /\ \A d \in Caller : WF_ivars(DialPeer(d)) /\ WF_ivars(at[d] = "done" /\ ConnectReturns(d))

-----------------------------------------------------------------------------
(* Properties                                                              *)

Identifying(c) == {a \in Agent : on[a] = c /\ at[a] \in {"open", "select", "addrs", "leave"}}

\* A connection is identified by one goroutine at a time, and while one does its
\* channel is open, so that those who come meanwhile wait for it.
OneIdentifies ==
    \A c \in Link : /\ Cardinality(Identifying(c)) <= 1
                    /\ Identifying(c) # {} => c \in currid /\ chan[c] = "made"

\* The peer's addresses are kept for as long as it is connected, and no longer:
\* when no connection is left and the notifications of their end were handled,
\* no identification, however late, leaves them with the TTL of a connection.
AddrsExpire == (~Connected /\ notice = {}) => ttl # "connected"

\* dialPeer "makes sure to identify the connection once it has been opened":
\* when every goroutine is done and a connection is open, the peer's protocols
\* are known, unless since they were last set an identification failed (each one
\* clears what another had learned), found a stale entry of a failed one in
\* currid, or cleared them while one that had set them was ending.
Quiet == \A a \in Agent : at[a] \in {"idle", "done"}
ProtocolsKnown == (Quiet /\ Connected /\ undone = {}) => protos

\* Connect returns.
ConnectEnds == \A d \in Caller : call[d] = "wait" ~> call[d] \in {"ok", "err"}

-----------------------------------------------------------------------------
(***************************************************************************)
(* The addresses peers say we dial from: ObservedAddrSet                   *)
(* (identify/obsaddr.go), fed by consumeObservedAddress (identify/id.go)   *)
(* and read by AllAddrs (basic_host.go).  One address; a clock in units of *)
(* the TTL; several observer groups.                                       *)
(***************************************************************************)

CONSTANTS Group,            \* observer groups
          ActivationThresh,
          Ttl,
          MaxTime           \* bound of the clock

VARIABLES now,
          seenBy,           \* ObservedAddr.SeenBy; the groups not in it at Unseen
          lastSeen,         \* ObservedAddr.LastSeen; Unseen: no entry
          observed          \* history: when each group last observed it

bvars == <<now, seenBy, lastSeen, observed>>

Unseen == 0 - ActivationThresh * Ttl - MaxTime - 1

\* consumeObservedAddress found the local address among the listening ones.
AddUndated(g) ==
    /\ seenBy' = [seenBy EXCEPT ![g] = now]
    /\ lastSeen' = IF lastSeen = Unseen THEN now ELSE lastSeen
    /\ observed' = [observed EXCEPT ![g] = now] /\ UNCHANGED now
AddObserved(g) ==
    /\ seenBy' = [seenBy EXCEPT ![g] = now] /\ lastSeen' = now
    /\ observed' = [observed EXCEPT ![g] = now] /\ UNCHANGED now

Counted == {g \in Group : seenBy[g] # Unseen /\ now - seenBy[g] <= Ttl * ActivationThresh}

\* Addrs: what is returned, and what is deleted on the way.
AddrsKeeps == IF now - lastSeen > Ttl THEN {} ELSE Counted
InAddrsEver == lastSeen # Unseen /\ Cardinality(Counted) >= ActivationThresh
InAddrs == /\ lastSeen # Unseen /\ now - lastSeen <= Ttl
           /\ Cardinality(Counted) >= ActivationThresh
Addrs ==
    /\ lastSeen # Unseen
    /\ seenBy' = [g \in Group |-> IF g \in AddrsKeeps THEN seenBy[g] ELSE Unseen]
    /\ lastSeen' = IF now - lastSeen > Ttl THEN Unseen ELSE lastSeen
    /\ UNCHANGED <<now, observed>>

Tick == now < MaxTime /\ now' = now + 1 /\ UNCHANGED <<seenBy, lastSeen, observed>>

BInit == /\ now = 0 /\ seenBy = [g \in Group |-> Unseen] /\ lastSeen = Unseen
         /\ observed = [g \in Group |-> Unseen]
BNext == Tick \/ Addrs \/ \E g \in Group : AddObserved(g)
BSpec == BInit /\ [][BNext]_bvars

ObservedWithin(d) == {g \in Group : now - observed[g] <= d}

\* An address is only advertised on the word of ActivationThresh groups, one of
\* them within the TTL: whatever was deleted and seen again in between.
AdvertisedSound == InAddrs => /\ Cardinality(ObservedWithin(Ttl * ActivationThresh)) >= ActivationThresh
                              /\ ObservedWithin(Ttl) # {}

\* And one that so many groups saw within the TTL is advertised, whenever Addrs
\* was called meanwhile.
AdvertisedComplete == Cardinality(ObservedWithin(Ttl)) >= ActivationThresh => InAddrs

-----------------------------------------------------------------------------
(***************************************************************************)
(* The NAT manager of a host (basic_host's natmgr.go): discovery of the    *)
(* NAT, the notifications of the swarm when it starts and stops listening, *)
(* and the port mappings, which goroutines add.  The NAT library and the   *)
(* swarm are external.                                                     *)
(***************************************************************************)

CONSTANT LAddr             \* addresses the node may listen on

VARIABLES natmgr,          \* where discoverNAT is: "search", "found", "notify",
                           \* "list", "end", "none", "closed"
          listening,       \* the swarm's listeners
          mapped,          \* mapped[a]: number of mappings of the NAT for a
          job,             \* job[k][a]: a goroutine in addPortMapping, k "first"
                           \* (from discoverNAT) or "listen": "idle", "check", "make"
          late,            \* history: closed while a "first" job was under way
          unmapped         \* history: NewMapping failed

gvars == <<natmgr, listening, mapped, job, late, unmapped>>

Kind == {"first", "listen"}
Registered == natmgr \in {"list", "end"}

\* DiscoverNAT returns (nothing: the worker ends), or closing comes first.
Discover == /\ natmgr = "search" /\ natmgr' \in {"found", "none"}
            /\ UNCHANGED <<listening, mapped, job, late, unmapped>>
SetNat == /\ natmgr = "found" /\ natmgr' = "notify"
          /\ UNCHANGED <<listening, mapped, job, late, unmapped>>
\* Notify first, ListenAddresses after it.
Notify == /\ natmgr = "notify" /\ natmgr' = "list"
          /\ UNCHANGED <<listening, mapped, job, late, unmapped>>
FirstNone == {}
FirstJobs == listening
ListAddrs == /\ natmgr = "list" /\ natmgr' = "end"
             /\ job' = [job EXCEPT !["first"] =
                            [a \in LAddr |-> IF a \in FirstJobs THEN "check" ELSE @[a]]]
             /\ UNCHANGED <<listening, mapped, late, unmapped>>

\* Close: notifications end, the NAT closes its mappings.
CloseNatMgr == /\ natmgr # "closed" /\ natmgr' = "closed"
               /\ mapped' = [a \in LAddr |-> 0]
               /\ UNCHANGED <<listening, job, late, unmapped>>

\* The swarm listens; the notification runs addPortMapping.
Listen(a) ==
    /\ a \notin listening /\ listening' = listening \cup {a}
    /\ late' = late \ {a} /\ unmapped' = unmapped \ {a}
    /\ job' = IF Registered THEN [job EXCEPT !["listen"][a] = "check"] ELSE job
    /\ UNCHANGED <<natmgr, mapped>>

\* addPortMapping: a mapping that exists is enough; another goroutine may make
\* it between the look and NewMapping.
Check(k, a) ==
    /\ job[k][a] = "check"
    /\ job' = [job EXCEPT ![k][a] = IF natmgr = "closed" \/ mapped[a] > 0 THEN "idle" ELSE "make"]
    /\ UNCHANGED <<natmgr, listening, mapped, late, unmapped>>
NewMapping(k, a) ==
    /\ job[k][a] = "make" /\ job' = [job EXCEPT ![k][a] = "idle"]
    /\ \/ /\ natmgr # "closed" /\ mapped' = [mapped EXCEPT ![a] = @ + 1] /\ UNCHANGED unmapped
       \/ unmapped' = unmapped \cup {a} /\ UNCHANGED mapped
    /\ UNCHANGED <<natmgr, listening, late>>

\* rmPortMapping closes every mapping of the address.
WithoutFirst(a) == [mapped EXCEPT ![a] = IF @ = 0 THEN 0 ELSE @ - 1]
WithoutMappings(a) == [mapped EXCEPT ![a] = 0]
\* The notification of the end of a listener comes after that of its start.
ListenClose(a) ==
    /\ a \in listening /\ job["listen"][a] = "idle"
    /\ listening' = listening \ {a}
    /\ mapped' = IF Registered THEN WithoutMappings(a) ELSE mapped
    /\ late' = IF job["first"][a] # "idle" THEN late \cup {a} ELSE late
    /\ UNCHANGED <<natmgr, job, unmapped>>

GInit == /\ natmgr = "search" /\ listening = {} /\ mapped = [a \in LAddr |-> 0]
         /\ job = [k \in Kind |-> [a \in LAddr |-> "idle"]] /\ late = {} /\ unmapped = {}
GNext == \/ Discover \/ SetNat \/ Notify \/ ListAddrs \/ CloseNatMgr
         \/ \E a \in LAddr : Listen(a) \/ ListenClose(a)
         \/ \E k \in Kind, a \in LAddr : Check(k, a) \/ NewMapping(k, a)
GSpec == GInit /\ [][GNext]_gvars

JobsDone == natmgr = "end" /\ \A k \in Kind, a \in LAddr : job[k][a] = "idle"

\* Once the NAT is set up and the goroutines are done, every listener has a
\* mapping (unless the NAT refused it), those that came up during the set-up too.
ListenersMapped == JobsDone => \A a \in listening \ unmapped : mapped[a] > 0

\* And an address that is no longer listened on has none, unless the listener was
\* closed while the set-up's goroutine for it was under way.
NoStaleMapping == JobsDone => \A a \in LAddr \ listening : mapped[a] > 0 => a \in late

\* "adding a port mapping is idempotent, so its ok to add the same twice": the
\* look and the making are two steps, so two goroutines make two mappings.
MappedOnce == \A a \in LAddr : mapped[a] <= 1
=============================================================================
