------------------------------- MODULE Daemon -------------------------------
(***************************************************************************)
(* The life of a daemon: cmd/udfs/daemon.go opens the repository, core     *)
(* builds the node, the HTTP servers and the garbage collector start, and  *)
(* an interrupt or the shutdown command ends it all: the node's process    *)
(* waits for its children and then closes what the node owns, in order.    *)
(*                                                                         *)
(* Every step of the construction may fail.  The node's process closes as  *)
(* soon as its context ends, also while the node is still being built.     *)
(***************************************************************************)
EXTENDS Naturals, Sequences

CONSTANTS Options        \* sets of flags a daemon is started with

VARIABLES
    opts,                \* the flags and the state of the disk it starts with
    main,                \* where daemonFunc is
    sigs,                \* interrupts received; the first ends the context
    shutReq,             \* a shutdown command called Process().Close()
    nd,                  \* the node's process
    made, owned,         \* resources created, and those the node's fields hold
    todo, shut,          \* teardown's list of closers, resources closed
    srv, repub,          \* the children: HTTP servers, IPNS republisher
    gc, reprov,          \* goroutines that are no children
    apiFile,             \* the api file names this daemon
    hard,                \* ended by the second interrupt or a panic
    early, late,         \* closed while starting; a server started after that
    failedAt             \* the step that failed

run == <<nd, made, owned, todo, shut>>
tasks == <<srv, repub, gc, reprov>>
lghost == <<hard, early, late, failedAt>>
lvars == <<opts, main, sigs, shutReq, run, tasks, apiFile, lghost>>

Server == {"api", "gateway"}
\* The order teardown adds its closers in.
Closers == <<"files", "exchange", "dht", "blocks", "bootstrapper", "host", "repo">>
Resource == {Closers[i] : i \in DOMAIN Closers}
Building == {"loadid", "key", "host", "floodsub", "routing", "wrap", "repub", "listen",
             "bootstrap", "offline", "blocks", "late", "files"}
Starting == Building \cup {"api", "mount", "gc", "gateway", "blacklist"}
Flag(x) == x \in opts
CtxDone == sigs > 0
Closing == nd \in {"closing", "tearing", "closed"}

\* Types of the daemon's state; what the node owns or has closed was created.
LTypeOK ==
    /\ main \in {"open", "migrate", "route", "failed", "ready", "close", "exit"} \cup Starting
    /\ sigs \in 0..2 /\ shutReq \in BOOLEAN
    /\ nd \in {"none", "open", "closing", "tearing", "closed"}
    /\ owned \subseteq made /\ shut \subseteq made /\ made \subseteq Resource
    /\ srv \in [Server -> {"off", "starting", "serving", "ended"}]
    /\ repub \in {"off", "running", "ended"}
    /\ gc \in {"off", "waiting", "collecting", "ended"}
    /\ reprov \in {"off", "waiting", "providing", "ended"}

LInit ==
    /\ opts \in Options /\ main = "open" /\ sigs = 0 /\ shutReq = FALSE
    /\ nd = "none" /\ made = {} /\ owned = {} /\ todo = <<>> /\ shut = {}
    /\ srv = [s \in Server |-> "off"] /\ repub = "off" /\ gc = "off" /\ reprov = "off"
    /\ apiFile = FALSE /\ hard = FALSE /\ early = FALSE /\ late = FALSE /\ failedAt = "none"

-----------------------------------------------------------------------------
(* daemonFunc until the node is built.                                     *)

LGo(l) == main' = l
Fails(l) == LGo(l) /\ failedAt' = main

\* fsrepo.Open fails, asks for a migration, or gives the repository.
OpenRepo ==
    /\ main = "open"
    /\ \/ ~Flag("outdated") /\ LGo("route") /\ made' = {"repo"} /\ UNCHANGED failedAt
       \/ Flag("outdated") /\ LGo("migrate") /\ UNCHANGED <<made, failedAt>>
       \/ ~Flag("outdated") /\ Fails("exit") /\ UNCHANGED made
    /\ UNCHANGED <<opts, sigs, shutReq, nd, owned, todo, shut, tasks, apiFile, hard, early, late>>

\* The user declines, RunMigration fails, or the repository is new enough now.
RunMigration ==
    /\ main = "migrate"
    /\ \/ Fails("exit") /\ UNCHANGED opts
       \/ LGo("open") /\ opts' = opts \ {"outdated"} /\ UNCHANGED failedAt
    /\ UNCHANGED <<sigs, shutReq, run, tasks, apiFile, hard, early, late>>

\* The configuration and the routing option; an error here returns without
\* closing the repository.  NewNode then makes the node's process.
RoutingOption ==
    /\ main = "route"
    /\ \/ Fails("exit") /\ UNCHANGED <<nd, owned>>
       \/ LGo("loadid") /\ nd' = "open" /\ owned' = {"repo"} /\ UNCHANGED failedAt
    /\ UNCHANGED <<opts, sigs, shutReq, made, todo, shut, tasks, apiFile, hard, early, late>>

-----------------------------------------------------------------------------
(* setupNode and startOnlineServices.                                      *)

\* A step creates m and stores o in fields of the node; an error makes NewNode
\* close the node.
Step(now, next, m, o) ==
    /\ main = now
    /\ \/ LGo(next) /\ made' = made \cup m /\ owned' = owned \cup o /\ UNCHANGED failedAt
       \/ Fails("failed") /\ UNCHANGED <<made, owned>>
    /\ UNCHANGED <<opts, sigs, shutReq, nd, todo, shut, srv, gc, apiFile, hard, early, late>>

loadID == /\ Step("loadid", IF Flag("offline") THEN "offline" ELSE "key", {}, {})
          /\ UNCHANGED <<repub, reprov>>

startOnlineServices == Step("key", "host", {}, {}) /\ UNCHANGED <<repub, reprov>>

\* The host is used before the error of hostOption is looked at: a failure is
\* a nil dereference that ends the process.
HostOption ==
    /\ main = "host"
    /\ \/ LGo("floodsub") /\ made' = made \cup {"host"} /\ UNCHANGED <<hard, failedAt>>
       \/ Fails("exit") /\ hard' = TRUE /\ UNCHANGED made
    /\ UNCHANGED <<opts, sigs, shutReq, nd, owned, todo, shut, tasks, apiFile, early, late>>

NewFloodSub == Step("floodsub", "routing", {}, {}) /\ UNCHANGED <<repub, reprov>>

SetupRoutingUnmade == Step("routing", "wrap", {}, {"dht"}) /\ UNCHANGED <<repub, reprov>>
SetupRouting == Step("routing", "wrap", {"dht"}, {"dht"}) /\ UNCHANGED <<repub, reprov>>

\* From here on teardown knows the host.
WrapHostDropped ==
    /\ main = "wrap" /\ LGo("repub")
    /\ made' = made \cup {"exchange"} /\ owned' = owned \cup {"exchange"}
    /\ UNCHANGED <<opts, sigs, shutReq, nd, todo, shut, tasks, apiFile, lghost>>
WrapHost ==
    /\ main = "wrap" /\ LGo("repub")
    /\ made' = made \cup {"exchange"} /\ owned' = owned \cup {"exchange", "host"}
    /\ UNCHANGED <<opts, sigs, shutReq, nd, todo, shut, tasks, apiFile, lghost>>

setupIpnsRepublisher ==
    /\ Step("repub", "listen", {}, {})
    /\ repub' = IF main' = "listen" THEN "running" ELSE repub
    /\ UNCHANGED reprov

startListening == Step("listen", "bootstrap", {}, {}) /\ UNCHANGED <<repub, reprov>>

BootstrapNode ==
    /\ Step("bootstrap", "blocks", {"bootstrapper"}, {"bootstrapper"})
    /\ UNCHANGED <<repub, reprov>>

OfflineExchange ==
    /\ Step("offline", "blocks", {"exchange"}, {"exchange"}) /\ UNCHANGED <<repub, reprov>>

setupNode ==
    /\ Step("blocks", IF Flag("offline") THEN "files" ELSE "late", {"blocks"}, {"blocks"})
    /\ UNCHANGED <<repub, reprov>>

startLateOnlineServices ==
    /\ Step("late", "files", {}, {})
    /\ reprov' = IF main' = "files" THEN "waiting" ELSE reprov
    /\ UNCHANGED repub

loadFilesRoot == Step("files", "api", {"files"}, {"files"}) /\ UNCHANGED <<repub, reprov>>

-----------------------------------------------------------------------------
(* daemonFunc once the node is built: an error returns through the deferred *)
(* node.Close().                                                            *)

Serving(now, next) ==
    /\ main = now
    /\ \/ LGo(next) /\ UNCHANGED failedAt
       \/ Fails("close")
    /\ UNCHANGED <<opts, sigs, shutReq, run, repub, reprov, hard, early, late>>

\* The listener, then SetAPIAddr, then the goroutine that serves.
serveHTTPApi ==
    /\ Serving("api", "mount")
    /\ IF main' = "mount"
       THEN apiFile' = TRUE /\ srv' = [srv EXCEPT !["api"] = "starting"]
       ELSE apiFile' \in {apiFile, TRUE} /\ UNCHANGED srv
    /\ UNCHANGED gc

mountFuse == Serving("mount", "gc") /\ UNCHANGED <<apiFile, srv, gc>>

maybeRunGC ==
    /\ main = "gc" /\ LGo("gateway")
    /\ gc' = IF Flag("gc") THEN "waiting" ELSE "off"
    /\ UNCHANGED <<opts, sigs, shutReq, run, srv, repub, reprov, apiFile, lghost>>

serveHTTPGateway ==
    /\ Serving("gateway", "blacklist")
    /\ srv' = IF main' = "blacklist" /\ Flag("gateway")
              THEN [srv EXCEPT !["gateway"] = "starting"] ELSE srv
    /\ UNCHANGED <<apiFile, gc>>

RunBlacklistRefreshService == Serving("blacklist", "ready") /\ UNCHANGED <<apiFile, srv, gc>>

\* merge: wait for every error channel to be closed.
merge ==
    /\ main = "ready"
    /\ \A s \in Server : srv[s] \in {"off", "ended"}
    /\ gc \in {"off", "ended"}
    /\ LGo("close")
    /\ UNCHANGED <<opts, sigs, shutReq, run, tasks, apiFile, lghost>>

\* The deferred node.Close(), or NewNode's, waits until the node is closed.
DaemonReturns ==
    /\ main \in {"close", "failed"} /\ nd = "closed" /\ LGo("exit")
    /\ UNCHANGED <<opts, sigs, shutReq, run, tasks, apiFile, lghost>>

-----------------------------------------------------------------------------
(* corehttp.Serve, and the other goroutines.                               *)

\* Serve gives up when the process is closing, else makes the server a child;
\* the process may begin to close between the two.
ServeStarts(s) ==
    /\ srv[s] = "starting"
    /\ \/ ~Closing /\ srv' = [srv EXCEPT ![s] = "serving"] /\ UNCHANGED late
       \/ Closing /\ srv' = [srv EXCEPT ![s] = "ended"] /\ UNCHANGED late
       \/ Closing /\ srv' = [srv EXCEPT ![s] = "serving"] /\ late' = TRUE
    /\ UNCHANGED <<opts, main, sigs, shutReq, run, repub, gc, reprov, apiFile, hard, early, failedAt>>

\* The listener is closed when the process closes, or Accept fails.
ServeEnds(s) ==
    /\ srv[s] = "serving" /\ srv' = [srv EXCEPT ![s] = "ended"]
    /\ UNCHANGED <<opts, main, sigs, shutReq, run, repub, gc, reprov, apiFile, lghost>>

RepublisherEnds ==
    /\ repub = "running" /\ Closing /\ repub' = "ended"
    /\ UNCHANGED <<opts, main, sigs, shutReq, run, srv, gc, reprov, apiFile, lghost>>

\* PeriodicGC looks at the daemon's context only.
PeriodicGC ==
    /\ \/ gc = "waiting" /\ ~CtxDone /\ gc' = "collecting"
       \/ gc = "collecting" /\ gc' = "waiting"
    /\ UNCHANGED <<opts, main, sigs, shutReq, run, srv, repub, reprov, apiFile, lghost>>
PeriodicGCEnds ==
    /\ gc = "waiting" /\ CtxDone /\ gc' = "ended"
    /\ UNCHANGED <<opts, main, sigs, shutReq, run, srv, repub, reprov, apiFile, lghost>>

ReprovideRun ==
    /\ \/ reprov = "waiting" /\ reprov' \in (IF CtxDone THEN {"ended"} ELSE {"providing"})
       \/ reprov = "providing" /\ reprov' = "waiting"
    /\ UNCHANGED <<opts, main, sigs, shutReq, run, srv, repub, gc, apiFile, lghost>>

-----------------------------------------------------------------------------
(* The end: interrupts, the shutdown command, the node's process.          *)

\* The first interrupt cancels the context, the second calls os.Exit.
Interrupt ==
    /\ main # "exit" /\ sigs < 2 /\ sigs' = sigs + 1
    /\ main' = IF sigs = 1 THEN "exit" ELSE main
    /\ hard' = (sigs = 1)
    /\ UNCHANGED <<opts, shutReq, run, tasks, apiFile, early, late, failedAt>>

daemonShutdownCmd ==
    /\ srv["api"] = "serving" /\ ~shutReq /\ main # "exit" /\ shutReq' = TRUE
    /\ UNCHANGED <<opts, main, sigs, run, tasks, apiFile, lghost>>

BeginCloseQuietly ==
    /\ nd = "open" /\ (shutReq \/ main \in {"close", "failed"})
    /\ nd' = "closing" /\ early' = (early \/ main \in Starting)
    /\ UNCHANGED <<opts, main, sigs, shutReq, made, owned, todo, shut, tasks, apiFile, hard, late, failedAt>>
BeginCloseUnasked ==
    /\ nd = "open" /\ (CtxDone \/ main \in {"close", "failed"})
    /\ nd' = "closing" /\ early' = (early \/ main \in Starting)
    /\ UNCHANGED <<opts, main, sigs, shutReq, made, owned, todo, shut, tasks, apiFile, hard, late, failedAt>>
BeginClose ==
    /\ nd = "open" /\ (CtxDone \/ shutReq \/ main \in {"close", "failed"})
    /\ nd' = "closing" /\ early' = (early \/ main \in Starting)
    /\ UNCHANGED <<opts, main, sigs, shutReq, made, owned, todo, shut, tasks, apiFile, hard, late, failedAt>>

\* The children end first, then teardown makes its list of closers.
InOrderReversed(S) == LET f == SelectSeq(Closers, LAMBDA x : x \in S)
                      IN [i \in DOMAIN f |-> f[Len(f) + 1 - i]]
InOrder(S) == SelectSeq(Closers, LAMBDA x : x \in S)

ChildrenEndedNot == TRUE
ChildrenEnded == repub # "running" /\ \A s \in Server : srv[s] # "serving"

BeginTeardown ==
    /\ nd = "closing" /\ (ChildrenEnded \/ late)
    /\ nd' = "tearing" /\ todo' = InOrder(owned)
    /\ UNCHANGED <<opts, main, sigs, shutReq, made, owned, shut, tasks, apiFile, lghost>>

\* Closing the repository removes the api file.
ApiFileKept(x) == apiFile
ApiFileAfter(x) == apiFile /\ x # "repo"

teardown ==
    /\ nd = "tearing"
    /\ IF todo = <<>>
       THEN nd' = "closed" /\ UNCHANGED <<todo, shut, apiFile>>
       ELSE /\ shut' = shut \cup {Head(todo)} /\ todo' = Tail(todo)
            /\ apiFile' = ApiFileAfter(Head(todo)) /\ UNCHANGED nd
    /\ UNCHANGED <<opts, main, sigs, shutReq, made, owned, tasks, lghost>>

Main == \/ OpenRepo \/ RunMigration \/ RoutingOption
        \/ loadID \/ startOnlineServices \/ HostOption \/ NewFloodSub \/ SetupRouting \/ WrapHost
        \/ setupIpnsRepublisher \/ startListening \/ BootstrapNode \/ OfflineExchange
        \/ setupNode \/ startLateOnlineServices \/ loadFilesRoot
        \/ serveHTTPApi \/ mountFuse \/ maybeRunGC \/ serveHTTPGateway
        \/ RunBlacklistRefreshService \/ merge \/ DaemonReturns
Servers == \E s \in Server : ServeStarts(s) \/ ServeEnds(s)
Ending == RepublisherEnds \/ BeginClose \/ BeginTeardown \/ teardown

LNext == /\ main # "exit"
         /\ \/ Main \/ Servers \/ Ending
            \/ PeriodicGC \/ PeriodicGCEnds \/ ReprovideRun \/ Interrupt \/ daemonShutdownCmd

LSpec == LInit /\ [][LNext]_lvars

\* Goroutines run, servers end once their listener is closed, and a collection
\* that has begun ends.
LFairSpec ==
    /\ LSpec /\ WF_lvars(main # "exit" /\ Main) /\ WF_lvars(main # "exit" /\ Ending)
    /\ \A s \in Server : /\ WF_lvars(main # "exit" /\ ServeStarts(s))
                         /\ WF_lvars(main # "exit" /\ Closing /\ ServeEnds(s))
    /\ WF_lvars(main # "exit" /\ gc = "collecting" /\ PeriodicGC)
    /\ SF_lvars(main # "exit" /\ PeriodicGCEnds)

-----------------------------------------------------------------------------
(* Properties                                                              *)

\* teardown: "Repo closed last, most things need to preserve state here": when
\* it is closed, what the node held when teardown began is closed and its
\* children have ended, but for a server that slipped in while closing.
RepoLast ==
    "repo" \in shut
        => /\ todo = <<>>
           /\ \/ repub # "running" /\ \A s \in Server : srv[s] # "serving"
              \/ early \/ late

\* A daemon that ends by itself has closed everything it created, except: the
\* repository when the configuration was bad; the host when no field held it
\* yet; and whatever was created after an interrupt closed the node.
Released ==
    (main = "exit" /\ ~hard /\ ~early /\ failedAt # "route")
        => made \ shut \subseteq (IF failedAt \in {"floodsub", "routing"}
                                  THEN {"host"} ELSE {})

\* A daemon that ends by itself leaves no api file behind for commands to
\* follow, unless it was interrupted before it wrote the file.
ApiFileGone == (main = "exit" /\ ~hard /\ ~early) => ~apiFile

\* An interrupted daemon ends.
InterruptEnds == (CtxDone ~> main = "exit")

\* "Shut down the ipfs daemon": so does one that was told to shut down, unless
\* it runs the periodic garbage collector.
ShutdownEnds == (shutReq /\ ~Flag("gc")) ~> main = "exit"

\* What the shutdown command promises: the daemon ends, whatever its flags.
ShutdownAlwaysEnds == shutReq ~> main = "exit"
=============================================================================
