-------------------------------- MODULE Repo --------------------------------
(***************************************************************************)
(* The repository of a node and the commands that share it: the lock file, *)
(* the api file, the configuration file and its copy in memory             *)
(* (repo/fsrepo, repo/onlyone.go), the init, config and bootstrap          *)
(* commands, and the routing of a command to a running daemon (cmd/udfs).  *)
(*                                                                         *)
(* A command has a process of its own, named after it, and runs there or   *)
(* in the process of the daemon.  A configuration is the list of bootstrap *)
(* peers, one other value, the datastore spec and the private key; the     *)
(* file may hold a key of the user's beside them.                          *)
(***************************************************************************)
EXTENDS Naturals, FiniteSets

CONSTANTS Cmd,       \* the commands, each with its process
          Does,      \* Does[c]: the operations c may be: <<kind, argument>>
          BPeer,     \* bootstrap peers
          Fresh,     \* the configuration config.Init makes, but for the key
          Nobody     \* no process, no file

VARIABLES
    file,            \* the configuration file: [s, extra], or Nobody
    spec, version,   \* the datastore_spec and version files
    lockBy,          \* the process that holds repo.lock
    api,             \* the api file: the process it names, "empty", or Nobody
    refs,            \* OnlyOne's reference count, by process
    mem,             \* FSRepo.config, by process
    rpc, what, at,   \* of a command: where it is, its operation, its process
    saved, conf,     \* its local variables
    why,             \* the error it ended with
    overlap,         \* another command touched the configuration meanwhile
    broken           \* what happened that may spoil the repository

disk == <<file, spec, version, lockBy, api>>
ghost == <<overlap, broken>>
rvars == <<disk, refs, mem, rpc, what, at, saved, conf, why, ghost>>

Struct == [boot : SUBSET BPeer, val : {0, 1, 2}, spec : {"flatfs", "badger"},
           key : Cmd \cup {Nobody}]
NoConf == [boot |-> {}, val |-> 0, spec |-> "flatfs", key |-> Nobody]
Updates == {"add", "adddefault", "rm", "rmall", "profile", "replace", "set"}
OnDaemon == Updates \cup {"get", "list"}
Running == {c \in Cmd : rpc[c] \notin {"idle", "done", "failed"}}

\* Types of the repository's files, its lock and the processes that use it.
RTypeOK ==
    /\ file = Nobody \/ (file.s \in Struct /\ file.extra \in BOOLEAN)
    /\ spec \in {"flatfs", "badger", Nobody} /\ version \in BOOLEAN
    /\ lockBy \in Cmd \cup {Nobody} /\ api \in Cmd \cup {"empty", Nobody}
    /\ refs \in [Cmd -> 0..Cardinality(Cmd)]
    /\ mem \in [Cmd -> Struct]
    /\ at \in [Cmd -> Cmd] /\ saved \in [Cmd -> SUBSET BPeer]
    /\ conf \in [Cmd -> Struct]

RInit ==
    /\ \/ file = Nobody /\ spec = Nobody /\ version = FALSE
       \/ \E k \in Cmd : /\ file = [s |-> [Fresh EXCEPT !.key = k], extra |-> TRUE]
                         /\ k = CHOOSE x \in Cmd : TRUE
                         /\ spec = Fresh.spec /\ version = TRUE
    /\ lockBy = Nobody /\ api = Nobody
    /\ refs = [c \in Cmd |-> 0] /\ mem = [c \in Cmd |-> NoConf]
    /\ rpc = [c \in Cmd |-> "idle"] /\ what = [c \in Cmd |-> Nobody]
    /\ at = [c \in Cmd |-> c] /\ saved = [c \in Cmd |-> {}]
    /\ conf = [c \in Cmd |-> NoConf] /\ why = [c \in Cmd |-> "none"]
    /\ overlap = {} /\ broken = {}

-----------------------------------------------------------------------------
(* Control of one command.                                                 *)

RGo(c, l) == rpc' = [rpc EXCEPT ![c] = l]
RFail(c, e) == RGo(c, "failed") /\ why' = [why EXCEPT ![c] = e]
Is(c, k) == what[c] # Nobody /\ what[c][1] = k
Arg(c) == what[c][2]

\* Commands of the same process that are between Open and SetConfig.
Others(c) == {d \in Running \ {c} : at[d] = at[c] /\ rpc[d] \in {"put", "backup", "write"}}
Touch(c) == overlap' = overlap \cup Others(c)

\* makeExecutor and commandShouldRunOnDaemon: init and config edit always run
\* in their own process, daemon too unless the repository is locked, and every
\* other command is sent to the process the api file names, if there is one.
Route(c) ==
    /\ rpc[c] = "idle"
    /\ \E op \in Does[c] :
        /\ what' = [what EXCEPT ![c] = op]
        /\ CASE op[1] = "init" /\ lockBy # Nobody   -> RFail(c, "running")
             [] op[1] = "daemon" /\ api = "empty"   -> RFail(c, "apifile")
             [] op[1] = "daemon" /\ api \in Cmd /\ lockBy # Nobody -> RFail(c, "running")
             [] op[1] \in OnDaemon /\ api = "empty" -> RFail(c, "apifile")
             [] op[1] \in OnDaemon /\ api \in Cmd   -> RGo(c, "send") /\ UNCHANGED why
             [] op[1] = "init"                      -> RGo(c, "check") /\ UNCHANGED why
             [] op[1] \in {"edit", "show"}           -> RGo(c, "read") /\ UNCHANGED why
             [] OTHER                                 -> RGo(c, "open") /\ UNCHANGED why
    /\ at' = [at EXCEPT ![c] = IF rpc'[c] = "send" THEN api ELSE c]
    /\ UNCHANGED <<disk, refs, mem, saved, conf, ghost>>

\* The request reaches the daemon, or nobody listens there any more.
SendToDaemon(c) ==
    /\ rpc[c] = "send"
    /\ IF rpc[at[c]] = "serving"
       THEN RGo(c, "open") /\ UNCHANGED why
       ELSE RFail(c, "refused")
    /\ UNCHANGED <<disk, refs, mem, what, at, saved, conf, ghost>>

-----------------------------------------------------------------------------
(* fsrepo: Init, Open, Close, SetConfig, SetConfigKey.                     *)

\* doInit: refuse an initialized repository, else generate a configuration.
InitCheck(c) ==
    /\ rpc[c] = "check"
    /\ IF file # Nobody THEN RFail(c, "exists")
       ELSE RGo(c, "initconfig") /\ UNCHANGED why
    /\ conf' = [conf EXCEPT ![c] = [Fresh EXCEPT !.key = c]]
    /\ UNCHANGED <<disk, refs, mem, what, at, saved, ghost>>

\* Init returns at once when somebody else made the configuration file since.
InitConfig(c) ==
    /\ rpc[c] = "initconfig"
    /\ IF file # Nobody
       THEN UNCHANGED file /\ RGo(c, "open")
       ELSE file' = [s |-> conf[c], extra |-> FALSE] /\ RGo(c, "initspec")
    /\ broken' = IF file # Nobody THEN broken \cup {"initrace"} ELSE broken
    /\ UNCHANGED <<spec, version, lockBy, api, refs, mem, what, at, saved,
                   conf, why, overlap>>

InitSpecNot(c) ==
    /\ rpc[c] = "initspec" /\ RGo(c, "initversion")
    /\ UNCHANGED <<disk, refs, mem, what, at, saved, conf, why, ghost>>

InitSpec(c) ==
    /\ rpc[c] = "initspec" /\ RGo(c, "initversion")
    /\ spec' = IF spec = Nobody THEN conf[c].spec ELSE spec
    /\ UNCHANGED <<file, version, lockBy, api, refs, mem, what, at, saved,
                   conf, why, ghost>>

InitVersion(c) ==
    /\ rpc[c] = "initversion" /\ RGo(c, "open")
    /\ version' = TRUE
    /\ UNCHANGED <<file, spec, lockBy, api, refs, mem, what, at, saved,
                   conf, why, ghost>>

OpenErr(p) ==
    CASE file = Nobody             -> "norepo"
      [] lockBy \notin {Nobody, p} -> "locked"
      [] ~version                  -> "noversion"
      [] spec = Nobody             -> "nospec"
      [] spec # file.s.spec        -> "mismatch"
      [] OTHER                     -> "none"

\* Another process is still writing the files of the repository.
InitUnderWay ==
    broken' = IF \E d \in Cmd : rpc[d] \in {"initspec", "initversion"}
              THEN broken \cup {"initrace"} ELSE broken

LockKept(p, e) == lockBy' = IF e \in {"norepo", "locked"} THEN lockBy ELSE p
LockLetGo(p, e) == UNCHANGED lockBy

ReferenceOnce(p) == refs' = [refs EXCEPT ![p] = 1]
Reference(p) == refs' = [refs EXCEPT ![p] = @ + 1]

\* OnlyOne.Open: the repository the process has open, or open(), which lets
\* the lock go when it fails.
Open(c) ==
    LET p == at[c] IN
    /\ rpc[c] = "open"
    /\ IF refs[p] = 0 /\ OpenErr(p) # "none"
       THEN /\ RFail(c, OpenErr(p)) /\ InitUnderWay
            /\ LockLetGo(p, OpenErr(p)) /\ UNCHANGED <<refs, mem>>
       ELSE /\ Reference(p) /\ lockBy' = p /\ UNCHANGED broken
            /\ mem' = IF refs[p] = 0 THEN [mem EXCEPT ![p] = file.s] ELSE mem
            /\ RGo(c, IF Is(c, "daemon") THEN "create" ELSE
                      IF Is(c, "init") THEN "close" ELSE "run")
            /\ UNCHANGED why
    /\ UNCHANGED <<file, spec, version, api, what, at, saved, conf, overlap>>

ApiFileLeft == UNCHANGED api
ApiFileRemoved == api' = Nobody

\* ref.Close; the last reference removes the api file and frees the lock.
RClose(c) ==
    LET p == at[c] IN
    /\ rpc[c] = "close"
    /\ refs' = [refs EXCEPT ![p] = @ - 1]
    /\ IF refs[p] = 1 THEN ApiFileRemoved /\ lockBy' = Nobody ELSE UNCHANGED <<api, lockBy>>
    /\ RGo(c, IF Is(c, "daemon") THEN "exit" ELSE "done")
    /\ UNCHANGED <<file, spec, version, mem, what, at, saved, conf, why, ghost>>

WriteConfigStruct(s) == file' = [s |-> s, extra |-> FALSE]

\* setConfigUnsynced: the fields of the struct over what the file holds.
WriteConfig(s) == file' = [file EXCEPT !.s = s]

RefreshNot(p, s) == UNCHANGED mem
Refresh(p, s) == mem' = [mem EXCEPT ![p] = s]

Written(c, s) ==
    /\ WriteConfig(s) /\ Refresh(at[c], s)
    /\ Touch(c) /\ broken' = IF s.spec # spec THEN broken \cup {"respec"} ELSE broken
    /\ RGo(c, "close")
    /\ UNCHANGED <<spec, version, lockBy, api, refs, what, at, saved, conf, why>>

Refused(c) ==
    /\ RGo(c, "close") /\ why' = [why EXCEPT ![c] = "refused"]
    /\ UNCHANGED <<disk, refs, mem, what, at, saved, conf, ghost>>

\* SetConfig writes what the pointer it is given holds by now: the copy in
\* memory or, for config replace, the configuration that was read.
SetConfig(c) ==
    /\ rpc[c] = "write" /\ ~Is(c, "set")
    /\ Written(c, IF Is(c, "replace") THEN conf[c] ELSE mem[at[c]])

\* SetConfigKey reads the file, changes one key that has the type of the old
\* value, keeps the private key, writes, and refreshes the copy in memory.
SetConfigKey(c) ==
    /\ rpc[c] = "write" /\ Is(c, "set")
    /\ \/ Written(c, [file.s EXCEPT !.val = Arg(c)])
       \/ Refused(c)

-----------------------------------------------------------------------------
(* The commands between Open and SetConfig.  Config() returns a pointer to *)
(* the copy in memory, and they change it in place.                        *)

Runs(c, k) == rpc[c] = "run" /\ Is(c, k)
Default(c) == IF Is(c, "adddefault") THEN Fresh.boot ELSE Arg(c)

\* bootstrapAdd empties the list it is going to rebuild.
AddTake(c) ==
    /\ saved' = [saved EXCEPT ![c] = mem[at[c]].boot]
    /\ mem' = [mem EXCEPT ![at[c]].boot = {}]
    /\ Touch(c) /\ RGo(c, "put")
    /\ UNCHANGED <<disk, refs, what, at, conf, why, broken>>

bootstrapAddCmd(c) == Runs(c, "add") /\ AddTake(c)
bootstrapAddDefaultCmd(c) == Runs(c, "adddefault") /\ AddTake(c)

\* bootstrapRemove and bootstrapRemoveAll read the list.
RemoveRead(c) ==
    /\ saved' = [saved EXCEPT ![c] = mem[at[c]].boot] /\ RGo(c, "put")
    /\ UNCHANGED <<disk, refs, mem, what, at, conf, why, ghost>>

bootstrapRemoveCmd(c) == Runs(c, "rm") /\ RemoveRead(c)
bootstrapRemoveAllCmd(c) == Runs(c, "rmall") /\ RemoveRead(c)

\* Read-only commands: bootstrap list reads the copy in memory, config <key>
\* the file, config show the file without opening the repository.
ReadsOnly(c, l) == RGo(c, l) /\ UNCHANGED <<disk, refs, mem, what, at, saved, conf, why, ghost>>
bootstrapListCmd(c) == Runs(c, "list") /\ ReadsOnly(c, "close")
getConfig(c) == Runs(c, "get") /\ ReadsOnly(c, "close")
configShowCmd(c) == rpc[c] = "read" /\ Is(c, "show") /\ ReadsOnly(c, "done")

\* config <key> <value> goes on to SetConfigKey.
ConfigCmd(c) == Runs(c, "set") /\ ReadsOnly(c, "write")

\* config replace: what was read, with the private key the file has.
configReplaceCmd(c) ==
    /\ Runs(c, "replace")
    /\ \/ /\ conf' = [conf EXCEPT ![c] = [Arg(c) EXCEPT !.key = file.s.key]]
          /\ RGo(c, "write")
          /\ UNCHANGED <<disk, refs, mem, what, at, saved, why, ghost>>
       \/ Refused(c)

\* The profiles; val stands for the network settings they change.
Transform(s, name) ==
    CASE name \in {"server", "lowpower"} -> [s EXCEPT !.val = 1]
      [] name = "local-discovery"        -> [s EXCEPT !.val = 0]
      [] name = "test"                   -> [s EXCEPT !.val = 2, !.boot = {}]
      [] name = "default-networking"     -> [s EXCEPT !.val = 0, !.boot = @ \cup Fresh.boot]
      [] name = "badgerds"               -> [s EXCEPT !.spec = "badger"]
      [] name = "default-datastore"      -> [s EXCEPT !.spec = Fresh.spec]

\* config profile apply: a profile's Transform changes the struct in memory.
configProfileApplyCmd(c) ==
    /\ Runs(c, "profile")
    /\ mem' = [mem EXCEPT ![at[c]] = Transform(@, Arg(c))]
    /\ Touch(c) /\ RGo(c, "backup")
    /\ UNCHANGED <<disk, refs, what, at, saved, conf, why, broken>>

RebuiltAnew(c, boot) == IF Is(c, "rm") THEN saved[c] \ Arg(c) ELSE
                        IF Is(c, "rmall") THEN {} ELSE boot \cup Default(c)
Rebuilt(c, boot) ==
    CASE what[c][1] \in {"add", "adddefault"} -> boot \cup Default(c) \cup saved[c]
      [] Is(c, "rm") -> saved[c] \ Arg(c)
      [] OTHER -> {}

Put(c) ==
    LET p == at[c] IN
    /\ rpc[c] = "put"
    /\ mem' = [mem EXCEPT ![p].boot = Rebuilt(c, @)]
    /\ Touch(c) /\ RGo(c, "write")
    /\ UNCHANGED <<disk, refs, what, at, saved, conf, why, broken>>

\* transformConfig: when the backup fails the command ends, and the struct it
\* has changed stays changed.
Backup(c) ==
    /\ rpc[c] = "backup"
    /\ \/ RGo(c, "write") /\ UNCHANGED <<why, broken>>
       \/ /\ RGo(c, "close") /\ why' = [why EXCEPT ![c] = "backup"]
          /\ broken' = broken \cup {"dirty"}
    /\ UNCHANGED <<disk, refs, mem, what, at, saved, conf, overlap>>

\* config edit: an editor reads the file and writes it again, without a lock.
EditRead(c) ==
    /\ rpc[c] = "read" /\ Is(c, "edit")
    /\ IF file = Nobody
       THEN RGo(c, "done") /\ UNCHANGED conf
       ELSE /\ conf' = [conf EXCEPT ![c] = [file.s EXCEPT !.val = Arg(c)]]
            /\ RGo(c, "edit")
    /\ UNCHANGED <<disk, refs, mem, what, at, saved, why, ghost>>

EditWrite(c) ==
    /\ rpc[c] = "edit"
    /\ file' = [s |-> conf[c], extra |-> TRUE]
    /\ broken' = broken \cup {"dirty"} /\ RGo(c, "done")
    /\ UNCHANGED <<spec, version, lockBy, api, refs, mem, what, at, saved, conf, why, overlap>>

-----------------------------------------------------------------------------
(* The daemon, and processes that die.                                     *)

\* SetAPIAddr creates the file, then writes the address.
CreateApi(c) ==
    /\ rpc[c] = "create" /\ api' = "empty" /\ RGo(c, "setapi")
    /\ UNCHANGED <<file, spec, version, lockBy, refs, mem, what, at, saved, conf, why, ghost>>

SetAPIAddr(c) ==
    /\ rpc[c] = "setapi" /\ api' = c /\ RGo(c, "serving")
    /\ UNCHANGED <<file, spec, version, lockBy, refs, mem, what, at, saved, conf, why, ghost>>

StopDaemon(c) ==
    /\ rpc[c] = "serving" /\ RGo(c, "close")
    /\ UNCHANGED <<disk, refs, mem, what, at, saved, conf, why, ghost>>

\* A process ends: the daemon after its node is closed, or any process that is
\* killed.  The commands it ran end with it, the lock is freed, files stay.
Ends(c, l) ==
    /\ rpc' = [d \in Cmd |-> IF d \in Running /\ at[d] = c /\ d # c THEN "failed" ELSE
                             IF d = c THEN l ELSE rpc[d]]
    /\ refs' = [refs EXCEPT ![c] = 0]
    /\ lockBy' = IF lockBy = c THEN Nobody ELSE lockBy
    /\ UNCHANGED <<file, spec, version, api, mem, what, at, saved, conf, why, overlap>>

DaemonExit(c) ==
    /\ rpc[c] = "exit" /\ Ends(c, "done")
    /\ broken' = IF refs[c] > 0 THEN broken \cup {"busyexit"} ELSE broken

Crash(c) ==
    /\ c \in Running /\ at[c] = c
    /\ Ends(c, "failed")
    /\ broken' = broken \cup {"crash"}

RNext ==
    \E c \in Cmd :
        \/ Route(c) \/ SendToDaemon(c)
        \/ InitCheck(c) \/ InitConfig(c) \/ InitSpec(c) \/ InitVersion(c)
        \/ Open(c) \/ RClose(c) \/ SetConfig(c) \/ SetConfigKey(c)
        \/ bootstrapAddCmd(c) \/ bootstrapAddDefaultCmd(c) \/ bootstrapRemoveCmd(c)
        \/ bootstrapRemoveAllCmd(c) \/ bootstrapListCmd(c) \/ Put(c)
        \/ ConfigCmd(c) \/ getConfig(c) \/ configShowCmd(c) \/ configReplaceCmd(c)
        \/ configProfileApplyCmd(c) \/ Backup(c) \/ EditRead(c) \/ EditWrite(c)
        \/ CreateApi(c) \/ SetAPIAddr(c) \/ StopDaemon(c) \/ DaemonExit(c) \/ Crash(c)

RSpec == RInit /\ [][RNext]_rvars

-----------------------------------------------------------------------------
(* Properties                                                              *)

\* One process at a time has the repository open, exactly while it holds the
\* lock, and a process that ended holds nothing.
LockMatches ==
    /\ \A p \in Cmd : refs[p] > 0 <=> lockBy = p
    /\ lockBy # Nobody => lockBy \in Running

\* The api file names a process that serves commands, unless a process died
\* before it could remove the file, or exited with commands still in it.
ApiNamesDaemon ==
    api # Nobody => \/ api = "empty" \/ lockBy = api
                    \/ broken \cap {"crash", "busyexit"} # {}

\* A repository somebody initialized can be opened by whoever gets the lock:
\* only a crash in Init, an Open or Init of another process while Init writes,
\* and a profile that changes the datastore spec make Open fail otherwise.
Openable ==
    \A c \in Cmd : why[c] \in {"noversion", "nospec", "mismatch"}
                       => broken \cap {"crash", "initrace", "respec"} # {}

\* The copy in memory is what the file holds whenever no command of the
\* process is between changing the one and writing the other, unless a command
\* failed halfway or somebody edited the file.
MemoryIsDisk ==
    \A p \in Cmd : (refs[p] > 0 /\ "dirty" \notin broken
                    /\ \A c \in Cmd : at[c] = p => rpc[c] \notin {"put", "backup", "write"})
                       => mem[p] = file.s

\* What a bootstrap command reports is on disk once it is written, and what it
\* was not asked to change still is, unless another command of the process
\* changed the configuration meanwhile.
ApplyUpdate ==
    \A c \in Cmd : (rpc[c] = "write" /\ rpc'[c] = "close" /\ why'[c] = "none" /\ c \notin overlap)
        => CASE Is(c, "add")   -> file'.s.boot = saved[c] \cup Arg(c)
             [] Is(c, "adddefault") -> file'.s.boot = saved[c] \cup Fresh.boot
             [] Is(c, "rm")    -> file'.s.boot = saved[c] \ Arg(c)
             [] Is(c, "rmall") -> file'.s.boot = {}
             [] OTHER          -> TRUE
UpdateApplied == [][ApplyUpdate]_rvars

\* No command but init changes the private key, and none loses a key the user
\* put in the file.
KeepUserData ==
    file # Nobody => /\ file' # Nobody /\ file'.s.key = file.s.key
                     /\ (file.extra => file'.extra)
UserDataKept == [][KeepUserData]_rvars
=============================================================================
