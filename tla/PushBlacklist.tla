--------------------------- MODULE PushBlacklist ----------------------------
(***************************************************************************)
(* 'udfs push' (core/commands/push.go), the backup protocol it runs        *)
(* (core/commands/backup.go) and the record of the pins it borrows.  A     *)
(* push adds and pins its files, notes the pin in push.record, has the     *)
(* root pinned by NumberForBackup master peers and, unless --pin was       *)
(* given, unpins it and notes that.  The record is kept open and locked by *)
(* the daemon that writes it.  Every process that starts clears it: when   *)
(* the file is not locked, it runs 'pin rm' on what a daemon that died had *)
(* noted and removes the file. The user's own 'pin add' and 'pin rm',      *)
(* crashes of the daemon, failing peers and clients that leave are         *)
(* included; adding itself is in Adder.                                    *)
(***************************************************************************)
EXTENDS Integers, FiniteSets

CONSTANTS Content,          \* roots of what is pushed
          Pusher,           \* pushes
          Pushed,           \* what they push: functions from Pusher to Content
          PushOptions,      \* their options: functions from Pusher to subsets of {"pin", "only-hash"}
          Master,           \* master peers
          NumberForBackup,
          MaxCrashes,
          MaxUserOps        \* bound on 'pin add' and 'pin rm' by the user

VARIABLES what,         \* what each push pushes
          popts,        \* and with which options
          daemon,       \* "up", "down" or "starting"
          pinned,       \* recursive pins of the node
          userPins,     \* ghost: pins the user asked for and did not take back
          push,         \* the pushes
          backedUp,     \* what each master peer has pinned for others
          counts,       \* push.record: the sum of what is noted for each root
          recFile,      \* whether push.record exists
          recorder,     \* PushRecorder of the daemon: "new", "open", "unlinked" or "failed"
          flock,        \* who holds the lock of the file of that name: "none", "daemon" or a process that clears
          clearing,     \* PushRecorder.Clear of a command and of the starting daemon
          ncrashes, nuser,
          mixed,        \* ghost: roots with a push and a pin of the user at a time
          excused       \* ghost: roots whose pin may stay for a reason named below

puvars == <<what, popts, daemon, pinned, userPins, push, backedUp, counts, recFile, recorder, flock,
            clearing, ncrashes, nuser, mixed, excused>>

Clearer == {"command", "start"}
NewPush == [at |-> "idle", ask |-> {}, done |-> {}, failed |-> FALSE, contested |-> FALSE, hollow |-> {}]
NoClear == [at |-> "off", todo |-> {}, rm |-> FALSE]
NeedUnpin(p) == "pin" \notin popts[p]

PuInit ==
    /\ what \in Pushed /\ popts \in PushOptions
    /\ daemon = "up"
    /\ pinned = {} /\ userPins = {}
    /\ push = [p \in Pusher |-> NewPush]
    /\ backedUp = [m \in Master |-> {}]
    /\ counts = [c \in Content |-> 0]
    /\ recFile = FALSE /\ recorder = "new" /\ flock = "none"
    /\ clearing = [x \in Clearer |-> NoClear]
    /\ ncrashes = 0 /\ nuser = 0
    /\ mixed = {} /\ excused = {}

Holding == {"pinned", "backup", "sending", "report", "unpin"}
HoldingOf(c) == {p \in Pusher : what[p] = c /\ push[p].at \in Holding}
ActiveOf(c) == {p \in Pusher : what[p] = c /\ push[p].at \in Holding \cup {"note"}}
\* A push of c is under way, or its pin is still noted or about to be removed.
Borrowed(c) == ActiveOf(c) # {} \/ counts[c] # 0 \/ \E x \in Clearer : c \in clearing[x].todo
Contest(P) == [p \in Pusher |-> IF p \in P THEN [push[p] EXCEPT !.contested = TRUE] ELSE push[p]]

(***************************************************************************)
(* The user's pins.                                                        *)
(***************************************************************************)
UserPin(c) ==
    /\ daemon = "up" /\ nuser < MaxUserOps /\ c \notin userPins
    /\ pinned' = pinned \cup {c} /\ userPins' = userPins \cup {c}
    /\ mixed' = IF Borrowed(c) THEN mixed \cup {c} ELSE mixed
    /\ nuser' = nuser + 1
    /\ UNCHANGED <<what, popts, daemon, push, backedUp, counts, recFile, recorder, flock, clearing, ncrashes, excused>>
UserUnpin(c) ==
    /\ daemon = "up" /\ nuser < MaxUserOps /\ c \in pinned
    /\ pinned' = pinned \ {c} /\ userPins' = userPins \ {c}
    /\ push' = Contest(HoldingOf(c))
    /\ nuser' = nuser + 1
    /\ UNCHANGED <<what, popts, daemon, backedUp, counts, recFile, recorder, flock, clearing, ncrashes, mixed, excused>>

(***************************************************************************)
(* The record.  Write opens and locks the file the first time; a lock that *)
(* is held makes the recorder of this daemon useless for good.             *)
(***************************************************************************)
Opened == IF recorder # "new" THEN recorder ELSE IF flock = "none" THEN "open" ELSE "failed"
Write(c, n) ==
    /\ recorder' = Opened
    /\ recFile' = (recFile \/ recorder = "new")
    /\ flock' = IF recorder = "new" /\ flock = "none" THEN "daemon" ELSE flock
    /\ counts' = IF Opened = "open" THEN [counts EXCEPT ![c] = @ + n] ELSE counts

(***************************************************************************)
(* A push.                                                                 *)
(***************************************************************************)
\* Options are refused or adding fails: nothing is pinned.
PushRefused(p) ==
    /\ daemon = "up" /\ push[p].at = "idle"
    /\ push' = [push EXCEPT ![p].at = "ended", ![p].failed = TRUE]
    /\ UNCHANGED <<what, popts, daemon, pinned, userPins, backedUp, counts, recFile, recorder, flock, clearing,
                   ncrashes, nuser, mixed, excused>>

\* addAllAndPin.
AddAllAndPin(p) ==
    LET c == what[p] IN
    /\ daemon = "up" /\ push[p].at = "idle"
    /\ pinned' = IF "only-hash" \in popts[p] THEN pinned ELSE pinned \cup {c}
    /\ push' = [Contest(HoldingOf(c)) EXCEPT
                  ![p].at = "pinned",
                  ![p].contested = HoldingOf(c) # {} \/ "only-hash" \in popts[p] \/ \E x \in Clearer : clearing[x].at # "off"]
    /\ userPins' = IF "pin" \in popts[p] THEN userPins \cup {c} ELSE userPins
    /\ mixed' = IF c \in userPins \/ (~NeedUnpin(p) /\ Borrowed(c)) THEN mixed \cup {c} ELSE mixed
    /\ UNCHANGED <<what, popts, daemon, backedUp, counts, recFile, recorder, flock, clearing,
                   ncrashes, nuser, excused>>

\* The pin is noted, unless --pin makes it the user's.
NotePin(p) ==
    LET c == what[p] IN
    /\ push[p].at = "pinned"
    /\ push' = [push EXCEPT ![p].at = "backup"]
    /\ IF NeedUnpin(p)
       THEN /\ Write(c, 1)
            /\ excused' = IF Opened # "open" \/ \E x \in Clearer : clearing[x].at # "off"
                          THEN excused \cup {c} ELSE excused
       ELSE UNCHANGED <<counts, recFile, recorder, flock, excused>>
    /\ UNCHANGED <<what, popts, daemon, pinned, userPins, backedUp, clearing, ncrashes, nuser, mixed>>

\* With --only-hash the node was replaced by one without a DHT, which backupFunc
\* dereferences: the daemon dies.
CrashAt(at) == at \in Holding \cup {"note", "stuck"}
Dies ==
    /\ daemon' = "down" /\ recorder' = "new"
    /\ flock' = IF flock = "daemon" THEN "none" ELSE flock
    /\ push' = [p \in Pusher |-> IF CrashAt(push[p].at) THEN [push[p] EXCEPT !.at = "dead"] ELSE push[p]]
    /\ excused' = excused \cup {what[p] : p \in {q \in Pusher : push[q].at = "pinned" /\ NeedUnpin(q)}}
HashOnlyBackup(p) ==
    /\ push[p].at = "backup" /\ "only-hash" \in popts[p]
    /\ Dies
    /\ UNCHANGED <<what, popts, pinned, userPins, backedUp, counts, recFile, clearing, ncrashes, nuser, mixed>>

\* backupFunc: the first NumberForBackup master peers, or too few are found.
FindPeers(p) ==
    /\ push[p].at = "backup" /\ "only-hash" \notin popts[p]
    /\ \/ \E M \in SUBSET Master : Cardinality(M) = NumberForBackup
                                    /\ push' = [push EXCEPT ![p].at = "sending", ![p].ask = M]
       \/ push' = [push EXCEPT ![p].at = "unpin", ![p].failed = TRUE]
    /\ UNCHANGED <<what, popts, daemon, pinned, userPins, backedUp, counts, recFile, recorder, flock, clearing,
                   ncrashes, nuser, mixed, excused>>

\* The peer's handler pins the root and answers with an empty line.  A node that
\* is closing answers with an empty line too, without having pinned anything.
Answered(p, m, ok) == [push EXCEPT ![p].ask = @ \ {m}, ![p].done = IF ok THEN @ \cup {m} ELSE @,
                                   ![p].failed = @ \/ ~ok]
PeerPins(p, m) ==
    /\ push[p].at = "sending" /\ m \in push[p].ask
    /\ backedUp' = [backedUp EXCEPT ![m] = @ \cup {what[p]}]
    /\ push' = Answered(p, m, TRUE)
    /\ UNCHANGED <<what, popts, daemon, pinned, userPins, counts, recFile, recorder, flock, clearing, ncrashes, nuser,
                   mixed, excused>>
PeerIsClosing(p, m) ==
    /\ push[p].at = "sending" /\ m \in push[p].ask
    /\ push' = [Answered(p, m, TRUE) EXCEPT ![p].hollow = @ \cup {m}]
    /\ UNCHANGED <<what, popts, daemon, pinned, userPins, backedUp, counts, recFile, recorder, flock, clearing, ncrashes,
                   nuser, mixed, excused>>
\* The stream cannot be opened, breaks before or after the pin, or the pin fails.
PeerFailsOK(p, m) ==
    /\ push[p].at = "sending" /\ m \in push[p].ask
    /\ \E pins \in BOOLEAN : backedUp' = IF pins THEN [backedUp EXCEPT ![m] = @ \cup {what[p]}] ELSE backedUp
    /\ push' = Answered(p, m, TRUE)
    /\ UNCHANGED <<what, popts, daemon, pinned, userPins, counts, recFile, recorder, flock, clearing, ncrashes, nuser,
                   mixed, excused>>
PeerFails(p, m) ==
    /\ push[p].at = "sending" /\ m \in push[p].ask
    /\ \E pins \in BOOLEAN : backedUp' = IF pins THEN [backedUp EXCEPT ![m] = @ \cup {what[p]}] ELSE backedUp
    /\ push' = Answered(p, m, FALSE)
    /\ UNCHANGED <<what, popts, daemon, pinned, userPins, counts, recFile, recorder, flock, clearing, ncrashes, nuser,
                   mixed, excused>>

\* All have answered: the output is sent to the client when none failed.
BackupReturns(p) ==
    /\ push[p].at = "sending" /\ push[p].ask = {}
    /\ push' = [push EXCEPT ![p].at = IF push[p].failed THEN "unpin" ELSE "report"]
    /\ UNCHANGED <<what, popts, daemon, pinned, userPins, backedUp, counts, recFile, recorder, flock, clearing,
                   ncrashes, nuser, mixed, excused>>

\* The channel to the client is buffered; when the client has left it may be full
\* and the goroutine waits for ever.
Report(p) ==
    /\ push[p].at = "report"
    /\ \/ push' = [push EXCEPT ![p].at = "unpin"]
       \/ push' = [push EXCEPT ![p].at = "stuck"]
    /\ UNCHANGED <<what, popts, daemon, pinned, userPins, backedUp, counts, recFile, recorder, flock, clearing,
                   ncrashes, nuser, mixed, excused>>

\* The deferred Unpin, and the note of it once it succeeded.
UnpinNoted(p) ==
    /\ push[p].at = "unpin"
    /\ pinned' = IF NeedUnpin(p) THEN pinned \ {what[p]} ELSE pinned
    /\ push' = [push EXCEPT ![p].at = "note"]
    /\ UNCHANGED <<what, popts, daemon, userPins, backedUp, counts, recFile, recorder, flock, clearing, ncrashes, nuser,
                   mixed, excused>>
Unpin(p) ==
    LET c == what[p] IN
    /\ push[p].at = "unpin"
    /\ IF NeedUnpin(p) /\ c \in pinned
       THEN pinned' = pinned \ {c} /\ push' = [push EXCEPT ![p].at = "note"]
       ELSE /\ push' = [push EXCEPT ![p].at = "ended", ![p].failed = @ \/ NeedUnpin(p)]
            /\ UNCHANGED pinned
    /\ UNCHANGED <<what, popts, daemon, userPins, backedUp, counts, recFile, recorder, flock, clearing, ncrashes, nuser,
                   mixed, excused>>
NoteUnpin(p) ==
    /\ push[p].at = "note"
    /\ Write(what[p], -1)
    /\ push' = [push EXCEPT ![p].at = "ended"]
    /\ UNCHANGED <<what, popts, daemon, pinned, userPins, backedUp, clearing, ncrashes, nuser, mixed, excused>>

(***************************************************************************)
(* The daemon dies, and starts again.                                      *)
(***************************************************************************)
Crash ==
    /\ daemon = "up" /\ ncrashes < MaxCrashes
    /\ ncrashes' = ncrashes + 1
    /\ Dies
    /\ UNCHANGED <<what, popts, pinned, userPins, backedUp, counts, recFile, clearing, nuser, mixed>>

(***************************************************************************)
(* PushRecorder.Clear of process x: the file is opened and locked, read,   *)
(* 'pin rm' is run on what is still noted, then the lock is released and   *)
(* the file removed.                                                       *)
(***************************************************************************)
UnlockedIgnored == TRUE
Unlocked == flock = "none"
ClearSkips == ~recFile \/ ~Unlocked
NotedEver == {c \in Content : counts[c] >= 0}
Noted == {c \in Content : counts[c] > 0}
ClearOpens(x) ==
    /\ clearing' = [clearing EXCEPT ![x] = [at |-> "pinrm", todo |-> Noted, rm |-> TRUE]]
    /\ flock' = x
CommandStarts ==
    /\ clearing["command"].at = "off" /\ ~ClearSkips
    /\ ClearOpens("command")
    /\ push' = IF recorder = "open" THEN push ELSE Contest(UNION {HoldingOf(c) : c \in Content})
    /\ UNCHANGED <<what, popts, daemon, pinned, userPins, backedUp, counts, recFile, recorder, ncrashes, nuser,
                   mixed, excused>>
DaemonStarts ==
    /\ daemon = "down"
    /\ IF ClearSkips
       THEN daemon' = "up" /\ UNCHANGED <<clearing, flock>>
       ELSE daemon' = "starting" /\ ClearOpens("start")
    /\ UNCHANGED <<what, popts, pinned, userPins, push, backedUp, counts, recFile, recorder, ncrashes, nuser, mixed,
                   excused>>

\* 'pin rm' unpins one root after another and saves at the end.  At one that is
\* not pinned it fails: what it unpinned before stays so in a running daemon and
\* is lost in a process of its own.  It may also fail to start with status 1.
ClearPinRm(x) ==
    LET todo == clearing[x].todo IN
    /\ clearing[x].at = "pinrm"
    /\ \/ todo \subseteq pinned /\ pinned' = pinned \ todo /\ UNCHANGED excused
       \/ /\ todo # {}
          /\ \E gone \in SUBSET (todo \cap pinned) :
               pinned' = IF daemon = "up" /\ ~(todo \subseteq pinned) THEN pinned \ gone ELSE pinned
          /\ excused' = excused \cup todo
    /\ clearing' = [clearing EXCEPT ![x].at = "unlock"]
    /\ UNCHANGED <<what, popts, daemon, userPins, push, backedUp, counts, recFile, recorder, flock, ncrashes, nuser, mixed>>
\* Any other failure of the command keeps the file.
ClearFailsRemoving(x) ==
    /\ clearing[x].at = "pinrm" /\ clearing[x].todo # {}
    /\ clearing' = [clearing EXCEPT ![x].at = "unlock"]
    /\ UNCHANGED <<what, popts, daemon, pinned, userPins, push, backedUp, counts, recFile, recorder, flock, ncrashes,
                   nuser, mixed, excused>>
ClearPinRmFails(x) ==
    /\ clearing[x].at = "pinrm" /\ clearing[x].todo # {}
    /\ clearing' = [clearing EXCEPT ![x].at = "unlock", ![x].rm = FALSE]
    /\ UNCHANGED <<what, popts, daemon, pinned, userPins, push, backedUp, counts, recFile, recorder, flock, ncrashes,
                   nuser, mixed, excused>>
ClearDone(x) == [clearing EXCEPT ![x] = NoClear]
StartedBy(x) == IF x = "start" THEN "up" ELSE daemon
ClearUnlock(x) ==
    /\ clearing[x].at = "unlock"
    /\ flock' = IF flock = x THEN "none" ELSE flock
    /\ IF clearing[x].rm
       THEN clearing' = [clearing EXCEPT ![x].at = "remove"] /\ UNCHANGED daemon
       ELSE clearing' = ClearDone(x) /\ daemon' = StartedBy(x)
    /\ UNCHANGED <<what, popts, pinned, userPins, push, backedUp, counts, recFile, recorder, ncrashes, nuser, mixed, excused>>
\* The name is removed, whatever file it is by now.
ClearRemove(x) ==
    /\ clearing[x].at = "remove"
    /\ recFile' = FALSE /\ flock' = "none"
    /\ counts' = [c \in Content |-> 0]
    /\ recorder' = IF recorder = "open" THEN "unlinked" ELSE recorder
    /\ clearing' = ClearDone(x) /\ daemon' = StartedBy(x)
    /\ UNCHANGED <<what, popts, pinned, userPins, push, backedUp, ncrashes, nuser, mixed, excused>>

PushStep(p) ==
    \/ AddAllAndPin(p) \/ NotePin(p) \/ HashOnlyBackup(p) \/ FindPeers(p) \/ BackupReturns(p) \/ Report(p)
    \/ Unpin(p) \/ NoteUnpin(p)
PuNext ==
    \/ \E c \in Content : UserPin(c) \/ UserUnpin(c)
    \/ \E p \in Pusher : PushRefused(p)
    \/ \E p \in Pusher : PushStep(p)
    \/ \E p \in Pusher, m \in Master : PeerPins(p, m) \/ PeerIsClosing(p, m) \/ PeerFails(p, m)
    \/ Crash \/ CommandStarts \/ DaemonStarts
    \/ \E x \in Clearer : ClearPinRm(x) \/ ClearPinRmFails(x) \/ ClearUnlock(x) \/ ClearRemove(x)

PuSpec == PuInit /\ [][PuNext]_puvars

\* Notes of pins and of unpins balance: no root is noted as unpinned more often
\* than as pinned, which Clear could not handle.
NotesBalance == \A c \in Content : counts[c] >= 0

\* A pin the user asked for is not taken away by a push or by Clear, unless the
\* same root was pushed while it was pinned or pinned while it was pushed or noted.
UserPinKept == userPins \ mixed \subseteq pinned

\* A push keeps its root pinned until it has been backed up, unless another push
\* of the same root, the user, or a Clear that had begun before interferes.
PushKeepsPin ==
    \A p \in Pusher : push[p].at \in Holding /\ ~push[p].contested => what[p] \in pinned

\* A pin that no push holds and the user did not ask for is noted in the record,
\* so that the next process that starts removes it: unless the daemon died between
\* pinning and noting, the record was locked or removed meanwhile, or 'pin rm' failed.
NoPinLeft ==
    \A c \in pinned \ (userPins \cup excused) :
       \/ \E p \in Pusher : what[p] = c /\ (push[p].at \in Holding \cup {"note", "stuck"} \/ ~NeedUnpin(p))
       \/ counts[c] > 0
       \/ \E x \in Clearer : c \in clearing[x].todo

\* A push that told its client of the backup has its root pinned by as many
\* master peers as are asked, except those that were closing.
ReportedBackedUp ==
    \A p \in Pusher : push[p].at = "report" \/ (push[p].at = "ended" /\ ~push[p].failed) =>
       /\ Cardinality(push[p].done) = NumberForBackup
       /\ \A m \in push[p].done \ push[p].hollow : what[p] \in backedUp[m]

\* A pin the user asked for stays until the user takes it back.
PriorPinKept == userPins \subseteq pinned

-----------------------------------------------------------------------------
(***************************************************************************)
(* The blacklist service and command (core/commands/blacklist.go).  Lists  *)
(* are files of a published directory, named by the time they were made. A *)
(* refresh reads the directory and handles, oldest first, the lists that   *)
(* are newer than the last handling by less than Period; for every root of *)
(* a list that the node has it removes the pin and the blocks.  The time   *)
(* of the last list handled becomes the new last handling when the refresh *)
(* returns, also with an error, and is saved to a file.  The service's     *)
(* timer and the command may refresh at the same time; nothing orders      *)
(* them.                                                                   *)
(***************************************************************************)

CONSTANTS BFile,        \* lists
          Roots,        \* the roots in each: a function from BFile to sets
          Period,       \* for how long a list is handled again
          MaxDelay,     \* how long after it was made a list is published at most
          MaxTime,
          FirstPins,    \* how the roots may be pinned at first: functions from roots to modes
          MaxAdds       \* how often a listed root is added (again)

Root == UNION {Roots[f] : f \in BFile}
Refresher == {"service", "command"}

VARIABLES now,          \* the clock
          madeAt,       \* the name of each published list, 0 before
          lastHandleTime, saved,
          refresh,      \* the two refreshes
          has, pin,     \* roots the node has; "no", "own" or "indirect" pin of each
          nadds,
          handled,      \* ghost: lists that were handled to the end
          kept,         \* ghost: roots that could not be removed or were added since
          behind        \* ghost: lists that an interrupted or slow refresh may leave behind

blvars == <<now, madeAt, lastHandleTime, saved, refresh, has, pin, nadds, handled, kept, behind>>

Resting == [at |-> "off", todo |-> {}, new |-> 0]

BlInit ==
    /\ now = 1
    /\ madeAt = [f \in BFile |-> 0]
    /\ lastHandleTime = 0 /\ saved = 0
    /\ refresh = [r \in Refresher |-> Resting]
    /\ has = Root /\ pin \in FirstPins
    /\ nadds = 0
    /\ handled = {} /\ kept = {} /\ behind = {}

\* A list is published, at most MaxDelay after the time in its name.
Publish(f) ==
    /\ madeAt[f] = 0
    /\ \E n \in (now - MaxDelay)..now : n > 0 /\ madeAt' = [madeAt EXCEPT ![f] = n]
    /\ behind' = IF \E r \in Refresher : refresh[r].at # "off" THEN behind \cup {f} ELSE behind
    /\ UNCHANGED <<now, lastHandleTime, saved, refresh, has, pin, nadds, handled, kept>>

\* A listed root is added, with or without a pin.
AddRoot(c) ==
    /\ nadds < MaxAdds /\ c \notin has
    /\ has' = has \cup {c} /\ kept' = kept \cup {c} /\ nadds' = nadds + 1
    /\ \E m \in {"no", "own"} : pin' = [pin EXCEPT ![c] = m]
    /\ UNCHANGED <<now, madeAt, lastHandleTime, saved, refresh, handled, behind>>

Tick ==
    /\ now < MaxTime
    /\ now' = now + 1
    /\ UNCHANGED <<madeAt, lastHandleTime, saved, refresh, has, pin, nadds, handled, kept, behind>>

\* getBlacklistFiles.
DeadlineLate == lastHandleTime
Deadline == IF lastHandleTime > 0 THEN lastHandleTime - Period ELSE 0
Published == {f \in BFile : madeAt[f] > 0}
Considered == {f \in Published : madeAt[f] > Deadline}

RefreshStarts(r) ==
    /\ refresh[r].at = "off" /\ Considered # {}
    /\ refresh' = [refresh EXCEPT ![r] = [at |-> "on", todo |-> Considered, new |-> lastHandleTime]]
    /\ UNCHANGED <<now, madeAt, lastHandleTime, saved, has, pin, nadds, handled, kept, behind>>

\* handleBlacklistRecord fails for a root that is pinned only indirectly.
RemovableUnpinned(S) == {c \in S \cap has : pin[c] = "no"}
Removable(S) == {c \in S \cap has : pin[c] # "indirect"}
Oldest(f, S) == f \in S /\ \A g \in S : madeAt[f] <= madeAt[g]

\* handleBlacklistFile: the service goes on after a record that fails.
HandleFile(r, f) ==
    LET gone == Removable(Roots[f]) IN
    /\ refresh[r].at = "on" /\ Oldest(f, refresh[r].todo)
    /\ r = "service" \/ \A c \in Roots[f] \cap has : pin[c] # "indirect"
    /\ has' = has \ gone
    /\ pin' = [c \in Root |-> IF c \in gone THEN "no" ELSE pin[c]]
    /\ kept' = (kept \ Roots[f]) \cup {c \in Roots[f] \cap has : pin[c] = "indirect"}
    /\ handled' = handled \cup {f}
    /\ refresh' = [refresh EXCEPT ![r].todo = @ \ {f}, ![r].new = now]
    /\ UNCHANGED <<now, madeAt, lastHandleTime, saved, nadds, behind>>

\* The deferred function of refreshBlacklist; the file may fail to be written.
SaveTime(r) ==
    IF refresh[r].new = lastHandleTime THEN UNCHANGED <<lastHandleTime, saved>>
    ELSE lastHandleTime' = refresh[r].new /\ saved' \in {saved, refresh[r].new}
RefreshDone(r) ==
    /\ refresh[r].at = "on" /\ refresh[r].todo = {}
    /\ SaveTime(r)
    /\ refresh' = [refresh EXCEPT ![r] = Resting]
    /\ UNCHANGED <<now, madeAt, has, pin, nadds, handled, kept, behind>>
\* A list cannot be read, or a record of it fails for the command: the lists that
\* were not handled are left to a later refresh.
RefreshFails(r, f) ==
    /\ refresh[r].at = "on" /\ Oldest(f, refresh[r].todo)
    /\ \E part \in SUBSET Removable(Roots[f]) :
         /\ has' = has \ part
         /\ pin' = [c \in Root |-> IF c \in part THEN "no" ELSE pin[c]]
    /\ SaveTime(r)
    /\ behind' = IF refresh[r].new # lastHandleTime THEN behind \cup refresh[r].todo ELSE behind
    /\ refresh' = [refresh EXCEPT ![r] = Resting]
    /\ UNCHANGED <<now, madeAt, nadds, handled, kept>>

\* The daemon is restarted: a refresh under way is lost, the time is read again.
Restart ==
    /\ refresh' = [r \in Refresher |-> Resting]
    /\ lastHandleTime' = saved
    /\ UNCHANGED <<now, madeAt, saved, has, pin, nadds, handled, kept, behind>>

BlNext ==
    \/ \E f \in BFile : Publish(f)
    \/ \E c \in Root : AddRoot(c)
    \/ Tick \/ Restart
    \/ \E r \in Refresher : RefreshStarts(r) \/ RefreshDone(r)
    \/ \E r \in Refresher, f \in BFile : HandleFile(r, f) \/ RefreshFails(r, f)

BlSpec == BlInit /\ [][BlNext]_blvars

\* A list that was never handled is still taken up by the next refresh, when it was
\* published within Period of being made: unless a refresh that had handled others
\* stopped before it, or it was published while one was under way.
NoListSkipped == \A f \in Published \ (handled \cup behind) : madeAt[f] > Deadline

\* A root of a list that was handled is gone from the node, unless it was pinned
\* through another root, or was added since.
ListedRemoved == \A f \in handled : Roots[f] \cap has \subseteq kept

\* A list that was published in time is never passed over.
EveryListHandled == \A f \in Published \ handled : madeAt[f] > Deadline
=============================================================================
