------------------------------- MODULE Names -------------------------------
(***************************************************************************)
(* IPNS on one node: the keystore (keystore/), the publisher, the name     *)
(* cache and the resolver (namesys/), the republisher                      *)
(* (namesys/republisher/) and the commands `key` and `name`                *)
(* (core/commands/keystore.go, publish.go, core/coreapi/key.go, name.go).  *)
(*                                                                         *)
(* A key stands for its pair and peer ID; a record is its sequence number  *)
(* and value.  The keystore is a directory of files without a lock: every  *)
(* file-system call is a step.  The routing system is external: it keeps,  *)
(* of the records put under a key, one with the highest sequence number,   *)
(* and a call to it may fail.  Lifetimes are abstracted: a cache entry may *)
(* expire at any time, a record is refreshed by the republisher.           *)
(***************************************************************************)
EXTENDS Naturals, Sequences

CONSTANTS
    Client,         \* processes that run commands
    Script,         \* Script[c]: the sequences of commands c may run
    Name,           \* names of keys in the keystore
    Key,            \* keys
    Value,          \* paths that can be published
    Repub,          \* the republisher
    Self,           \* the node's own key, not in the keystore
    Keys0,          \* the keystore at the start: a function on Name
    Routing0,       \* the records the routing system has at the start
    NoKey, NoRec, NoValue

VARIABLES
    ks,             \* FSKeystore: the key in the file of each name
    ds,             \* IpnsDsKey(k): the record kept in the datastore
    net,            \* the routing system's record
    mu,             \* IpnsPublisher.mu: who holds it
    cache,          \* mpns.cache
    npc,            \* where a client, or the republisher, is
    todoN,          \* commands a client has still to run
    key,            \* the key a process holds
    value,          \* the value a process publishes or has resolved
    rec,            \* the last record as updateRecord sees it, then its own
    names,          \* names the republisher's round has still to do
    listed,         \* the round has listed the keystore
    made,           \* history: the records created
    latest,         \* history: the value users published last
    lost,           \* history: keys removed, or overwritten by force or race
    blind,          \* history: keys whose last record could not be looked up
    reverted,       \* history: keys the republisher gave an older value
    staleCache,     \* history: keys an older value was cached for
    refreshed,      \* keys whose record the last step put into routing
    faulted         \* the last step was a failure of the routing system

Stored == {ks[n] : n \in Name} \ {NoKey}
Proc == Client \cup {Repub}
hist == <<made, latest, lost, blind, reverted, staleCache>>
evts == <<refreshed, faulted>>
nvars == <<ks, ds, net, mu, cache, npc, todoN, key, value, rec, names, listed, hist, evts>>

NInit ==
    /\ ks = Keys0
    /\ ds = [k \in Key |-> NoRec]
    /\ net = Routing0
    /\ mu = NoKey
    /\ cache = [k \in Key |-> NoValue]
    /\ npc = [p \in Proc |-> "idle"]
    /\ \E s \in [Client -> UNION {Script[c] : c \in Client}] :
         (\A c \in Client : s[c] \in Script[c]) /\ todoN = s
    /\ key = [p \in Proc |-> NoKey]
    /\ value = [p \in Proc |-> NoValue]
    /\ rec = [p \in Proc |-> NoRec]
    /\ names = {} /\ listed = FALSE
    /\ made = {}
    /\ latest = [k \in Key |-> NoValue]
    /\ lost = {} /\ blind = {} /\ reverted = {} /\ staleCache = {}
    /\ refreshed = {} /\ faulted = FALSE

ncmd(c) == Head(todoN[c])
To(p, l) == npc' = [npc EXCEPT ![p] = l]
Quiet == refreshed' = {} /\ faulted' = FALSE

\* The command returns.
NReturn(c) ==
    /\ npc' = [npc EXCEPT ![c] = "idle"]
    /\ todoN' = [todoN EXCEPT ![c] = Tail(@)]
    /\ key' = [key EXCEPT ![c] = NoKey]
    /\ value' = [value EXCEPT ![c] = NoValue]
    /\ rec' = [rec EXCEPT ![c] = NoRec]

NFail(c) ==
    NReturn(c) /\ Quiet /\ UNCHANGED <<ks, ds, net, mu, cache, names, listed, hist>>

\* The republisher goes to its next key, or waits for the timer.
EntryDone ==
    /\ npc' = [npc EXCEPT ![Repub] = "next"]
    /\ key' = [key EXCEPT ![Repub] = NoKey]
    /\ value' = [value EXCEPT ![Repub] = NoValue]
    /\ rec' = [rec EXCEPT ![Repub] = NoRec]

RoundEnds ==
    /\ npc' = [npc EXCEPT ![Repub] = "idle"]
    /\ key' = [key EXCEPT ![Repub] = NoKey]
    /\ value' = [value EXCEPT ![Repub] = NoValue]
    /\ rec' = [rec EXCEPT ![Repub] = NoRec]
    /\ names' = {} /\ listed' = FALSE

----------------------------------------------------------------------------
(* key gen, key rename, key rm *)

\* key gen: the key pair is made, then Put.
KeyGen(c) ==
    /\ npc[c] = "idle" /\ todoN[c] # <<>> /\ ncmd(c).op = "gen"
    /\ key' = [key EXCEPT ![c] = ncmd(c).key]
    /\ To(c, "put") /\ Quiet
    /\ UNCHANGED <<ks, ds, net, mu, cache, todoN, value, rec, names, listed, hist>>

RenameDeletesFirst(c) ==
    /\ npc[c] = "idle" /\ todoN[c] # <<>> /\ ncmd(c).op \in {"rename", "rm"}
    /\ IF ks[ncmd(c).name] = NoKey
         THEN NFail(c)
         ELSE /\ key' = [key EXCEPT ![c] = ks[ncmd(c).name]]
              /\ ks' = [ks EXCEPT ![ncmd(c).name] = NoKey]
              /\ To(c, IF ncmd(c).op = "rm" THEN "delete" ELSE "put")
              /\ Quiet
              /\ UNCHANGED <<ds, net, mu, cache, todoN, value, rec, names, listed, hist>>

\* key rename and key rm: Get(name).
KeyGet(c) ==
    /\ npc[c] = "idle" /\ todoN[c] # <<>> /\ ncmd(c).op \in {"rename", "rm"}
    /\ IF ks[ncmd(c).name] = NoKey
         THEN NFail(c)
         ELSE /\ key' = [key EXCEPT ![c] = ks[ncmd(c).name]]
              /\ To(c, CASE ncmd(c).op = "rm" -> "delete"
                         [] ncmd(c).force -> "has"
                         [] OTHER -> "put")
              /\ Quiet
              /\ UNCHANGED <<ks, ds, net, mu, cache, todoN, value, rec, names, listed, hist>>

\* rename -f: Has(newName), then Delete(newName).
RenameHas(c) ==
    /\ npc[c] = "has"
    /\ To(c, IF ks[ncmd(c).new] = NoKey THEN "put" ELSE "overwrite") /\ Quiet
    /\ UNCHANGED <<ks, ds, net, mu, cache, todoN, key, value, rec, names, listed, hist>>

RenameOverwrite(c) ==
    /\ npc[c] = "overwrite"
    /\ IF ks[ncmd(c).new] = NoKey
         THEN NFail(c)
         ELSE /\ ks' = [ks EXCEPT ![ncmd(c).new] = NoKey]
              /\ lost' = lost \cup {ks[ncmd(c).new]}
              /\ To(c, "put") /\ Quiet
              /\ UNCHANGED <<ds, net, mu, cache, todoN, key, value, rec, names, listed, made,
                             latest, blind, reverted, staleCache>>

\* FSKeystore.Put: Stat refuses a name that exists ...
PutStat(c) ==
    /\ npc[c] = "put"
    /\ IF ks[ncmd(c).new] # NoKey
         THEN NFail(c)                      \* ErrKeyExists
         ELSE /\ To(c, "create") /\ Quiet
              /\ UNCHANGED <<ks, ds, net, mu, cache, todoN, key, value, rec, names, listed,
                             hist>>

\* ... and Create truncates whatever another process has put since.
PutCreate(c) ==
    /\ npc[c] = "create"
    /\ ks' = [ks EXCEPT ![ncmd(c).new] = key[c]]
    /\ lost' = lost \cup ({ks[ncmd(c).new]} \ {NoKey, key[c]})
    /\ IF ncmd(c).op = "rename"
         THEN To(c, "delete") /\ UNCHANGED <<todoN, key, value, rec>>
         ELSE NReturn(c)
    /\ Quiet
    /\ UNCHANGED <<ds, net, mu, cache, names, listed, made, latest, blind, reverted,
                   staleCache>>

\* Delete of the old name, or of the name to remove.
KeyDelete(c) ==
    /\ npc[c] = "delete"
    /\ ks' = [ks EXCEPT ![ncmd(c).name] = NoKey]
    /\ lost' = IF ncmd(c).op = "rm" \/ ncmd(c).name = ncmd(c).new
                  \/ ks[ncmd(c).name] # key[c]
                 THEN lost \cup ({ks[ncmd(c).name]} \ {NoKey}) ELSE lost
    /\ NReturn(c) /\ Quiet
    /\ UNCHANGED <<ds, net, mu, cache, names, listed, made, latest, blind, reverted,
                   staleCache>>

----------------------------------------------------------------------------
(* name publish, and the publishing half of the republisher *)

\* keylookup: the key of that name.
NamePublish(c) ==
    LET k == IF ncmd(c).name = Self THEN Self ELSE ks[ncmd(c).name] IN
    /\ npc[c] = "idle" /\ todoN[c] # <<>> /\ ncmd(c).op = "publish"
    /\ IF k = NoKey
         THEN NFail(c)
         ELSE /\ key' = [key EXCEPT ![c] = k]
              /\ value' = [value EXCEPT ![c] = ncmd(c).value]
              /\ To(c, "lock") /\ Quiet
              /\ UNCHANGED <<ks, ds, net, mu, cache, todoN, rec, names, listed, hist>>

GetPublishedUnlocked(p) ==
    /\ npc[p] = "lock"
    /\ rec' = [rec EXCEPT ![p] = IF ds[key[p]] # NoRec THEN ds[key[p]] ELSE net[key[p]]]
    /\ To(p, "update") /\ Quiet
    /\ UNCHANGED <<ks, ds, net, mu, cache, todoN, key, value, names, listed, hist>>

\* updateRecord takes mu; GetPublished finds the last record in the
\* datastore, else asks the routing system, whose failure counts as none.
GetPublished(p) ==
    /\ npc[p] = "lock"
    /\ mu = NoKey
    /\ mu' = p
    /\ \/ /\ rec' = [rec EXCEPT ![p] = IF ds[key[p]] # NoRec THEN ds[key[p]]
                                                             ELSE net[key[p]]]
          /\ faulted' = FALSE
          /\ UNCHANGED blind
       \/ /\ ds[key[p]] = NoRec
          /\ rec' = [rec EXCEPT ![p] = NoRec]
          /\ faulted' = TRUE
          /\ blind' = blind \cup {key[p]}
    /\ refreshed' = {}
    /\ To(p, "update")
    /\ UNCHANGED <<ks, ds, net, cache, todoN, key, value, names, listed, made, latest,
                   lost, reverted, staleCache>>

NextSeqKept(last, v) == IF last = NoRec THEN 0 ELSE last.seq

\* The sequence number of the new record.
NextSeq(last, v) ==
    CASE last = NoRec -> 0
      [] last # NoRec /\ last.value = v -> last.seq
      [] OTHER -> last.seq + 1

UpdateRecordUnsaved(p) ==
    LET new == [seq |-> NextSeq(rec[p], value[p]), value |-> value[p]] IN
    /\ npc[p] = "update"
    /\ mu' = NoKey
    /\ rec' = [rec EXCEPT ![p] = new]
    /\ made' = made \cup {<<key[p], new.seq, new.value>>}
    /\ latest' = IF p = Repub THEN latest ELSE [latest EXCEPT ![key[p]] = value[p]]
    /\ To(p, "putvalue") /\ Quiet
    /\ UNCHANGED <<ks, ds, net, cache, todoN, key, value, names, listed, lost, blind,
                   reverted, staleCache>>

\* ipns.Create and ds.Put.
UpdateRecord(p) ==
    LET k == key[p]
        new == [seq |-> NextSeq(rec[p], value[p]), value |-> value[p]]
    IN  /\ npc[p] = "update"
        /\ ds' = [ds EXCEPT ![k] = new]
        /\ mu' = NoKey
        /\ rec' = [rec EXCEPT ![p] = new]
        /\ made' = made \cup {<<k, new.seq, new.value>>}
        /\ IF p = Repub
             THEN /\ reverted' = IF ds[k] # NoRec /\ ds[k].value # new.value
                                   THEN reverted \cup {k} ELSE reverted
                  /\ UNCHANGED latest
             ELSE /\ latest' = [latest EXCEPT ![k] = value[p]]
                  /\ reverted' = reverted \ {k}
        /\ To(p, "putvalue") /\ Quiet
        /\ UNCHANGED <<ks, net, cache, todoN, key, value, names, listed, lost, blind,
                       staleCache>>

\* External: the routing system keeps the better record.
Better(old, new) == IF old # NoRec /\ old.seq > new.seq THEN old ELSE new

PutRecordUncached(p) ==
    /\ npc[p] = "putvalue"
    /\ net' = [net EXCEPT ![key[p]] = Better(@, rec[p])]
    /\ refreshed' = {key[p]} /\ faulted' = FALSE
    /\ IF p = Repub
         THEN EntryDone /\ UNCHANGED <<todoN, names, listed>>
         ELSE NReturn(p) /\ UNCHANGED <<names, listed>>
    /\ UNCHANGED <<ks, ds, mu, cache, hist>>

\* PutRecordToRouting: PublishEntry (and PublishPublicKey) succeed.
PutRecordToRouting(p) ==
    /\ npc[p] = "putvalue"
    /\ net' = [net EXCEPT ![key[p]] = Better(@, rec[p])]
    /\ refreshed' = {key[p]} /\ faulted' = FALSE
    /\ To(p, "cacheset")
    /\ UNCHANGED <<ks, ds, mu, cache, todoN, key, value, rec, names, listed, hist>>

\* It fails or times out, with or without the record stored: the command
\* returns the error, the republisher gives up its round.
PutRecordFails(p) ==
    /\ npc[p] = "putvalue"
    /\ \/ net' = net /\ UNCHANGED staleCache
       \/ /\ net' = [net EXCEPT ![key[p]] = Better(@, rec[p])]
          /\ staleCache' = staleCache \cup {key[p]}
    /\ refreshed' = {} /\ faulted' = TRUE
    /\ IF p = Repub
         THEN RoundEnds /\ UNCHANGED todoN
         ELSE NReturn(p) /\ UNCHANGED <<names, listed>>
    /\ UNCHANGED <<ks, ds, mu, cache, made, latest, lost, blind, reverted>>

\* mpns.cacheSet, after a publish or a resolution.
CacheSet(p) ==
    LET k == key[p] IN
    /\ npc[p] = "cacheset"
    /\ cache' = [cache EXCEPT ![k] = value[p]]
    /\ staleCache' = IF value[p] = net[k].value THEN staleCache \ {k}
                                                ELSE staleCache \cup {k}
    /\ IF p = Repub
         THEN EntryDone /\ UNCHANGED <<todoN, names, listed>>
         ELSE NReturn(p) /\ UNCHANGED <<names, listed>>
    /\ Quiet
    /\ UNCHANGED <<ks, ds, net, mu, made, latest, lost, blind, reverted>>

----------------------------------------------------------------------------
(* name resolve *)

\* resolveOnce: a cached value is the answer; otherwise GetValue, which
\* fails or finds the record.
NameResolve(c) ==
    LET k == ncmd(c).key IN
    /\ npc[c] = "idle" /\ todoN[c] # <<>> /\ ncmd(c).op = "resolve"
    /\ \/ NFail(c)
       \/ /\ cache[k] = NoValue /\ net[k] # NoRec
          /\ key' = [key EXCEPT ![c] = k]
          /\ value' = [value EXCEPT ![c] = net[k].value]
          /\ To(c, "cacheset") /\ Quiet
          /\ UNCHANGED <<ks, ds, net, mu, cache, todoN, rec, names, listed, hist>>

\* cacheGet drops an entry past its time.
CacheExpires(k) ==
    /\ cache[k] # NoValue
    /\ cache' = [cache EXCEPT ![k] = NoValue]
    /\ Quiet
    /\ UNCHANGED <<ks, ds, net, mu, npc, todoN, key, value, rec, names, listed, hist>>

----------------------------------------------------------------------------
(* The republisher *)

\* The timer fires: republishEntries begins with the node's own key.
RepublishEntries ==
    /\ npc[Repub] = "idle"
    /\ key' = [key EXCEPT ![Repub] = Self]
    /\ To(Repub, "entry") /\ Quiet
    /\ UNCHANGED <<ks, ds, net, mu, cache, todoN, value, rec, names, listed, hist>>

\* republishEntry: getLastVal; a key without an entry is skipped.
RepublishEntry ==
    LET k == key[Repub] IN
    /\ npc[Repub] = "entry"
    /\ IF ds[k] = NoRec
         THEN EntryDone
         ELSE /\ value' = [value EXCEPT ![Repub] = ds[k].value]
              /\ To(Repub, "lock")
              /\ UNCHANGED <<key, rec>>
    /\ Quiet
    /\ UNCHANGED <<ks, ds, net, mu, cache, todoN, names, listed, hist>>

\* After the own key: ks.List.
RepublishList ==
    /\ npc[Repub] = "next" /\ ~listed
    /\ listed' = TRUE
    /\ names' = {n \in Name : ks[n] # NoKey}
    /\ Quiet
    /\ UNCHANGED <<ks, ds, net, mu, cache, npc, todoN, key, value, rec, hist>>

RepublishOwnOnly ==
    /\ npc[Repub] = "next" /\ listed
    /\ RoundEnds /\ Quiet
    /\ UNCHANGED <<ks, ds, net, mu, cache, todoN, hist>>

\* ks.Get of the next name; a name that is gone ends the round.
RepublishNext ==
    /\ npc[Repub] = "next" /\ listed
    /\ \/ \E n \in names :
            /\ ks[n] # NoKey
            /\ names' = names \ {n}
            /\ key' = [key EXCEPT ![Repub] = ks[n]]
            /\ To(Repub, "entry")
            /\ UNCHANGED <<value, rec, listed>>
       \/ (names = {} \/ \E n \in names : ks[n] = NoKey) /\ RoundEnds
    /\ Quiet
    /\ UNCHANGED <<ks, ds, net, mu, cache, todoN, hist>>

----------------------------------------------------------------------------
Command(c) ==
    \/ KeyGen(c) \/ KeyGet(c) \/ RenameHas(c) \/ RenameOverwrite(c) \/ PutStat(c)
    \/ PutCreate(c) \/ KeyDelete(c) \/ NamePublish(c) \/ NameResolve(c)

PublishStep(p) ==
    \/ GetPublished(p) \/ UpdateRecord(p) \/ PutRecordToRouting(p)
    \/ PutRecordFails(p) \/ CacheSet(p)

Republish == RepublishEntries \/ RepublishEntry \/ RepublishList \/ RepublishNext

NNext ==
    \/ \E c \in Client : Command(c)
    \/ \E p \in Proc : PublishStep(p)
    \/ Republish
    \/ \E k \in Key : CacheExpires(k)

NSpec == NInit /\ [][NNext]_nvars

\* Commands run to their end, the timer fires, a call to the routing system
\* returns.
NFairSpec ==
    /\ NSpec
    /\ WF_nvars(Republish \/ PublishStep(Repub))
    /\ \A c \in Client : WF_nvars(Command(c) \/ PublishStep(c))

----------------------------------------------------------------------------
(* Properties *)

\* Types of the publisher, the republisher, the key store and the name cache.
NTypeOK ==
    /\ ks \in [Name -> Key \cup {NoKey}]
    /\ \A k \in Key : ds[k] # NoRec => ds[k].seq \in Nat /\ ds[k].value \in Value
    /\ mu \in Proc \cup {NoKey}
    /\ \A p \in Proc : npc[p] = "update" <=> mu = p
    /\ cache \in [Key -> Value \cup {NoValue}]
    /\ key \in [Proc -> Key \cup {NoKey}]
    /\ names \subseteq Name

\* A sequence number stands for one value: the records of a key that have
\* the same number have the same value, whoever published them, so that
\* every node that keeps the record with the highest number resolves the
\* name alike.  The exception is a key whose last record could not be looked
\* up when its datastore had none (updateRecord under mu).
SeqNamesValue ==
    \A r, s \in made :
        r[1] = s[1] /\ r[2] = s[2] /\ r[1] \notin blind => r[3] = s[3]

\* Renaming keeps the key: at every point of a rename, so also at one where
\* the process dies or the next call fails, the key is in the keystore under
\* one of its names, unless it is removed, overwritten by force, renamed to
\* its own name, or its file truncated by a Put that raced (keyRenameCmd:
\* Put before Delete).
KeyKept == \A n \in Name : Keys0[n] \in Stored \cup lost \cup {NoKey}

\* What the node will republish is what its users published last, unless the
\* republisher read the value before and wrote it after (republishEntry).
PublishWins ==
    \A k \in Key : latest[k] # NoValue /\ k \notin reverted =>
        ds[k] # NoRec /\ ds[k].value = latest[k]

InFlight(k) == \E p \in Proc : key[p] = k /\ npc[p] \in {"putvalue", "cacheset"}

\* The name cache follows what is published: when no publication of a key is
\* under way, a cached value is the one the routing system has, unless an
\* older value was cached last, by a resolution or a publication that was
\* overtaken, or a publication failed half way (cacheSet).
CacheFollows ==
    \A k \in Key : ~InFlight(k) /\ cache[k] # NoValue /\ k \notin staleCache =>
        net[k] # NoRec /\ cache[k] = net[k].value

\* If the routing system stops failing, the record of every key that stays in
\* the keystore is put again for ever, so it does not expire
\* (republishEntries over all keys).
RecordsRefreshed ==
    \A k \in Key :
        <>[](~faulted) =>
            []<>(k \in refreshed \/ ds[k] = NoRec \/ k \notin Stored \cup {Self})
============================================================================
