------------------------------ MODULE DhtNode -------------------------------
(***************************************************************************)
(* The DHT's connection to one other node: the message sender kept for it  *)
(* in strmap, the stream it reuses from request to request, the retry and  *)
(* the timeout of a request, the notifications of connects and disconnects *)
(* and the node's place in the routing table.                              *)
(***************************************************************************)
EXTENDS Sequences, FiniteSets, Integers, SequencesExt, Bitwise

CONSTANTS Caller,    \* goroutines that send to the peer
          OneWay,    \* those that may call sendMessage; the others call sendRequest
          MaxSender, \* message senders created
          Stream,    \* stream identities
          MaxFlap,   \* disconnects
          Nobody

Sender == 1..MaxSender
Tries == 3           \* streamReuseTries

VARIABLES conn, flaps, notes, testing,   \* the connection and its notifications
          inTable, late,                 \* late: added by a message after a disconnect
          strmap, made, snd, doomed,     \* doomed: to be invalidated by Disconnected
          wire,                          \* the streams
          cpc, cms, retry, got,
          oneway                         \* the callers of sendMessage

dvars == <<conn, flaps, notes, testing, inTable, late, strmap, made, snd, doomed,
           wire, cpc, cms, retry, got, oneway>>
net == <<conn, flaps, notes, testing>>

Closed == [open |-> FALSE, req |-> <<>>, rep |-> <<>>]
Fresh == [s |-> Nobody, invalid |-> FALSE, lk |-> Nobody, single |-> 0]

\* Types of the message senders, their streams and the routing table's notices.
DTypeOK ==
    /\ {conn, inTable, late} \subseteq BOOLEAN /\ flaps \in 0..MaxFlap
    /\ notes \in Seq({"connected", "disconnected"}) /\ testing \in Nat
    /\ strmap \in 0..made /\ made \in 0..MaxSender
    /\ snd \in [Sender -> [s : Stream \cup {Nobody}, invalid : BOOLEAN,
                           lk : Caller \cup {Nobody}, single : 0..(Tries + 1)]]
    /\ doomed \subseteq Sender
    /\ \A s \in Stream : wire[s].open \in BOOLEAN /\ ~wire[s].open => wire[s] = Closed
    /\ \A m \in Sender : snd[m].s # Nobody =>
         (m <= made /\ \A n \in Sender \ {m} : snd[n].s # snd[m].s)
    /\ \A c \in Caller : cpc[c] \in {"open", "write", "read"} => snd[cms[c]].lk = c
    /\ cpc \in [Caller -> {"idle", "prep", "unmap", "lock", "open", "write", "read", "update",
                           "done", "failed"}]
    /\ cms \in [Caller -> 0..made] /\ retry \in [Caller -> BOOLEAN]
    /\ got \in [Caller -> Caller \cup {Nobody}] /\ oneway \subseteq OneWay

DInit ==
    /\ oneway \in SUBSET OneWay
    /\ conn = TRUE /\ flaps = 0 /\ notes = <<"connected">> /\ testing = 0
    /\ inTable = FALSE /\ late = FALSE
    /\ strmap = 0 /\ made = 0 /\ snd = [m \in Sender |-> Fresh] /\ doomed = {}
    /\ wire = [s \in Stream |-> Closed]
    /\ cpc = [c \in Caller |-> "idle"] /\ cms = [c \in Caller |-> 0]
    /\ retry = [c \in Caller |-> FALSE] /\ got = [c \in Caller |-> Nobody]

-----------------------------------------------------------------------------
(* Streams.                                                                *)

Go(c, to) == cpc' = [cpc EXCEPT ![c] = to]

\* A stream on a lost connection, or reset by the remote, is no longer open.
Usable(m) == snd[m].s # Nobody /\ wire[snd[m].s].open
Reset(w, s) == IF s = Nobody THEN w ELSE [w EXCEPT ![s] = Closed]

\* host.NewStream: dials when there is no connection.
NewStream(s) ==
    /\ ~wire[s].open /\ \A m \in Sender : snd[m].s # s
    /\ wire' = [wire EXCEPT ![s] = [Closed EXCEPT !.open = TRUE]]
    /\ conn' = TRUE
    /\ notes' = IF conn THEN notes ELSE Append(notes, "connected")

-----------------------------------------------------------------------------
(* messageSenderForPeer                                                    *)

SenderForPeer(c) ==
    /\ cpc[c] = "idle"
    /\ IF strmap # 0
         THEN Go(c, "lock") /\ cms' = [cms EXCEPT ![c] = strmap] /\ UNCHANGED <<strmap, made>>
         ELSE /\ made < MaxSender /\ made' = made + 1 /\ strmap' = made'
              /\ Go(c, "prep") /\ cms' = [cms EXCEPT ![c] = made']
    /\ UNCHANGED <<net, inTable, late, snd, doomed, wire, retry, got>>

\* prepOrInvalidate: an error leaves the sender invalid.
Prep(c) ==
    LET m == cms[c]
        fails == snd' = [snd EXCEPT ![m].invalid = TRUE, ![m].s = Nobody]
                 /\ wire' = Reset(wire, snd[m].s) /\ Go(c, "unmap") /\ UNCHANGED <<conn, notes>>
    IN /\ cpc[c] = "prep" /\ snd[m].lk = Nobody
       /\ \/ snd[m].invalid /\ fails
          \/ ~snd[m].invalid /\ snd[m].s # Nobody /\ Go(c, "lock")
             /\ UNCHANGED <<snd, wire, conn, notes>>
          \/ ~snd[m].invalid /\ snd[m].s = Nobody
             /\ \/ \E s \in Stream : NewStream(s) /\ snd' = [snd EXCEPT ![m].s = s] /\ Go(c, "lock")
                \/ fails
       /\ UNCHANGED <<flaps, testing, inTable, late, strmap, made, doomed, cms, retry, got>>

\* After a failed prep: use the sender that replaced this one, or fail.
Unmap(c) ==
    /\ cpc[c] = "unmap"
    /\ IF strmap \notin {0, cms[c]}
         THEN Go(c, "lock") /\ cms' = [cms EXCEPT ![c] = strmap] /\ UNCHANGED strmap
         ELSE Go(c, "failed") /\ strmap' = 0 /\ UNCHANGED cms
    /\ UNCHANGED <<net, inTable, late, made, snd, doomed, wire, retry, got>>

-----------------------------------------------------------------------------
(* SendMessage and SendRequest                                             *)

LockUnchecked(c) ==
    /\ cpc[c] = "lock"
    /\ snd' = [snd EXCEPT ![cms[c]].lk = c] /\ Go(c, "open")
    /\ UNCHANGED <<net, inTable, late, strmap, made, doomed, wire, cms, retry, got>>

\* ms.lk, held from the prep to the reply.
Lock(c) ==
    /\ cpc[c] = "lock" /\ snd[cms[c]].lk = Nobody
    /\ snd' = [snd EXCEPT ![cms[c]].lk = c] /\ Go(c, "open")
    /\ UNCHANGED <<net, inTable, late, strmap, made, doomed, wire, cms, retry, got>>

OpenLeaky(c) ==
    LET m == cms[c]
    IN /\ cpc[c] = "open"
       /\ \/ snd[m].s # Nobody /\ ~snd[m].invalid /\ Go(c, "write")
             /\ UNCHANGED <<snd, wire, conn, notes>>
          \/ snd[m].s = Nobody /\ ~snd[m].invalid
             /\ \E s \in Stream : NewStream(s) /\ snd' = [snd EXCEPT ![m].s = s] /\ Go(c, "write")
          \/ Go(c, "failed") /\ UNCHANGED <<snd, wire, conn, notes>>
       /\ UNCHANGED <<flaps, testing, inTable, late, strmap, made, doomed, cms, retry, got>>

\* The prep at the top of the loop.
Open(c) ==
    LET m == cms[c]
        fails == snd' = [snd EXCEPT ![m].lk = Nobody] /\ Go(c, "failed")
                 /\ UNCHANGED <<wire, conn, notes>>
    IN /\ cpc[c] = "open"
       /\ \/ snd[m].invalid /\ fails
          \/ ~snd[m].invalid /\ snd[m].s # Nobody /\ Go(c, "write")
             /\ UNCHANGED <<snd, wire, conn, notes>>
          \/ ~snd[m].invalid /\ snd[m].s = Nobody
             /\ \/ \E s \in Stream : NewStream(s) /\ snd' = [snd EXCEPT ![m].s = s] /\ Go(c, "write")
                \/ fails
       /\ UNCHANGED <<flaps, testing, inTable, late, strmap, made, doomed, cms, retry, got>>

\* An error of the write or the read: reset the stream, and try once more.
Again(c) ==
    LET m == cms[c]
    IN /\ wire' = Reset(wire, snd[m].s)
       /\ IF retry[c]
            THEN snd' = [snd EXCEPT ![m].s = Nobody, ![m].lk = Nobody] /\ Go(c, "failed")
                 /\ UNCHANGED retry
            ELSE snd' = [snd EXCEPT ![m].s = Nobody] /\ Go(c, "open")
                 /\ retry' = [retry EXCEPT ![c] = TRUE]

\* The end of a send: a peer whose streams keep failing gets one per message.
Sent(c, w) ==
    LET m == cms[c]
        single == snd[m].single > Tries
    IN /\ snd' = [snd EXCEPT ![m].lk = Nobody,
                             ![m].s = IF single THEN Nobody ELSE @,
                             ![m].single = IF ~single /\ retry[c] THEN @ + 1 ELSE @]
       /\ wire' = IF single THEN Reset(w, snd[m].s) ELSE w

Write(c) ==
    LET s == snd[cms[c]].s
    IN /\ cpc[c] = "write"
       /\ \/ /\ Usable(cms[c]) /\ UNCHANGED retry
             /\ IF c \in oneway
                  THEN Sent(c, [wire EXCEPT ![s].req = Append(@, c)]) /\ Go(c, "done")
                  ELSE /\ wire' = [wire EXCEPT ![s].req = Append(@, c)] /\ UNCHANGED snd
                       /\ Go(c, "read")
          \/ ~Usable(cms[c]) /\ Again(c)
       /\ UNCHANGED <<net, inTable, late, strmap, made, doomed, cms, got>>

ReadKeeping(c) ==
    LET m == cms[c]
        s == snd[m].s
    IN /\ cpc[c] = "read"
       /\ \/ /\ Usable(m) /\ wire[s].rep # <<>> /\ UNCHANGED retry
             /\ Sent(c, [wire EXCEPT ![s].rep = Tail(@)])
             /\ got' = [got EXCEPT ![c] = Head(wire[s].rep)] /\ Go(c, "update")
          \/ snd' = [snd EXCEPT ![m].lk = Nobody] /\ Go(c, "failed") /\ UNCHANGED <<retry, got, wire>>
       /\ UNCHANGED <<net, inTable, late, strmap, made, doomed, cms>>

\* ctxReadMsg: a reply, a broken stream, or the timeout, which may come at any
\* moment and leave the reply on the way.
Read(c) ==
    LET m == cms[c]
        s == snd[m].s
    IN /\ cpc[c] = "read"
       /\ \/ /\ Usable(m) /\ wire[s].rep # <<>> /\ UNCHANGED retry
             /\ Sent(c, [wire EXCEPT ![s].rep = Tail(@)])
             /\ got' = [got EXCEPT ![c] = Head(wire[s].rep)] /\ Go(c, "update")
          \/ Again(c) /\ UNCHANGED got
       /\ UNCHANGED <<net, inTable, late, strmap, made, doomed, cms>>

\* updateFromMessage: the routing table is updated without a look at the connection.
UpdateFromMessage(c) ==
    /\ cpc[c] = "update" /\ Go(c, "done")
    /\ inTable' = TRUE /\ late' = (late \/ ~conn)
    /\ UNCHANGED <<net, strmap, made, snd, doomed, wire, cms, retry, got>>

\* handleNewMessage on the remote: a request is answered in turn, a one-way
\* message is not, and an error resets the stream.
Serve(s) ==
    /\ wire[s].open /\ wire[s].req # <<>>
    /\ \/ wire' = [wire EXCEPT ![s].req = Tail(@),
                               ![s].rep = IF Head(wire[s].req) \in oneway THEN @
                                          ELSE Append(@, Head(wire[s].req))]
       \/ wire' = [wire EXCEPT ![s] = Closed]
    /\ UNCHANGED <<net, inTable, late, strmap, made, snd, doomed, cpc, cms, retry, got>>

-----------------------------------------------------------------------------
(* The connection, and netNotifiee                                         *)

Disconnect ==
    /\ conn /\ flaps < MaxFlap /\ flaps' = flaps + 1
    /\ conn' = FALSE /\ notes' = Append(notes, "disconnected")
    /\ wire' = [s \in Stream |-> Closed]
    /\ UNCHANGED <<testing, inTable, late, strmap, made, snd, doomed, cpc, cms, retry, got>>

\* Connected: a peer not known to speak the protocol is tested by a goroutine.
Connected ==
    /\ notes # <<>> /\ Head(notes) = "connected" /\ notes' = Tail(notes)
    /\ \/ inTable' = (inTable \/ conn) /\ UNCHANGED testing
       \/ testing' = testing + 1 /\ UNCHANGED inTable
    /\ late' = (late /\ ~conn)
    /\ UNCHANGED <<conn, flaps, strmap, made, snd, doomed, wire, cpc, cms, retry, got>>

TestBlindly ==
    /\ testing > 0 /\ testing' = testing - 1
    /\ inTable' = TRUE
    /\ UNCHANGED <<conn, flaps, notes, late, strmap, made, snd, doomed, wire, cpc, cms, retry, got>>

\* testConnection: the connection is looked at again, under the lock.
TestConnection ==
    /\ testing > 0 /\ testing' = testing - 1
    /\ inTable' = (inTable \/ conn)
    /\ UNCHANGED <<conn, flaps, notes, late, strmap, made, snd, doomed, wire, cpc, cms, retry, got>>

Disconnected ==
    /\ notes # <<>> /\ Head(notes) = "disconnected" /\ notes' = Tail(notes)
    /\ IF conn THEN UNCHANGED <<inTable, late, strmap, doomed>>
       ELSE /\ inTable' = FALSE /\ late' = FALSE
            /\ strmap' = 0 /\ doomed' = doomed \cup ({strmap} \ {0})
    /\ UNCHANGED <<conn, flaps, testing, made, snd, wire, cpc, cms, retry, got>>

InvalidateOnce(m) ==
    /\ m \in doomed /\ snd[m].lk = Nobody /\ doomed' = doomed \ {m}
    /\ snd' = [snd EXCEPT ![m].s = Nobody]
    /\ wire' = Reset(wire, snd[m].s)
    /\ UNCHANGED <<net, inTable, late, strmap, made, cpc, cms, retry, got>>

\* The goroutine of Disconnected that waits for the sender's lock.
Invalidate(m) ==
    /\ m \in doomed /\ snd[m].lk = Nobody /\ doomed' = doomed \ {m}
    /\ snd' = [snd EXCEPT ![m].invalid = TRUE, ![m].s = Nobody]
    /\ wire' = Reset(wire, snd[m].s)
    /\ UNCHANGED <<net, inTable, late, strmap, made, cpc, cms, retry, got>>

Send(c) == \/ SenderForPeer(c) \/ Prep(c) \/ Unmap(c) \/ Lock(c) \/ Open(c) \/ Write(c)
           \/ Read(c) \/ UpdateFromMessage(c)

DNext ==
    /\ \/ \E c \in Caller : Send(c)
       \/ \E s \in Stream : Serve(s)
       \/ \E m \in Sender : Invalidate(m)
       \/ Disconnect \/ Connected \/ TestConnection \/ Disconnected
    /\ UNCHANGED oneway

DSpec == DInit /\ [][DNext]_dvars

\* A caller that can step does, and gets a lock that keeps coming free.
DFairSpec ==
    /\ DSpec
    /\ \A c \in Caller : WF_dvars(Send(c) /\ UNCHANGED oneway)
         /\ SF_dvars((Lock(c) \/ Prep(c)) /\ UNCHANGED oneway)

-----------------------------------------------------------------------------
(* Properties                                                              *)

\* A request returns the reply to itself. A reply that comes after the timeout
\* is never taken for the next request's, for the timeout resets the stream.
OwnReply == \A c \in Caller : got[c] \in {Nobody, c}

\* "It prevents the messageSender from being reused/reinitialized and then
\* forgotten (leaving the stream open)": an open stream belongs to the sender
\* in strmap or to one that is about to be invalidated.
NoForgottenStream == \A m \in Sender : Usable(m) => m = strmap \/ m \in doomed

\* Once the notifications are handled, a peer in the routing table is
\* connected, unless a late reply put it back (updateFromMessage).
TableFollows == inTable => \/ conn \/ late \/ \E i \in DOMAIN notes : notes[i] = "disconnected"

\* A call ends: a sender that fails leaves its lock free for the next.
SendEnds == \A c \in Caller : [](cpc[c] = "lock" => <>(cpc[c] \in {"done", "failed"}))

-----------------------------------------------------------------------------
(***************************************************************************)
(* The DHT's provider manager: for every key the peers that announced it,  *)
(* with the time of the announcement, in the datastore and, for the keys   *)
(* used last, in an LRU cache. One goroutine runs it, so that adding,      *)
(* reading and the hourly cleanup are each one step.                       *)
(***************************************************************************)

CONSTANTS ProvKey, ProvPeer,
          LruSize,    \* lruCacheSize
          Validity,   \* ProvideValidity
          MaxTime, Never

VARIABLES clock,
          dstore,     \* dstore[k][p]: time of the entry on disk, or Never
          lru,        \* cached keys, the one used last first
          psets,      \* psets[k]: the cached provider set, as dstore[k]
          cleaned,    \* time of the last cleanup
          announced,  \* history: the last time p announced k
          onDisk      \* keys that were only on disk at some time since then

pvars == <<clock, dstore, lru, psets, cleaned, announced, onDisk>>

Time == 0..MaxTime
Nothing == [p \in ProvPeer |-> Never]
Cached(k) == \E i \in DOMAIN lru : lru[i] = k
Members(ps) == {p \in ProvPeer : ps[p] # Never}

\* What providersForKey(k) answers.
Known(k) == Members(IF Cached(k) THEN psets[k] ELSE dstore[k])

\* Types of the provider manager's cache, its datastore and the clock.
PTypeOK ==
    /\ clock \in Time /\ cleaned \in Time
    /\ dstore \in [ProvKey -> [ProvPeer -> Time \cup {Never}]]
    /\ psets \in [ProvKey -> [ProvPeer -> Time \cup {Never}]]
    /\ announced \in [ProvKey -> [ProvPeer -> Time \cup {Never}]]
    /\ Len(lru) <= LruSize /\ \A i, j \in DOMAIN lru : lru[i] = lru[j] => i = j
    /\ onDisk \subseteq ProvKey

PInit ==
    /\ clock = 0 /\ cleaned = 0 /\ lru = <<>> /\ onDisk = {}
    /\ dstore = [k \in ProvKey |-> Nothing] /\ psets = dstore /\ announced = dstore

UsedUnbounded(k) == <<k>> \o SelectSeq(lru, LAMBDA j : j # k)

\* lru.Get and lru.Add: the key moves to the front, the last one falls out.
Used(k) == LET s == <<k>> \o SelectSeq(lru, LAMBDA j : j # k)
           IN SubSeq(s, 1, IF Len(s) < LruSize THEN Len(s) ELSE LruSize)

\* The keys that the step leaves on disk and not in the cache.
Uncached == {k \in ProvKey : Members(dstore'[k]) # {} /\ \A i \in DOMAIN lru' : lru'[i] # k}

AddProvUnloaded(k, p) ==
    /\ lru' = Used(k)
    /\ psets' = [psets EXCEPT ![k] = [(IF Cached(k) THEN @ ELSE Nothing) EXCEPT ![p] = clock]]
    /\ dstore' = [dstore EXCEPT ![k][p] = clock]
    /\ announced' = [announced EXCEPT ![k][p] = clock]
    /\ onDisk' = onDisk \cup Uncached
    /\ UNCHANGED <<clock, cleaned>>

\* addProv: into the cached set, loaded first when it is not cached, and to disk.
AddProv(k, p) ==
    /\ lru' = Used(k)
    /\ psets' = [psets EXCEPT ![k] = [(IF Cached(k) THEN @ ELSE dstore[k]) EXCEPT ![p] = clock]]
    /\ dstore' = [dstore EXCEPT ![k][p] = clock]
    /\ announced' = [announced EXCEPT ![k][p] = clock]
    /\ onDisk' = onDisk \cup Uncached
    /\ UNCHANGED <<clock, cleaned>>

\* getProvSet for a reader: a set found on disk is cached unless it is empty.
GetProviders(k) ==
    /\ Cached(k) \/ Members(dstore[k]) # {}
    /\ lru' = Used(k)
    /\ psets' = IF Cached(k) THEN psets ELSE [psets EXCEPT ![k] = dstore[k]]
    /\ UNCHANGED <<clock, dstore, cleaned, announced>>
    /\ onDisk' = onDisk \cup Uncached

Expired(t) == t # Never /\ clock - t > Validity

TrimUnlessAlone(ps) ==
    IF Cardinality(Members(ps)) <= 1 THEN ps
    ELSE [p \in ProvPeer |-> IF Expired(ps[p]) THEN Never ELSE ps[p]]

\* The set without its expired members; on disk they stay.
Trim(ps) == [p \in ProvPeer |-> IF Expired(ps[p]) THEN Never ELSE ps[p]]

\* The tick of run(), key by key in the order of the datastore: trim the key's
\* set, loading it into the cache if need be, and when nothing is left delete
\* it, on disk too.
CleanKey(st, k) ==
    LET cached == \E i \in DOMAIN st.lru : st.lru[i] = k
        ps == Trim(IF cached THEN st.psets[k] ELSE st.dstore[k])
        gone == Members(ps) = {}
        others == SelectSeq(st.lru, LAMBDA j : j # k)
        use == <<k>> \o others
    IN [lru |-> IF gone THEN others
                ELSE SubSeq(use, 1, IF Len(use) < LruSize THEN Len(use) ELSE LruSize),
        psets |-> [st.psets EXCEPT ![k] = IF gone THEN Nothing ELSE ps],
        dstore |-> IF gone THEN [st.dstore EXCEPT ![k] = Nothing] ELSE st.dstore]

Cleanup ==
    LET order == CHOOSE s \in [1..Cardinality(ProvKey) -> ProvKey] :
                   \A i, j \in DOMAIN s : s[i] = s[j] => i = j
        keys == SelectSeq(order, LAMBDA k : Members(dstore[k]) # {})
        start == [lru |-> lru, psets |-> psets, dstore |-> dstore]
        step[i \in 0..Len(keys)] == IF i = 0 THEN start ELSE CleanKey(step[i - 1], keys[i])
        end == step[Len(keys)]
    IN /\ lru' = end.lru /\ psets' = end.psets /\ dstore' = end.dstore
       /\ cleaned' = clock
       /\ onDisk' = Uncached
       /\ UNCHANGED <<clock, announced>>

Tick == clock < MaxTime /\ clock' = clock + 1
        /\ UNCHANGED <<dstore, lru, psets, cleaned, announced, onDisk>>

PNext == \/ \E k \in ProvKey, p \in ProvPeer : AddProv(k, p)
         \/ \E k \in ProvKey : GetProviders(k)
         \/ Cleanup \/ Tick

PSpec == PInit /\ [][PNext]_pvars

-----------------------------------------------------------------------------
(* Properties                                                              *)

\* A peer that announced a key no longer than the validity ago is among the
\* providers of the key, whatever was evicted, loaded again and cleaned since.
FreshKnown ==
    \A k \in ProvKey, p \in ProvPeer :
        (announced[k][p] # Never /\ ~Expired(announced[k][p])) => p \in Known(k)

\* A cleanup leaves no provider that had expired by then, but those of keys
\* that are read from disk again: there the expired entries stay until the
\* whole key has expired.
CleanupHolds ==
    \A k \in ProvKey \ onDisk : \A p \in Known(k) :
        cleaned <= announced[k][p] + Validity

-----------------------------------------------------------------------------
(***************************************************************************)
(* The k-bucket routing table: Update and Remove, the split of the last    *)
(* bucket, the connection tags kept in step with the table (makeDHT), and  *)
(* the searches for the nearest peers. Identifiers are numbers of Bits     *)
(* bits, the local one is 0.                                               *)
(***************************************************************************)

CONSTANTS Bits, BucketSize, Slow, Master

ID == 0 .. 2^Bits - 1
KPeer == ID \ {0}

VARIABLES buckets,  \* buckets[i]: front first; Go's Buckets[i - 1]
          tagged    \* peers with the "kbucket" tag in the connection manager

kvars == <<buckets, tagged>>

InTable == UNION {ToSet(buckets[i]) : i \in DOMAIN buckets}

\* commonPrefixLen(id, local)
CPL(id) == CHOOSE n \in 0..Bits : id < 2^(Bits - n) /\ (n = Bits \/ id >= 2^(Bits - n - 1))

\* The bucket of a prefix length: the last one takes the rest.
BucketID(bs, id) == IF CPL(id) >= Len(bs) THEN Len(bs) ELSE CPL(id) + 1

SplitAll(b, n) == <<SelectSeq(b, LAMBDA p : CPL(p) < n), SelectSeq(b, LAMBDA p : CPL(p) >= n)>>

\* Bucket.Split: what is closer than the bucket's own prefix moves to a new one.
Split(b, n) == <<SelectSeq(b, LAMBDA p : CPL(p) <= n), SelectSeq(b, LAMBDA p : CPL(p) > n)>>

\* nextBucket: split the last bucket until the new one is not overfull; an
\* overfull bucket that no split helped loses its last peer.
RECURSIVE NextBucket(_)
NextBucket(bs) ==
    LET n == Len(bs)
        two == Split(bs[n], n - 1)
        now == [bs EXCEPT ![n] = two[1]] \o <<two[2]>>
    IN CASE Len(two[2]) > BucketSize -> NextBucket(now)
         [] Len(two[1]) > BucketSize ->
              [bs |-> [now EXCEPT ![n] = Front(@)], out |-> {Last(two[1])}]
         [] OTHER -> [bs |-> now, out |-> {}]

KInit == buckets = <<<<>>>> /\ tagged = {}

\* Update: a known peer moves to the front; a new one, unless too slow, is
\* pushed there, and a bucket past its size is split, if it is the last, or
\* drops its least active peer.
Update(p) ==
    LET i == BucketID(buckets, p)
        pushed == [buckets EXCEPT ![i] = <<p>> \o @]
        full == Len(pushed[i]) > BucketSize
        next == IF ~full THEN [bs |-> pushed, out |-> {}]
                ELSE IF i = Len(buckets) THEN NextBucket(pushed)
                ELSE [bs |-> [pushed EXCEPT ![i] = Front(@)], out |-> {Last(pushed[i])}]
    IN \/ /\ p \in ToSet(buckets[i])
          /\ buckets' = [buckets EXCEPT ![i] = <<p>> \o SelectSeq(@, LAMBDA q : q # p)]
          /\ UNCHANGED tagged
       \/ /\ p \notin ToSet(buckets[i]) /\ p \notin Slow
          /\ buckets' = next.bs
          /\ tagged' = (tagged \cup {p}) \ next.out

RemoveKeepingTag(p) ==
    LET i == BucketID(buckets, p)
    IN /\ buckets' = [buckets EXCEPT ![i] = SelectSeq(@, LAMBDA q : q # p)]
       /\ UNCHANGED tagged

\* RoutingTable.Remove
RemovePeer(p) ==
    LET i == BucketID(buckets, p)
    IN /\ buckets' = [buckets EXCEPT ![i] = SelectSeq(@, LAMBDA q : q # p)]
       /\ tagged' = tagged \ {p}

KNext == \E p \in KPeer : Update(p) \/ RemovePeer(p)

KSpec == KInit /\ [][KNext]_kvars

-----------------------------------------------------------------------------
(* Searches                                                                *)

\* The n members of S nearest to id.
NearestOf(S, id, n) == {p \in S : Cardinality({q \in S : (q ^^ id) < (p ^^ id)}) < n}

AtLow(i) == IF i >= 1 /\ i <= Len(buckets) THEN ToSet(buckets[i]) ELSE {}

\* The bucket at index i of Go's Buckets, when there is one.
At(i) == IF i >= 0 /\ i < Len(buckets) THEN ToSet(buckets[i + 1]) ELSE {}

\* copyPeersFromList: a slice that has no room for the list is replaced by a
\* larger one, of length 0, into which nothing is copied; then the list, or the
\* part of it that counts, is appended.
CopyPeers(arr, list, wanted) ==
    LET need == Cardinality(arr.peers) + Cardinality(list)
    IN IF arr.cap < need THEN [peers |-> list \cap wanted, cap |-> need]
       ELSE [arr EXCEPT !.peers = @ \cup (list \cap wanted)]

NoPeers(count) == [peers |-> {}, cap |-> count]

\* NearestPeers: the bucket of the identifier, and then its two neighbours when
\* it holds fewer than count peers.
NearestPeers(id, count) ==
    LET i == BucketID(buckets, id) - 1
        own == CopyPeers(NoPeers(count), At(i), KPeer)
        below == CopyPeers(own, At(i - 1), KPeer)
        both == CopyPeers(below, At(i + 1), KPeer)
    IN NearestOf((IF Cardinality(own.peers) >= count THEN own ELSE both).peers, id, count)

Find(id) == IF NearestPeers(id, 1) = {id} THEN {id} ELSE {}

\* NearestMasterPeers: outwards from the bucket of the identifier, neither the
\* first bucket nor the last being reached on the way.
RECURSIVE Outwards(_, _, _, _)
Outwards(arr, lo, hi, count) ==
    LET last == Len(buckets) - 1
        down == IF lo > 0 THEN CopyPeers(arr, At(lo), Master) ELSE arr
        up == IF hi < last THEN CopyPeers(down, At(hi), Master) ELSE down
    IN IF Cardinality(arr.peers) >= count \/ ~(lo > 0 \/ hi < last) THEN arr
       ELSE Outwards(up, IF lo > 0 THEN lo - 1 ELSE lo, IF hi < last THEN hi + 1 ELSE hi, count)

NearestMasterPeersUncut(id, count) ==
    LET i == BucketID(buckets, id) - 1
    IN Outwards(CopyPeers(NoPeers(count), At(i), Master), i - 1, i + 1, count).peers

NearestMasterPeers(id, count) ==
    LET i == BucketID(buckets, id) - 1
    IN NearestOf(Outwards(CopyPeers(NoPeers(count), At(i), Master), i - 1, i + 1, count).peers,
                 id, count)

-----------------------------------------------------------------------------
(* Properties                                                              *)

\* Every bucket but the last holds peers of exactly its prefix length, the last
\* those of its own or a longer one, none holds more than BucketSize, and no
\* peer is in the table twice: what every search relies on.
BucketsOrdered ==
    \A i \in DOMAIN buckets :
        /\ Len(buckets[i]) <= BucketSize /\ IsInjective(buckets[i])
        /\ \A p \in ToSet(buckets[i]) :
             p \in KPeer /\ (CPL(p) = i - 1 \/ (i = Len(buckets) /\ CPL(p) >= i))

\* The connection manager's tags protect exactly the connections to the peers
\* in the table (PeerAdded and PeerRemoved), through splits and evictions.
TagsMatch == tagged = InTable

\* Find returns a peer exactly when it is in the table.
FindExact == \A p \in KPeer : Find(p) = {p} \cap InTable

\* NearestPeers and NearestMasterPeers answer with at most count peers of the
\* table, and when the bucket of the identifier holds as many as asked for, with
\* the nearest of the whole table.
NearestExact ==
    \A id \in ID, n \in 1..3 :
        LET own == At(BucketID(buckets, id) - 1)
            some(S, T) == S \subseteq T /\ Cardinality(S) <= n
        IN /\ some(NearestPeers(id, n), InTable) /\ some(NearestMasterPeers(id, n), InTable \cap Master)
           /\ Cardinality(own) >= n => NearestPeers(id, n) = NearestOf(InTable, id, n)
           /\ Cardinality(own \cap Master) >= n
                => NearestMasterPeers(id, n) = NearestOf(InTable \cap Master, id, n)

\* "NearestPeers returns a list of the 'count' closest peers to the given ID":
\* at the least, the peers of the identifier's own bucket, which are nearer than
\* all others, are in the answer when there is room for them.
OwnBucketKept ==
    \A id \in ID, n \in 1..3 :
        LET own == At(BucketID(buckets, id) - 1)
        IN Cardinality(own) <= n => own \subseteq NearestPeers(id, n)
=============================================================================
