----------------------------- MODULE EtcdChain -----------------------------
(***************************************************************************)
(* The shared chain kept in etcd (EtcdChain.hpp), with its optional watch  *)
(* thread and its optional copy of the older part of the chain in Redis.   *)
(*                                                                         *)
(* etcd is external: one map from keys to records with modification        *)
(* revisions, and transactions that compare and put at one instant.  An    *)
(* item has a chain record (its mod revision and the id of the next item); *)
(* when data are on separate storage it has a data record too, which no    *)
(* transaction touches again.  The code never looks at whether a call      *)
(* succeeded, only at the response, which is empty when the call failed:   *)
(* a lost reply of an append looks like a refusal.                         *)
(*                                                                         *)
(* A client is a chain object and the thread that uses it.  fetchNext that *)
(* finds nothing changes nothing and is a stuttering step; so is an        *)
(* exception of a read (the service being down).                           *)
(***************************************************************************)
EXTENDS Naturals, Sequences, FiniteSets

CONSTANTS
  Client,        \* the chain objects
  Id,            \* the ids of the items
  HeadKey,       \* the id of the head item (configuration's headKey)
  NoId,          \* the empty string: no next item
  MaxBatch,      \* how many items one appendAfter may carry (bound) when
                 \* data are on separate storage,
  MaxTogether,   \* and when they are not
  Watcher,       \* the clients configured with useWatchThread
  Cacher,        \* the clients with duplicateFromRedis and
                 \* automaticallyDuplicateToRedis
  Writer,        \* the clients that append
  MayLose,       \* whether a reply can be lost and a watch can end
  MayCrash       \* whether a process may die

ASSUME EtcdAssumption ==
  /\ HeadKey \notin Id
  /\ NoId \notin Id \cup {HeadKey}
  /\ MaxBatch \in Nat \ {0} /\ MaxTogether \in Nat \ {0}
  /\ Watcher \subseteq Client /\ Cacher \subseteq Client /\ Writer \subseteq Client
  /\ {MayLose, MayCrash} \subseteq BOOLEAN

Key == Id \cup {HeadKey}

VARIABLES
  separate,   \* configuration's saveDataOnSeparateStorage, never changed
  revision,   \* the store revision of etcd
  record,     \* etcd: the records of the items, a partial function on Key
  redis,      \* Redis: copies of records, a partial function on Key
  current,    \* the item each client holds
  pc,         \* where each client is
  wanted,     \* the id fetchNext is about to read
  batch,      \* the ids of the items appendAfter was given
  reply,      \* the revision in the reply of a successful append
  latest,     \* latestModRevision_ of each client
  watch,      \* what has become of each client's watch
  delivered,  \* the revision up to which it has reported, or from which it
              \* is to report
  published   \* history: the ids on the chain, in the order of the appends

vars == <<separate, revision, record, redis, current, pc, wanted, batch,
          reply, latest, watch, delivered, published>>
server == <<separate, revision, record, published>>

Exists(k) == k \in DOMAIN record
ItemType(rev, id, nextID) == [revision |-> rev, id |-> id, nextID |-> nextID]
NoItem == ItemType(0, NoId, NoId)
Holds(c) == current[c] # NoItem

\* A record: its mod revision, the mod revision of its data record (the same
\* when data are not separate), and the id of the next item.
Record(mod, data, nextID) == [mod |-> mod, data |-> data, nextID |-> nextID]

Status == {"idle", "fetching", "appending", "accepted", "refused",
           "duplicating"}

\* A thread of its own asks for the watch, which reports what comes after
\* that: until then the watch is "starting", then "quiet", and "reporting"
\* from its first report on; "none" when the client has no watch, or none any
\* more.
Watching == {"none", "starting", "quiet", "reporting"}

TypeOK ==
  /\ separate \in BOOLEAN
  /\ revision \in Nat
  /\ DOMAIN record \subseteq Key
  /\ \A k \in DOMAIN record :
       record[k] \in [mod : Nat, data : Nat, nextID : Id \cup {NoId}]
  /\ DOMAIN redis \subseteq Key
  /\ \A k \in DOMAIN redis :
       redis[k] \in [revision : Nat, nextID : Id \cup {NoId}]
  /\ current \in [Client -> [revision : Nat, id : Key \cup {NoId},
                             nextID : Id \cup {NoId}]]
  /\ pc \in [Client -> Status]
  /\ wanted \in [Client -> Id \cup {NoId}]
  /\ batch \in [Client -> Seq(Key)]
  /\ reply \in [Client -> Nat]
  /\ latest \in [Client -> Nat]
  /\ watch \in [Client -> Watching]
  /\ delivered \in [Client -> Nat]
  /\ published \in Seq(Key)

Empty == [k \in {} |-> 0]

Init ==
  /\ separate \in BOOLEAN
  /\ revision = 1
  /\ record = Empty
  /\ redis = Empty
  /\ current = [c \in Client |-> NoItem]
  /\ pc = [c \in Client |-> "idle"]
  /\ wanted = [c \in Client |-> NoId]
  /\ batch = [c \in Client |-> <<>>]
  /\ reply = [c \in Client |-> 0]
  /\ latest = [c \in Client |-> 0]
  /\ watch = [c \in Client |-> IF c \in Watcher THEN "starting" ELSE "none"]
  /\ delivered = [c \in Client |-> 0]
  /\ published = <<HeadKey>>

Goto(c, where) == pc' = [pc EXCEPT ![c] = where]
Take(c, item) == current' = [current EXCEPT ![c] = item]

\* f with g laid over it.
Over(g, f) == [k \in DOMAIN f \cup DOMAIN g |->
                 IF k \in DOMAIN g THEN g[k] ELSE f[k]]

-----------------------------------------------------------------------------
\* What a read of etcd (or of the copy in Redis) makes of a record.
FromEtcd(k) == ItemType(IF separate /\ k # HeadKey THEN record[k].data
                    ELSE record[k].mod, k, record[k].nextID)
FromRedis(k) == ItemType(redis[k].revision, k, redis[k].nextID)
InRedis(c, k) == c \in Cacher /\ k \in DOMAIN redis

\* head(): one transaction reads the head record, and puts it if it is not
\* there.
HeadItem(c) ==
  /\ pc[c] = "idle" /\ ~Holds(c)
  /\ IF InRedis(c, HeadKey)
     THEN Take(c, FromRedis(HeadKey)) /\ UNCHANGED <<revision, record>>
     ELSE IF Exists(HeadKey)
     THEN Take(c, FromEtcd(HeadKey)) /\ UNCHANGED <<revision, record>>
     ELSE /\ revision' = revision + 1
          /\ record' = Over([k \in {HeadKey} |-> Record(revision', revision', NoId)],
                            record)
          /\ Take(c, ItemType(revision', HeadKey, NoId))
  /\ UNCHANGED <<separate, redis, pc, wanted, batch, reply, latest, watch,
                 delivered, published>>

\* loadUntil(id): resume from an id some client has read before.
LoadUntil(c) ==
  /\ pc[c] = "idle" /\ ~Holds(c)
  /\ \E i \in 2..Len(published) :
       LET k == published[i] IN
         /\ InRedis(c, k) \/ Exists(k)
         /\ Take(c, IF InRedis(c, k) THEN FromRedis(k) ELSE FromEtcd(k))
  /\ UNCHANGED <<server, redis, pc, wanted, batch, reply, latest, watch,
                 delivered>>

\* Fault: the revision after the item's counts as seen.
NothingNew_OffByOne(c) ==
  /\ c \in Watcher
  /\ current[c].nextID = NoId
  /\ latest[c] > 0
  /\ current[c].revision + 1 >= latest[c]

\* The shortcut at the top of fetchNext: the watch thread has seen nothing
\* newer than the item.
NothingNew(c) ==
  /\ c \in Watcher
  /\ current[c].nextID = NoId
  /\ latest[c] > 0
  /\ current[c].revision >= latest[c]

\* The id of the next item, as the client or its Redis knows it.
KnownNext(c) ==
  IF current[c].nextID # NoId THEN current[c].nextID
  ELSE IF InRedis(c, current[c].id) THEN redis[current[c].id].nextID
  ELSE NoId

\* fetchNext(current) is answered by Redis alone.
FetchFromRedis(c) ==
  /\ pc[c] = "idle" /\ Holds(c) /\ ~NothingNew(c)
  /\ InRedis(c, KnownNext(c))
  /\ Take(c, FromRedis(KnownNext(c)))
  /\ UNCHANGED <<server, redis, pc, wanted, batch, reply, latest, watch,
                 delivered>>

\* fetchNext(current) asks etcd for the id of the next item, unless the
\* item at hand has it.
FindNext(c) ==
  /\ pc[c] = "idle" /\ Holds(c) /\ ~NothingNew(c)
  /\ ~InRedis(c, KnownNext(c))
  /\ \E next \in Id :
       /\ IF current[c].nextID # NoId THEN next = current[c].nextID
          ELSE Exists(current[c].id) /\ next = record[current[c].id].nextID
       /\ wanted' = [wanted EXCEPT ![c] = next]
  /\ Goto(c, "fetching")
  /\ UNCHANGED <<server, redis, current, batch, reply, latest, watch,
                 delivered>>

\* And then for its record, and data.
FetchFromEtcd(c) ==
  /\ pc[c] = "fetching"
  /\ Exists(wanted[c])
  /\ Take(c, FromEtcd(wanted[c]))
  /\ Goto(c, "idle")
  /\ wanted' = [wanted EXCEPT ![c] = NoId]
  /\ UNCHANGED <<server, redis, batch, reply, latest, watch, delivered>>

-----------------------------------------------------------------------------
\* appendAfter(current, items) with linked items (formChainItems) whose ids
\* may be any: new ones, or those of an append whose fate is not known.
CallAppendAfter(c) ==
  /\ c \in Writer
  /\ pc[c] = "idle" /\ Holds(c)
  /\ current[c].nextID = NoId       \* otherwise it returns false at once
  /\ \E n \in 1..(IF separate THEN MaxBatch ELSE MaxTogether) :
     \E ids \in [1..n -> Id] :
       /\ \A i, j \in 1..n : ids[i] = ids[j] => i = j
       /\ batch' = [batch EXCEPT ![c] = ids]
  /\ Goto(c, "appending")
  /\ UNCHANGED <<server, redis, current, wanted, reply, latest, watch,
                 delivered>>

\* Faults: the current item is not compared; or the new ones are not.
CanAppend_AnyItem(c) ==
  /\ Exists(current[c].id)
  /\ \A i \in 1..Len(batch[c]) : ~Exists(batch[c][i])
CanAppend_AnyId(c) ==
  LET k == current[c].id IN
  /\ Exists(k)
  /\ IF separate THEN record[k].nextID = NoId
     ELSE record[k].mod = current[c].revision

\* The compares of the transaction: on separate storage the current chain
\* record is still empty, otherwise it still has the revision that was read;
\* and no item of the batch exists.
CanAppend(c) ==
  LET k == current[c].id IN
  /\ Exists(k)
  /\ IF separate THEN record[k].nextID = NoId
     ELSE record[k].mod = current[c].revision
  /\ \A i \in 1..Len(batch[c]) : ~Exists(batch[c][i])

\* Which items of the batch the puts of the transaction really write.  On
\* one storage a single put request is filled in again and again, so of
\* several items the last one is put.
Put(items) == IF separate THEN 1..Len(items) ELSE {Len(items)}

NewRecords(c, rev) ==
  LET items == batch[c]
      k == current[c].id
      successor(i) == IF i = Len(items) THEN NoId ELSE items[i + 1]
      index(id) == CHOOSE i \in 1..Len(items) : items[i] = id
  IN [id \in {k} \cup {items[i] : i \in Put(items)} |->
        IF id = k THEN Record(rev, record[k].data, items[1])
        ELSE Record(rev, rev, successor(index(id)))]

\* etcd accepts the append.
AppendSucceeds(c) ==
  /\ pc[c] = "appending"
  /\ CanAppend(c)
  /\ revision' = revision + 1
  /\ record' = Over(NewRecords(c, revision'), record)
  /\ published' = published \o batch[c]
  /\ reply' = [reply EXCEPT ![c] = revision']
  /\ pc' \in {[pc EXCEPT ![c] = "accepted"]}
             \cup (IF MayLose THEN {[pc EXCEPT ![c] = "refused"]} ELSE {})
  /\ UNCHANGED <<separate, redis, current, wanted, batch, latest, watch,
                 delivered>>

\* etcd refuses it, or the request never gets there.
AppendFails(c) ==
  /\ pc[c] = "appending"
  /\ ~CanAppend(c) \/ MayLose
  /\ Goto(c, "refused")
  /\ UNCHANGED <<server, redis, current, wanted, batch, reply, latest, watch,
                 delivered>>

EndAppend(c) ==
  /\ Goto(c, "idle")
  /\ batch' = [batch EXCEPT ![c] = <<>>]
  /\ reply' = [reply EXCEPT ![c] = 0]

\* The reply of a successful append is processed: the watch's revision is
\* set to that of the append; copying to Redis begins.
AcceptReply(c) ==
  /\ pc[c] = "accepted"
  /\ latest' = IF c \in Watcher THEN [latest EXCEPT ![c] = reply[c]] ELSE latest
  /\ IF c \in Cacher
     THEN /\ Goto(c, "duplicating")
          /\ batch' = [batch EXCEPT ![c] = <<current[c].id>> \o @]
          /\ UNCHANGED reply
     ELSE EndAppend(c)
  /\ UNCHANGED <<server, redis, current, wanted, watch, delivered>>

\* appendAfter returns false: nothing is remembered.
ReturnFalse(c) ==
  /\ pc[c] = "refused"
  /\ EndAppend(c)
  /\ UNCHANGED <<server, redis, current, wanted, latest, watch, delivered>>

\* Faults: an item is copied with its own id as the next; or the last item
\* of the batch is copied too, as if it had no successor for ever.
DuplicateToRedis_OwnId(c) ==
  /\ pc[c] = "duplicating"
  /\ redis' = Over([k \in {batch[c][1]} |->
                      [revision |-> reply[c], nextID |-> batch[c][1]]], redis)
  /\ EndAppend(c)
  /\ UNCHANGED <<server, current, wanted, latest, watch, delivered>>
DuplicateToRedis_LastToo(c) ==
  /\ pc[c] = "duplicating"
  /\ redis' = Over([k \in {batch[c][1]} |->
                      [revision |-> reply[c],
                       nextID |-> (batch[c] \o <<NoId>>)[2]]], redis)
  /\ IF Len(batch[c]) > 1
     THEN batch' = [batch EXCEPT ![c] = Tail(@)] /\ UNCHANGED <<pc, reply>>
     ELSE EndAppend(c)
  /\ UNCHANGED <<server, current, wanted, latest, watch, delivered>>

\* duplicateToRedis of the items that now have a successor: the current one
\* first, then those of the batch but the last.
DuplicateToRedis(c) ==
  /\ pc[c] = "duplicating"
  /\ redis' = Over([k \in {batch[c][1]} |->
                      [revision |-> reply[c], nextID |-> batch[c][2]]], redis)
  /\ IF Len(batch[c]) > 2
     THEN batch' = [batch EXCEPT ![c] = Tail(@)] /\ UNCHANGED <<pc, reply>>
     ELSE EndAppend(c)
  /\ UNCHANGED <<server, current, wanted, latest, watch, delivered>>

-----------------------------------------------------------------------------
\* The time to live of a copy in Redis runs out (redisTTLSeconds).
Expire(k) ==
  /\ k \in DOMAIN redis
  /\ redis' = [j \in DOMAIN redis \ {k} |-> redis[j]]
  /\ UNCHANGED <<server, current, pc, wanted, batch, reply, latest, watch,
                 delivered>>

\* The watch thread's request reaches etcd: from here on, and of what comes
\* after, the watch reports.
RegisterWatch(c) ==
  /\ watch[c] = "starting"
  /\ watch' = [watch EXCEPT ![c] = "quiet"]
  /\ delivered' = [delivered EXCEPT ![c] = revision]
  /\ UNCHANGED <<server, redis, current, pc, wanted, batch, reply, latest>>

\* The watch thread receives a response with events: everything up to some
\* revision the watch has not reported yet.
WatchEvent(c) ==
  /\ watch[c] \in {"quiet", "reporting"}
  /\ \E r \in (delivered[c] + 1)..revision :
       /\ latest' = [latest EXCEPT ![c] = r]
       /\ delivered' = [delivered EXCEPT ![c] = r]
  /\ watch' = [watch EXCEPT ![c] = "reporting"]
  /\ UNCHANGED <<server, redis, current, pc, wanted, batch, reply>>

\* A read that is not ok, a write that is not, or the deadline of 24 hours:
\* the thread leaves its loop, and nothing starts it again.
WatchEnds(c) ==
  /\ MayLose
  /\ watch[c] # "none"
  /\ watch' = [watch EXCEPT ![c] = "none"]
  /\ delivered' = [delivered EXCEPT ![c] = 0]
  /\ UNCHANGED <<server, redis, current, pc, wanted, batch, reply, latest>>

\* The process dies and comes back as a new chain object, whose watch
\* is yet to come.
Restart(c) ==
  /\ MayCrash
  /\ Holds(c)
  /\ Take(c, NoItem)
  /\ Goto(c, "idle")
  /\ wanted' = [wanted EXCEPT ![c] = NoId]
  /\ batch' = [batch EXCEPT ![c] = <<>>]
  /\ reply' = [reply EXCEPT ![c] = 0]
  /\ latest' = [latest EXCEPT ![c] = 0]
  /\ watch' = [watch EXCEPT ![c] = IF c \in Watcher THEN "starting" ELSE "none"]
  /\ delivered' = [delivered EXCEPT ![c] = 0]
  /\ UNCHANGED <<server, redis>>

Fetch(c) == HeadItem(c) \/ FetchFromRedis(c) \/ FindNext(c) \/ FetchFromEtcd(c)

FinishAppend(c) == \/ AppendSucceeds(c) \/ AppendFails(c)
                   \/ AcceptReply(c) \/ ReturnFalse(c) \/ DuplicateToRedis(c)

Next ==
  \/ \E c \in Client : \/ Fetch(c) \/ LoadUntil(c)
                       \/ CallAppendAfter(c) \/ FinishAppend(c)
                       \/ RegisterWatch(c) \/ WatchEvent(c) \/ WatchEnds(c)
                       \/ Restart(c)
  \/ \E k \in Key : Expire(k)

Spec == Init /\ [][Next]_vars

\* A client asks for the next item again and again, whatever it appends in
\* between; a call that has begun gets its replies and ends; a watch that is
\* there and does not end delivers.  Nobody is obliged to append, and no watch
\* to come up or to last.
FairSpec == Spec /\ \A c \in Client :
                      /\ SF_vars(Fetch(c))
                      /\ WF_vars(FinishAppend(c))
                      /\ WF_vars(WatchEvent(c))

-----------------------------------------------------------------------------
\* Whoever follows a link finds a record: fetchNext's "No record for ..."
\* never strikes a chain that nobody has tampered with.
NoRecordMissing ==
  \A k \in DOMAIN record : record[k].nextID # NoId => Exists(record[k].nextID)

\* The records in etcd are one list, in the order in which the appends were
\* accepted, with nothing besides it: concurrent transactions neither fork
\* the chain nor leave items off it.  And "if the to be written item is
\* already on the chain, this call will always return false": no id is on it
\* twice, though lost replies make clients append again what is there.
OneChain ==
  /\ \A i \in 1..(Len(published) - 1) :
       Exists(published[i]) /\ record[published[i]].nextID = published[i + 1]
  /\ Len(published) > 1 => /\ Exists(published[Len(published)])
                           /\ record[published[Len(published)]].nextID = NoId
  /\ DOMAIN record \subseteq {published[i] : i \in 1..Len(published)}
  /\ \A i, j \in 1..Len(published) : published[i] = published[j] => i = j

\* What a client holds may be old but is never wrong: its next id is the
\* chain's, or still unknown; and, on one storage, an item whose revision is
\* still that of the record has the record's next id, so the revision
\* compare of appendAfter tells the end of the chain.
HeldItemsAreTrue ==
  \A c \in Client : Holds(c) =>
    /\ Exists(current[c].id)
    /\ current[c].nextID \in {NoId, record[current[c].id].nextID}
    /\ (~separate /\ current[c].revision = record[current[c].id].mod)
         => current[c].nextID = record[current[c].id].nextID

\* A copy in Redis, whoever wrote it and however late, is that of an item
\* that has a successor and names that successor (duplicateToRedis).
CopiesAreFinal ==
  \A k \in DOMAIN redis :
    Exists(k) /\ redis[k].nextID # NoId /\ redis[k].nextID = record[k].nextID

\* The watch may make fetchNext say "nothing" a little longer, but once it
\* has reported anything, and everything there is, only at the end of the
\* chain; although an append of the client's own may store its revision over
\* a later one that the watch has already reported.
ShortcutIsRight ==
  \A c \in Watcher :
    watch[c] = "reporting" /\ delivered[c] = revision /\ Holds(c) /\ NothingNew(c)
      => record[current[c].id].nextID = NoId

\* The client's own append has set latestModRevision_, and its watch, which
\* came up after the next append or has ended, reports nothing: fetchNext
\* says "nothing" of an item that has a successor.
HeldBack(c) ==
  /\ Holds(c) /\ NothingNew(c)
  /\ watch[c] # "reporting"
  /\ record[current[c].id].nextID # NoId

\* A client that holds an item walks on to every item on the chain, unless
\* it starts anew: an old copy in Redis does not hold it back for ever, nor
\* does the watch's shortcut, except for want of any report of the watch.
CatchesUp ==
  \A c \in Client : \A k \in 2..(Cardinality(Id) + 1) :
    (Holds(c) /\ Len(published) >= k)
      ~> (\/ ~Holds(c)
          \/ \E i \in k..Len(published) : published[i] = current[c].id
          \/ []HeldBack(c))

-----------------------------------------------------------------------------
\* The etcd chain implements SharedChain.
PositionOf(item) ==
  IF item = NoItem THEN 0
  ELSE (CHOOSE i \in 1..Len(published) : published[i] = item.id) - 1

Abstract == INSTANCE SharedChain WITH
  Item <- Id,
  chain <- Tail(published),
  position <- [c \in Client |-> PositionOf(current[c])]

ImplementsSharedChain == Abstract!ChainSpec
=============================================================================
