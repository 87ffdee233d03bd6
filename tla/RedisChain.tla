----------------------------- MODULE RedisChain -----------------------------
(***************************************************************************)
(* The shared chain kept in Redis (RedisChain.hpp).                        *)
(*                                                                         *)
(* Redis is external: a map from keys to strings, on which one command or  *)
(* one Lua script runs at a time.  An item has a data key and a chain key, *)
(* whose value is the id of the next item.  A chain object has one         *)
(* connection, which is never set up again: once a reply is lost, every    *)
(* later call of the object throws, whether or not its last command was    *)
(* executed, until the process makes a new object.                         *)
(*                                                                         *)
(* fetchNext and loadUntil read the data and the chain key with separate   *)
(* commands, in between which others append.                               *)
(***************************************************************************)
EXTENDS Naturals, Sequences, FiniteSets

CONSTANTS
  Client,      \* the chain objects
  Id,          \* the ids of the items
  HeadKey,     \* the id of the head item (configuration's headKey)
  NoId,        \* the empty string: no next item
  MaxBatch,    \* how many items one appendAfter may carry (bound)
  MayLose      \* whether connections can break

ASSUME RedisAssumption ==
  /\ HeadKey \notin Id
  /\ NoId \notin Id \cup {HeadKey}
  /\ MaxBatch \in Nat \ {0}
  /\ MayLose \in BOOLEAN

Key == Id \cup {HeadKey}

VARIABLES
  chainKeys,   \* Redis: a partial function from ids to the next id
  dataKeys,    \* Redis: the ids whose data key is there
  current,     \* the item each client holds: its id and next id
  pc,          \* where each client is
  wanted,      \* the id whose data and chain key are being read
  batch,       \* the ids of the items appendAfter was given
  broken,      \* the clients whose connection is gone
  published    \* history: the ids on the chain, in the order of the appends

vars == <<chainKeys, dataKeys, current, pc, wanted, batch, broken, published>>
server == <<chainKeys, dataKeys, published>>

Exists(k) == k \in DOMAIN chainKeys
ItemType(id, nextID) == [id |-> id, nextID |-> nextID]
NoItem == ItemType(NoId, NoId)
Holds(c) == current[c] # NoItem

Status == {"idle", "data", "link", "appending"}

TypeOK ==
  /\ DOMAIN chainKeys \subseteq Key
  /\ \A k \in DOMAIN chainKeys : chainKeys[k] \in Id \cup {NoId}
  /\ dataKeys \subseteq Id
  /\ current \in [Client -> [id : Key \cup {NoId}, nextID : Id \cup {NoId}]]
  /\ pc \in [Client -> Status]
  /\ wanted \in [Client -> Id \cup {NoId}]
  /\ batch \in [Client -> Seq(Id)]
  /\ broken \subseteq Client
  /\ published \in Seq(Key)

Init ==
  /\ chainKeys = [k \in {} |-> NoId]
  /\ dataKeys = {}
  /\ current = [c \in Client |-> NoItem]
  /\ pc = [c \in Client |-> "idle"]
  /\ wanted = [c \in Client |-> NoId]
  /\ batch = [c \in Client |-> <<>>]
  /\ broken = {}
  /\ published = <<HeadKey>>

Goto(c, where) == pc' = [pc EXCEPT ![c] = where]
Set(new) == chainKeys' = [k \in DOMAIN chainKeys \cup DOMAIN new |->
                            IF k \in DOMAIN new THEN new[k] ELSE chainKeys[k]]

-----------------------------------------------------------------------------
\* head(): a script gets the head's chain key, or sets it to ''.
HeadItem(c) ==
  /\ pc[c] = "idle" /\ ~Holds(c) /\ c \notin broken
  /\ IF Exists(HeadKey) THEN UNCHANGED chainKeys
     ELSE Set([k \in {HeadKey} |-> NoId])
  /\ current' = [current EXCEPT ![c] = ItemType(HeadKey, chainKeys'[HeadKey])]
  /\ UNCHANGED <<dataKeys, pc, wanted, batch, broken, published>>

\* loadUntil(id) with an id some client has read before.
LoadUntil(c) ==
  /\ pc[c] = "idle" /\ ~Holds(c) /\ c \notin broken
  /\ \E i \in 2..Len(published) : wanted' = [wanted EXCEPT ![c] = published[i]]
  /\ Goto(c, "data")
  /\ UNCHANGED <<server, current, batch, broken>>

\* fetchNext(current): the id of the next item, from the item at hand or
\* from its chain key; an empty one ends the call and changes nothing.
FindNext(c) ==
  /\ pc[c] = "idle" /\ Holds(c) /\ c \notin broken
  /\ \E next \in Id :
       /\ IF current[c].nextID # NoId THEN next = current[c].nextID
          ELSE Exists(current[c].id) /\ next = chainKeys[current[c].id]
       /\ wanted' = [wanted EXCEPT ![c] = next]
  /\ Goto(c, "data")
  /\ UNCHANGED <<server, current, batch, broken>>

\* Then its data.
FetchData(c) ==
  /\ pc[c] = "data" /\ c \notin broken
  /\ wanted[c] \in dataKeys
  /\ Goto(c, "link")
  /\ UNCHANGED <<server, current, wanted, batch, broken>>

\* And its chain key.
FetchLink(c) ==
  /\ pc[c] = "link" /\ c \notin broken
  /\ Exists(wanted[c])
  /\ current' = [current EXCEPT ![c] = ItemType(wanted[c], chainKeys[wanted[c]])]
  /\ wanted' = [wanted EXCEPT ![c] = NoId]
  /\ Goto(c, "idle")
  /\ UNCHANGED <<server, batch, broken>>

\* appendAfter(current, items) with linked items of any ids.
CallAppendAfter(c) ==
  /\ pc[c] = "idle" /\ Holds(c) /\ c \notin broken
  /\ current[c].nextID = NoId       \* otherwise it returns false at once
  /\ \E n \in 1..MaxBatch : \E ids \in [1..n -> Id] :
       /\ \A i, j \in 1..n : ids[i] = ids[j] => i = j
       /\ batch' = [batch EXCEPT ![c] = ids]
  /\ Goto(c, "appending")
  /\ UNCHANGED <<server, current, wanted, broken>>

\* Fault: the script does not look whether the current item is the last.
CanAppend_AnyItem(c) ==
  /\ Exists(current[c].id)
  /\ \A i \in 1..Len(batch[c]) : ~Exists(batch[c][i]) /\ batch[c][i] \notin dataKeys

\* The condition of the script: the current item is the last one, and of the
\* new items neither data nor chain key is there.
CanAppend(c) ==
  /\ Exists(current[c].id) /\ chainKeys[current[c].id] = NoId
  /\ \A i \in 1..Len(batch[c]) : ~Exists(batch[c][i]) /\ batch[c][i] \notin dataKeys

\* Fault: of several items only the first one's data are set.
DoAppend_FirstData(c) ==
  LET items == batch[c]
      line == <<current[c].id>> \o items \o <<NoId>>
      links == [k \in {line[i] : i \in 1..(Len(items) + 1)} |->
                  line[1 + CHOOSE i \in 1..(Len(items) + 1) : line[i] = k]]
  IN /\ Set(links)
     /\ dataKeys' = dataKeys \cup {items[1]}
     /\ published' = published \o items

\* And its effect: all keys are set at once.
DoAppend(c) ==
  LET items == batch[c]
      line == <<current[c].id>> \o items \o <<NoId>>
      links == [k \in {line[i] : i \in 1..(Len(items) + 1)} |->
                  line[1 + CHOOSE i \in 1..(Len(items) + 1) : line[i] = k]]
  IN /\ Set(links)
     /\ dataKeys' = dataKeys \cup {items[i] : i \in 1..Len(items)}
     /\ published' = published \o items

\* The script runs and its answer arrives: appendAfter returns true or false.
AppendAnswered(c) ==
  /\ pc[c] = "appending" /\ c \notin broken
  /\ IF CanAppend(c) THEN DoAppend(c) ELSE UNCHANGED server
  /\ Goto(c, "idle")
  /\ batch' = [batch EXCEPT ![c] = <<>>]
  /\ UNCHANGED <<current, wanted, broken>>

\* The connection breaks under a command, executed or not, and the call
\* throws: "Redis chain compare set error", "fetch error".
ConnectionLost(c) ==
  /\ MayLose /\ c \notin broken
  /\ \/ pc[c] = "appending" /\ CanAppend(c) /\ DoAppend(c)
     \/ UNCHANGED server
  /\ broken' = broken \cup {c}
  /\ Goto(c, "idle")
  /\ wanted' = [wanted EXCEPT ![c] = NoId]
  /\ batch' = [batch EXCEPT ![c] = <<>>]
  /\ UNCHANGED current

\* The process makes a new chain object, and starts from the chain again.
Reconnect(c) ==
  /\ c \in broken
  /\ broken' = broken \ {c}
  /\ current' = [current EXCEPT ![c] = NoItem]
  /\ UNCHANGED <<server, pc, wanted, batch>>

Next == \E c \in Client :
  \/ HeadItem(c) \/ LoadUntil(c)
  \/ FindNext(c) \/ FetchData(c) \/ FetchLink(c)
  \/ CallAppendAfter(c) \/ AppendAnswered(c)
  \/ ConnectionLost(c) \/ Reconnect(c)

Spec == Init /\ [][Next]_vars

-----------------------------------------------------------------------------
\* The chain keys are one list, the appends in the order they took effect,
\* no item twice and none beside it; also when callers were told nothing of
\* an append that did take effect and appended the same ids again.
OneChain ==
  /\ \A i \in 1..(Len(published) - 1) :
       Exists(published[i]) /\ chainKeys[published[i]] = published[i + 1]
  /\ Len(published) > 1 => /\ Exists(published[Len(published)])
                           /\ chainKeys[published[Len(published)]] = NoId
  /\ \A i, j \in 1..Len(published) : published[i] = published[j] => i = j
  /\ DOMAIN chainKeys \subseteq {published[i] : i \in 1..Len(published)}

\* The next id a client holds is unknown or the chain's, though the data and
\* the link of the item were read at different moments; and what a call is
\* about to read is there, so that fetchNext and loadUntil never throw but
\* for a lost connection.
HeldItemsAreTrue ==
  \A c \in Client :
    /\ Holds(c) => /\ Exists(current[c].id)
                   /\ current[c].nextID \in {NoId, chainKeys[current[c].id]}
    /\ pc[c] = "data" => wanted[c] \in dataKeys
    /\ pc[c] = "link" => Exists(wanted[c])

-----------------------------------------------------------------------------
\* The Redis chain implements SharedChain.
PositionOf(item) ==
  IF item = NoItem THEN 0
  ELSE (CHOOSE i \in 1..Len(published) : published[i] = item.id) - 1

Abstract == INSTANCE SharedChain WITH
  Item <- Id,
  chain <- Tail(published),
  position <- [c \in Client |-> PositionOf(current[c])]

ImplementsSharedChain == Abstract!ChainSpec
=============================================================================
