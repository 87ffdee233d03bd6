------------------------------ MODULE ShmChain ------------------------------
(***************************************************************************)
(* The lock-free chain in Boost shared memory                              *)
(* (LockFreeInBoostSharedMemoryChain, both the ByName and the ByOffset     *)
(* variant: they differ only in how an item is named).                     *)
(*                                                                         *)
(* The segment holds storage items; each has an atomic 'next' offset, 0    *)
(* (here Nil) until an item is appended after it.  Any number of           *)
(* processes hold pointers into the segment.  A writer constructs its      *)
(* items privately, links them together, and publishes the whole batch     *)
(* with one compare-exchange on the 'next' of the item it believes to be   *)
(* the last; if that fails it destroys the batch.  Memory is recycled by   *)
(* the segment manager, and a process may die at any point.                *)
(*                                                                         *)
(* The loop that a client runs around these operations is external (it is  *)
(* in another package); it is modelled as src/ itself uses a chain, e.g.   *)
(* tryAppend of node_lib/TMTransport_Chains.ts: walk with fetchNext until  *)
(* it finds nothing, then form items and append, or wait for an update.    *)
(***************************************************************************)
EXTENDS Naturals, Sequences, FiniteSets

CONSTANTS
  Client,     \* threads of the processes attached to the segment
  Node,       \* addresses the segment manager can hand out
  HeadPtr,    \* the address of the head item
  Nil,        \* offset 0 / nullptr
  MaxBatch,   \* how many items one appendAfter may carry (bound)
  MayCrash,   \* whether processes may die
  Notify      \* the constructor's useNotification

ASSUME ShmAssumption ==
  /\ HeadPtr \notin Node
  /\ Nil \notin Node \cup {HeadPtr}
  /\ MaxBatch \in Nat \ {0}
  /\ MayCrash \in BOOLEAN
  /\ Notify \in BOOLEAN

Address == Node \cup {HeadPtr}

VARIABLES
  next,       \* the 'next' word of every address
  live,       \* the addresses that hold a constructed storage item
  cur,        \* the item each client holds, Nil before head / loadUntil
  batch,      \* the items a client has formed and not yet handed over
  pc,         \* where each client is
  leaked,     \* history: items whose owner died before publishing them
  published   \* history: the items on the chain, in the order of the appends

vars == <<next, live, cur, batch, pc, leaked, published>>

Last(s) == s[Len(s)]
Front(s) == [i \in 1..(Len(s) - 1) |-> s[i]]
Elements(s) == {s[i] : i \in 1..Len(s)}
NoRepeat(s) == \A i, j \in 1..Len(s) : s[i] = s[j] => i = j

Status == {"idle",        \* between two operations
           "end",         \* fetchNext returned nullopt
           "forming",     \* inside formChainItem(s) / before appendAfter
           "destroying",  \* the compare-exchange failed; in destroyItem
           "waiting"}     \* in waitForUpdate

TypeOK ==
  /\ next \in [Address -> Address \cup {Nil}]
  /\ live \subseteq Address
  /\ cur \in [Client -> Address \cup {Nil}]
  /\ batch \in [Client -> Seq(Node)]
  /\ pc \in [Client -> Status]
  /\ leaked \subseteq Node
  /\ published \in Seq(Address)

Init ==
  /\ next = [a \in Address |-> Nil]
  /\ live = {HeadPtr}
  /\ cur = [c \in Client |-> Nil]
  /\ batch = [c \in Client |-> <<>>]
  /\ pc = [c \in Client |-> "idle"]
  /\ leaked = {}
  /\ published = <<HeadPtr>>

-----------------------------------------------------------------------------
\* head(): the item found or constructed under the head's name.
HeadItem(c) ==
  /\ pc[c] = "idle"
  /\ cur[c] = Nil
  /\ cur' = [cur EXCEPT ![c] = HeadPtr]
  /\ UNCHANGED <<next, live, batch, pc, leaked, published>>

\* loadUntil(id): resume from a storage id.  Ids come from
\* extractStorageID of an item some client has read, so they name an item
\* of the chain.
LoadUntil(c) ==
  /\ pc[c] = "idle"
  /\ cur[c] = Nil
  /\ \E i \in 1..Len(published) : cur' = [cur EXCEPT ![c] = published[i]]
  /\ UNCHANGED <<next, live, batch, pc, leaked, published>>

\* fetchNext(current) follows a non-zero 'next'.
FetchNext(c) ==
  /\ pc[c] \in {"idle", "end"}
  /\ cur[c] # Nil
  /\ next[cur[c]] # Nil
  /\ cur' = [cur EXCEPT ![c] = next[cur[c]]]
  /\ pc' = [pc EXCEPT ![c] = "idle"]
  /\ UNCHANGED <<next, live, batch, leaked, published>>

\* fetchNext(current) returns nullopt.
FetchNothing(c) ==
  /\ pc[c] = "idle"
  /\ cur[c] # Nil
  /\ next[cur[c]] = Nil
  /\ pc' = [pc EXCEPT ![c] = "end"]
  /\ UNCHANGED <<next, live, cur, batch, leaked, published>>

\* Fault: 'next' of a new item holds anything.
FormChainItem_Garbage(c) ==
  /\ pc[c] = "end"
  /\ \E n \in Node \ live :
       /\ live' = live \cup {n}
       /\ next' = [next EXCEPT ![n] = "garbage"]
       /\ batch' = [batch EXCEPT ![c] = <<n>>]
  /\ pc' = [pc EXCEPT ![c] = "forming"]
  /\ UNCHANGED <<cur, leaked, published>>

\* One turn of the loop of formChainItems (or the only formChainItem):
\* construct an item with next = 0 and link the previous one to it.
FormChainItem(c) ==
  /\ pc[c] \in {"end", "forming"}
  /\ Len(batch[c]) < MaxBatch
  /\ \E n \in Node \ live :
       /\ live' = live \cup {n}
       /\ next' = [a \in Address |->
                     IF a = n THEN Nil
                     ELSE IF batch[c] # <<>> /\ a = Last(batch[c]) THEN n
                     ELSE next[a]]
       /\ batch' = [batch EXCEPT ![c] = Append(@, n)]
  /\ pc' = [pc EXCEPT ![c] = "forming"]
  /\ UNCHANGED <<cur, leaked, published>>

\* notify_all: every waitForUpdate in progress returns.
NotifyAll(st) ==
  IF Notify
  THEN [c \in Client |-> IF st[c] = "waiting" THEN "idle" ELSE st[c]]
  ELSE st

\* Faults: the link is stored without a compare-exchange; or the result of
\* the compare-exchange is read the wrong way round.
AppendSucceeds_Store(c) ==
  /\ pc[c] = "forming"
  /\ next' = [next EXCEPT ![cur[c]] = batch[c][1]]
  /\ published' = published \o batch[c]
  /\ batch' = [batch EXCEPT ![c] = <<>>]
  /\ pc' = NotifyAll([pc EXCEPT ![c] = "idle"])
  /\ UNCHANGED <<live, cur, leaked>>
AppendSucceeds_Inverted(c) ==
  /\ pc[c] = "forming"
  /\ next[cur[c]] = Nil
  /\ next' = [next EXCEPT ![cur[c]] = batch[c][1]]
  /\ published' = published \o batch[c]
  /\ pc' = NotifyAll([pc EXCEPT ![c] = "destroying"])
  /\ UNCHANGED <<live, cur, batch, leaked>>

\* appendAfter(current, items): the compare-exchange of current->next from
\* 0 to the first item succeeds, and the whole batch is on the chain.
AppendSucceeds(c) ==
  /\ pc[c] = "forming"
  /\ next[cur[c]] = Nil
  /\ next' = [next EXCEPT ![cur[c]] = batch[c][1]]
  /\ published' = published \o batch[c]
  /\ batch' = [batch EXCEPT ![c] = <<>>]
  /\ pc' = NotifyAll([pc EXCEPT ![c] = "idle"])
  /\ UNCHANGED <<live, cur, leaked>>

\* The compare-exchange fails: destroyItem is entered.
AppendFails(c) ==
  /\ pc[c] = "forming"
  /\ next[cur[c]] # Nil
  /\ pc' = [pc EXCEPT ![c] = "destroying"]
  /\ UNCHANGED <<next, live, cur, batch, leaked, published>>

\* Fault: the rest of the batch is not followed.
DestroyItem_FirstOnly(c) ==
  /\ pc[c] = "destroying"
  /\ live' = live \ {batch[c][1]}
  /\ batch' = [batch EXCEPT ![c] = <<>>]
  /\ pc' = NotifyAll([pc EXCEPT ![c] = "idle"])
  /\ UNCHANGED <<next, cur, leaked, published>>

\* destroyPtr recurses to the end of the batch before it frees, so items go
\* back to the segment last one first, each in a critical section of the
\* segment manager.  The notification follows the last of them.
DestroyItem(c) ==
  /\ pc[c] = "destroying"
  /\ live' = live \ {Last(batch[c])}
  /\ batch' = [batch EXCEPT ![c] = Front(@)]
  /\ pc' = IF Len(batch[c]) = 1
             THEN NotifyAll([pc EXCEPT ![c] = "idle"])
             ELSE pc
  /\ UNCHANGED <<next, cur, leaked, published>>

\* waitForUpdate: a timed wait on the condition, under a mutex of its own,
\* so an append between fetchNext and the wait is not noticed.
BeginWait(c) ==
  /\ pc[c] = "end"
  /\ pc' = [pc EXCEPT ![c] = "waiting"]
  /\ UNCHANGED <<next, live, cur, batch, leaked, published>>

\* Fault: the wait has no time limit.
WaitTimeout_Never(c) == pc[c] = "waiting" /\ FALSE

\* The wait (or, without notification, the sleep) times out.
WaitTimeout(c) ==
  /\ pc[c] = "waiting"
  /\ pc' = [pc EXCEPT ![c] = "idle"]
  /\ UNCHANGED <<next, live, cur, batch, leaked, published>>

\* The process dies: its pointers are gone, its unpublished items stay
\* constructed in the segment for ever.
Crash(c) ==
  /\ MayCrash
  /\ cur[c] # Nil
  /\ leaked' = leaked \cup Elements(batch[c])
  /\ cur' = [cur EXCEPT ![c] = Nil]
  /\ batch' = [batch EXCEPT ![c] = <<>>]
  /\ pc' = [pc EXCEPT ![c] = "idle"]
  /\ UNCHANGED <<next, live, published>>

Next ==
  \E c \in Client :
    \/ HeadItem(c) \/ LoadUntil(c)
    \/ FetchNext(c) \/ FetchNothing(c)
    \/ FormChainItem(c)
    \/ AppendSucceeds(c) \/ AppendFails(c) \/ DestroyItem(c)
    \/ BeginWait(c) \/ WaitTimeout(c)
    \/ Crash(c)

Spec == Init /\ [][Next]_vars

\* A client that is not dead keeps running: what it has begun it goes on
\* with, and the timed wait ends.  Nobody is obliged to write.
Fairness ==
  \A c \in Client :
    /\ WF_vars(HeadItem(c))
    /\ WF_vars(FetchNext(c))
    /\ WF_vars(FetchNothing(c))
    /\ WF_vars(AppendSucceeds(c))
    /\ WF_vars(AppendFails(c))
    /\ WF_vars(DestroyItem(c))
    /\ WF_vars(WaitTimeout(c))

FairSpec == Spec /\ Fairness

-----------------------------------------------------------------------------
\* Which items a client owns and nobody else may see.
Private(c) == Elements(batch[c])

\* The chain in memory is exactly the list of the successful appends: every
\* link leads to the item appended next, only the last item has none and no
\* item is there twice: no append forks the chain or cuts items off
\* (appendAfter's compare-exchange against 0).
WellLinked ==
  /\ published # <<>> /\ published[1] = HeadPtr
  /\ NoRepeat(published)
  /\ \A i \in 1..(Len(published) - 1) : next[published[i]] = published[i + 1]
  /\ next[Last(published)] = Nil

\* No client ever holds, and no link of the chain leads to, memory that has
\* been given back to the segment (destroyItem after a lost race).
NoDanglingItem ==
  /\ Elements(published) \subseteq live
  /\ \A c \in Client : cur[c] # Nil => cur[c] \in Elements(published)

\* Items under construction belong to one client alone and are not on the
\* chain; inside a batch each item leads to the following one, so the first
\* compare-exchange publishes all of them (formChainItems).
PrivateBatch ==
  \A c \in Client :
       /\ Private(c) \subseteq live \ Elements(published)
       /\ \A d \in Client \ {c} : Private(c) \cap Private(d) = {}
       /\ NoRepeat(batch[c])
       /\ \A i \in 1..(Len(batch[c]) - 1) : next[batch[c][i]] = batch[c][i + 1]
       /\ pc[c] = "forming" => batch[c] # <<>> /\ next[Last(batch[c])] = Nil

\* The segment loses memory only to processes that died: every constructed
\* item is on the chain, owned by a running client, or orphaned by a crash
\* (destroyPtr frees the whole batch, not just its first item).
NoLeak ==
  live = Elements(published) \cup leaked \cup UNION {Private(c) : c \in Client}

\* Where a client is determines what it holds.
Shape ==
  \A c \in Client :
    /\ pc[c] # "idle" => cur[c] # Nil
    /\ pc[c] \in {"forming", "destroying"} <=> batch[c] # <<>>

\* The inductive invariant: none of the parts is inductive alone.  A
\* compare-exchange that finds 0 hits the last item only because links are
\* never 0 before it (WellLinked) and clients hold chain items only
\* (NoDanglingItem); the new items are in order because they were private.
IndInv == TypeOK /\ Shape /\ WellLinked /\ NoDanglingItem /\ PrivateBatch

\* A link, once set, is never changed, whatever memory is recycled: what a
\* client has read of the chain stays true.
LinksAreForever ==
  [][\A i \in 1..Len(published) :
        next[published[i]] # Nil => next'[published[i]] = next[published[i]]]_vars

\* A client that holds an item walks on to every item that is on the chain,
\* unless it dies, even when the notification of an append came before it
\* began to wait (waitForUpdate).
CatchesUp ==
  \A c \in Client : \A k \in 1..(Cardinality(Node) + 1) :
    (cur[c] # Nil /\ Len(published) >= k)
      ~> (cur[c] = Nil \/ \E i \in k..Len(published) : published[i] = cur[c])

-----------------------------------------------------------------------------
\* The shared memory chain implements SharedChain.
PositionOf(a) == IF a = Nil THEN 0
                 ELSE (CHOOSE i \in 1..Len(published) : published[i] = a) - 1

Abstract == INSTANCE SharedChain WITH
  Item <- Node,
  chain <- Tail(published),
  position <- [c \in Client |-> PositionOf(cur[c])]

ImplementsSharedChain == Abstract!ChainSpec
=============================================================================
