----------------------------- MODULE Web_proofs -----------------------------
(***************************************************************************)
(* Proofs about the web socket component, for any number of callers or     *)
(* listeners, connections, requests, publications, reconnections and       *)
(* faults.                                                                 *)
(***************************************************************************)
EXTENDS Web, FiniteSetTheorems, CommonLemmas

-----------------------------------------------------------------------------
(* What the state is made of, where remote calls are made.                 *)

Connection ==
  [alive : BOOLEAN, running : BOOLEAN, gone : BOOLEAN,
   link : {"connecting", "up", "broken", "dead"}, counter : Nat,
   clients : SUBSET (Nat \X Caller), table : SUBSET (Id \X Nat), index : SUBSET (Nat \X Id),
   inbox : Seq(Reply), hand : Seq(Reply)]
Using   == [at : WebUserAt, o : Nat, num : Nat, id : Nat, left : BOOLEAN]
Asking  == [by : Caller, o : Nat, num : Nat]
Call    == [by : Caller, final : BOOLEAN, late : BOOLEAN]
Service == [up : BOOLEAN, ready : BOOLEAN, inbox : Seq(Id \X Nat), table : SUBSET (Id \X Nat),
            index : SUBSET (Nat \X Id), work : SUBSET Id, said : SUBSET Id]
Chain   == [at : ChainAt, s : Nat]
Session == [peer : PeerAt, cut : BOOLEAN, hello : BOOLEAN, up : Seq(Id), down : Seq(Reply),
            allowed : BOOLEAN, path : BOOLEAN]
Buffer  == [ready : BOOLEAN, wait : Seq(Nat \X Id), copy : Seq(Nat \X Id)]

ClientTypes ==
  /\ conn \in Seq(Connection) /\ cur \in 0..Len(conn)
  /\ user \in [Caller -> Using]
  /\ asker \in Seq(Asking) /\ Len(asker) <= MaxId
  /\ evicted \subseteq Caller /\ {raced, belated} \subseteq BOOLEAN
  /\ heard \in [Id -> Seq(Call)]
  /\ before \in Seq(Buffer) /\ Len(before) = Len(conn)

LinkTypes ==
  /\ chain \in Seq(Chain) /\ Len(chain) = Len(conn)
  /\ sess \in Seq(Session)
  /\ secure \in BOOLEAN /\ ended \in BOOLEAN

ServerTypes == server \in [Server -> Service] /\ lost \subseteq Id

-----------------------------------------------------------------------------
(* The connections.                                                        *)

\* A connection's handlers have a session from when they are connected.
ChainIsTrue(o) ==
  /\ chain[o].s \in 0..Len(sess)
  /\ chain[o].at \in {"resolving", "connecting"} => chain[o].s = 0
  /\ chain[o].at \in {"securing", "shaking", "splicing", "sending", "writing", "reading"}
       => chain[o].s # 0
  /\ before[o].ready => chain[o].s # 0
  /\ chain[o].at \in {"sending", "writing"} <=> before[o].copy # <<>>

ChainsAreTrue == \A o \in 1..Len(conn) : ChainIsTrue(o)

\* Object o hears no more.
Cut(o) == chain[o].s # 0 /\ sess[chain[o].s].cut

\* Request i was made on object o; it goes through session k.
MadeOn(i, o)  == i \in 1..Len(asker) /\ asker[i].o = o
MadeVia(i, k) == i \in 1..Len(asker) /\ chain[asker[i].o].s = k

\* What was under way on a connection that broke is gone; a session has the
\* requests of its own object.
SessionIsTrue(k) ==
  /\ sess[k].cut => sess[k].down = <<>>
  /\ \A j \in DOMAIN sess[k].up : MadeVia(sess[k].up[j], k)

SessionsAreTrue == \A k \in 1..Len(sess) : SessionIsTrue(k)

-----------------------------------------------------------------------------
(* The callers and the clients.                                            *)

Numbered(c) == user[c].at \in {"ready", "buffering", "sending", "writing", "failing"}
Asks(c)     == user[c].at \in {"buffering", "sending", "writing"}

\* Where a caller points to, and that its number there is nobody else's.
UserIsTrue(c) ==
  /\ user[c].at \notin {"out", "refused"} => user[c].o \in 1..Len(conn)
  /\ Numbered(c) =>
       /\ user[c].num \in 1..conn[user[c].o].counter
       /\ \A q \in conn[user[c].o].clients : q[1] = user[c].num => q[2] = c
  /\ Asks(c) => user[c].id \in 1..Len(asker) /\ asker[user[c].id] = AsCaller(c)
  /\ user[c].at \in {"writing", "failing"} => chain[user[c].o].s # 0
  /\ user[c].at = "failing" => Cut(user[c].o)

UsersAreTrue == \A c \in Caller : UserIsTrue(c)

\* The clients of an object have numbers of their own.
ClientsOf(o) ==
  /\ conn[o].alive
  /\ \A q \in conn[o].clients : q[1] \in 1..conn[o].counter
  /\ \A p, q \in conn[o].clients : p[1] = q[1] => p = q

ClientsAreTrue == \A o \in 1..Len(conn) : ClientsOf(o)

\* Client q of object o is the caller it was.
IsItself(q, o) ==
  Numbered(q[2]) /\ ~user[q[2]].left /\ user[q[2]].o = o /\ user[q[2]].num = q[1]

\* Nobody will be a client of object o.
Deserted(o) ==
  conn[o].clients = {} /\ \A c \in Caller : ~(user[c].at = "adding" /\ user[c].o = o)

\* As long as no object was lost with its clients: those of the locator's
\* object are callers that have not left, and another hears no more or has
\* nobody to tell.
PlacesAreTrue ==
  ~raced /\ ~ended =>
    /\ cur # 0 => \A q \in conn[cur].clients : IsItself(q, cur)
    /\ \A o \in 1..Len(conn) : o # cur => Cut(o) \/ Deserted(o)

-----------------------------------------------------------------------------
(* Requests.                                                               *)

\* Whose a request is.
AskerIsTrue(i) ==
  /\ asker[i].o \in 1..Len(conn) /\ asker[i].num \in 1..conn[asker[i].o].counter
  /\ \A q \in conn[asker[i].o].clients : q[1] = asker[i].num => q[2] = asker[i].by

AskersAreTrue == \A i \in 1..Len(asker) : AskerIsTrue(i)

\* The tables of an object have its own requests.
TableIsTrue(o) ==
  /\ \A p \in conn[o].table : MadeOn(p[1], o) /\ asker[p[1]].num = p[2]
  /\ conn[o].index = Mirror(conn[o].table)
  /\ \A p \in conn[o].table : belated \/ \E q \in conn[o].clients : q[1] = p[2]

TablesAreTrue == \A o \in 1..Len(conn) : TableIsTrue(o)

LastHeard(i) == \E k \in DOMAIN heard[i] : heard[i][k].final

\* Request i is in no table now, and has not left one.
NotEntered(i) ==
  /\ ~LastHeard(i)
  /\ \A o \in 1..Len(conn) : \A p \in conn[o].table : p[1] # i

\* What is written to object o's buffer or copied from it is asked by it.
IsOf(w, o) == MadeOn(w[2], o) /\ asker[w[2]].num = w[1]

\* The first of the copy may be in the tables, while it is written.
Entering(o, k) == k = 1 /\ chain[o].at = "writing"

\* Each request is entered in the tables once, by its caller or by the handler
\* that empties the buffer.
BufferIsTrue(o) ==
  LET wait == before[o].wait
      copy == before[o].copy
  IN  /\ \A k \in DOMAIN wait : IsOf(wait[k], o) /\ NotEntered(wait[k][2])
      /\ \A k \in DOMAIN copy : /\ IsOf(copy[k], o)
                                /\ Entering(o, k) \/ NotEntered(copy[k][2])
      /\ \A k, l \in DOMAIN wait : wait[k][2] = wait[l][2] => k = l
      /\ \A k, l \in DOMAIN copy : copy[k][2] = copy[l][2] => k = l
      /\ \A k \in DOMAIN wait, l \in DOMAIN copy : wait[k][2] # copy[l][2]

BuffersAreTrue == \A o \in 1..Len(conn) : BufferIsTrue(o)

\* A caller about to enter its request is the one who does.
WillEnter(c) == user[c].at \in {"buffering", "sending"}
CallerEnters(c) ==
  WillEnter(c) =>
    /\ NotEntered(user[c].id)
    /\ \A k \in DOMAIN before[user[c].o].wait : before[user[c].o].wait[k][2] # user[c].id
    /\ \A k \in DOMAIN before[user[c].o].copy : before[user[c].o].copy[k][2] # user[c].id

CallersEnter == \A c \in Caller : CallerEnters(c)

\* What callbacks are told, and that the last reply ends a request.
HeardIsTrue(i) ==
  /\ i \notin 1..Len(asker) => heard[i] = <<>>
  /\ \A k \in DOMAIN heard[i] :
       /\ heard[i][k].final => k = Len(heard[i])
       /\ heard[i][k].late => raced
       /\ heard[i][k].by = asker[i].by
  /\ LastHeard(i) => \A o \in 1..Len(conn) : \A p \in conn[o].table : p[1] # i

AllHeardIsTrue == \A i \in Id : HeardIsTrue(i)

-----------------------------------------------------------------------------
(* The server.                                                             *)

\* Its entries are of requests, and of handlers that read.
EntryIsTrue(p) ==
  MadeVia(p[1], p[2]) /\ p[2] \in 1..Len(sess) /\ sess[p[2]].peer = "good"

ServiceIsTrue(x) ==
  /\ x.index = Mirror(x.table)
  /\ \A p \in x.table : EntryIsTrue(p)
  /\ x.work \subseteq {p[1] : p \in x.table} \cup lost

ServersAreTrue == \A s \in Server : ServiceIsTrue(server[s])

ClientsInv ==
  /\ UsersAreTrue /\ ClientsAreTrue /\ PlacesAreTrue /\ AskersAreTrue /\ TablesAreTrue
  /\ BuffersAreTrue /\ CallersEnter /\ AllHeardIsTrue

RpcInv ==
  /\ ClientTypes /\ LinkTypes /\ ServerTypes
  /\ ChainsAreTrue /\ SessionsAreTrue /\ ClientsInv /\ ServersAreTrue

\* Where nobody calls.
NobodyCalls ==
  /\ conn = <<>> /\ asker = <<>>
  /\ \A s \in Server : server[s].table = {} /\ server[s].index = {} /\ server[s].work = {}

-----------------------------------------------------------------------------
(* The listeners.                                                          *)

\* Their ids were given out, and are clients once; who shares a subscriber
\* has one.
ListenersInv ==
  /\ "clients" \in DOMAIN sub /\ sub.clients \in Seq(Nat) /\ owner \in Seq(Caller)
  /\ \A k, l \in DOMAIN sub.clients : sub.clients[k] = sub.clients[l] => k = l
  /\ ids = {sub.clients[k] : k \in DOMAIN sub.clients}
  /\ \A k \in DOMAIN sub.clients : sub.clients[k] <= Len(owner)
  /\ WebSocket => (chain = <<>> /\ sub.clients = <<>>) \/ DOMAIN chain = {1}

IndInv ==
  /\ kind \in {"websocket_rpc", "websocket"}
  /\ WebRpc => RpcInv
  /\ ~WebRpc => NobodyCalls
  /\ ListenersInv

-----------------------------------------------------------------------------
(* The listeners keep their place.                                         *)

\* Those of the clients that are in a set, and no other.
LEMMA ClientsInKeeps ==
  ASSUME NEW q \in Seq(Nat), NEW S,
         \A k, l \in DOMAIN q : q[k] = q[l] => k = l
  PROVE  \E w \in Seq(Nat) :
           /\ w = ClientsIn(q, S)
           /\ \A k, l \in DOMAIN w : w[k] = w[l] => k = l
           /\ {w[k] : k \in DOMAIN w} = {q[k] : k \in DOMAIN q} \cap S
<1> DEFINE D == {k \in DOMAIN q : q[k] \notin S}
           key == [n \in Nat |-> n]
<1>1. Len(q) \in Nat /\ DOMAIN q = 1..Len(q)
  OBVIOUS
<1>2. \A k \in 0..Len(q) : k # 0 => (k \in D <=> q[k] \notin S)
  BY <1>1
<1>3. PICK f : Keeping(f, q, D) /\ ClientsIn(q, S) = f[Len(q)]
  <2> HIDE DEF D
  <2> DEFINE Kept(f) == f = [k \in 0..Len(q) |->
                              IF k = 0 THEN <<>>
                              ELSE IF q[k] \in S THEN Append(f[k - 1], q[k]) ELSE f[k - 1]]
             g == CHOOSE f : Kept(f)
  <2>1. \A f : Kept(f) <=> Keeping(f, q, D)
    BY <1>2 DEF Keeping
  <2>2. Kept(g)
    <3> HIDE DEF Kept
    <3>1. QED
      BY <1>1, <2>1, KeepingExists
  <2>3. ClientsIn(q, S) = g[Len(q)]
    BY Zenon DEF ClientsIn
  <2> HIDE DEF Kept, g
  <2>4. QED
    BY <2>1, <2>2, <2>3
<1>4. PICK w : w = f[Len(q)]
  OBVIOUS
<1>5. /\ w \in Seq(Nat) /\ MadeOf(w, q, D)
      /\ (\A k, l \in DOMAIN q : key[q[k]] = key[q[l]] => k = l) =>
           \A k, l \in DOMAIN w : key[w[k]] = key[w[l]] => k = l
  <2> HIDE DEF D, key
  <2>1. QED
    BY <1>3, <1>4, KeepingKeeps
<1>6. (\A k \in DOMAIN q : key[q[k]] = q[k]) /\ \A k \in DOMAIN w : key[w[k]] = w[k]
  <2>1. (\A k \in DOMAIN q : q[k] \in Nat) /\ \A k \in DOMAIN w : w[k] \in Nat
    BY <1>5
  <2>2. QED
    BY <2>1
<1>7. \A k, l \in DOMAIN w : w[k] = w[l] => k = l
  <2> HIDE DEF D, key
  <2>1. \A k, l \in DOMAIN q : key[q[k]] = key[q[l]] => k = l
    BY <1>6
  <2>2. QED
    BY <1>5, <1>6, <2>1
<1>8. {w[k] : k \in DOMAIN w} = {q[k] : k \in DOMAIN q} \cap S
  <2>1. \A k \in DOMAIN w : \E j \in DOMAIN q : q[j] \in S /\ w[k] = q[j]
    BY <1>5 DEF MadeOf
  <2>2. \A j \in DOMAIN q : q[j] \notin S \/ \E k \in DOMAIN w : w[k] = q[j]
    BY <1>5 DEF MadeOf
  <2>3. QED
    BY <2>1, <2>2
<1>9. QED
  BY <1>3, <1>4, <1>5, <1>7, <1>8

\* Removing a client takes it out, and no other.
LEMMA ClientsWithoutKeeps ==
  ASSUME NEW q \in Seq(Nat), NEW id,
         \A k, l \in DOMAIN q : q[k] = q[l] => k = l
  PROVE  \E w \in Seq(Nat) :
           /\ w = ClientsWithout(q, id)
           /\ \A k, l \in DOMAIN w : w[k] = w[l] => k = l
           /\ {w[k] : k \in DOMAIN w} = {q[k] : k \in DOMAIN q} \ {id}
<1>1. PICK S : S = {q[k] : k \in DOMAIN q} \ {id}
  OBVIOUS
<1>2. ClientsWithout(q, id) = ClientsIn(q, S)
  BY <1>1 DEF ClientsWithout, Range
<1>3. PICK w \in Seq(Nat) : /\ w = ClientsIn(q, S)
                            /\ \A k, l \in DOMAIN w : w[k] = w[l] => k = l
                            /\ {w[k] : k \in DOMAIN w} = {q[k] : k \in DOMAIN q} \cap S
  BY ClientsInKeeps
<1>4. {q[k] : k \in DOMAIN q} \cap S = {q[k] : k \in DOMAIN q} \ {id}
  BY <1>1
<1>5. QED
  BY <1>2, <1>3, <1>4

\* The subscriber's clients, and what is known of it, are as before.
SameListeners ==
  /\ "clients" \in DOMAIN sub' /\ sub'.clients = sub.clients
  /\ ids' = ids /\ owner' = owner

LEMMA ListenersFrame ==
  ASSUME ListenersInv, SameListeners, kind' = kind,
         WebSocket => chain' = chain \/ DOMAIN chain' = {1}
  PROVE  ListenersInv'
BY Zenon DEF ListenersInv, SameListeners, WebSocket

\* A call into the component that adds a client.
LEMMA AddingKeepsPlaces ==
  ASSUME ListenersInv, NEW c \in Caller, NEW initial, kind' = kind,
         AddSubscriptionClient(c, initial)
  PROVE  ListenersInv'
<1> DEFINE id == Len(owner) + 1
<1>1. /\ "clients" \in DOMAIN sub /\ sub.clients \in Seq(Nat) /\ owner \in Seq(Caller)
      /\ \A k, l \in DOMAIN sub.clients : sub.clients[k] = sub.clients[l] => k = l
      /\ ids = {sub.clients[k] : k \in DOMAIN sub.clients}
      /\ \A k \in DOMAIN sub.clients : sub.clients[k] <= Len(owner)
      /\ WebSocket
      /\ (chain = <<>> /\ sub.clients = <<>>) \/ DOMAIN chain = {1}
  BY DEF ListenersInv, AddSubscriptionClient
<1>2. /\ owner' \in Seq(Caller) /\ Len(owner') = id /\ id \in Nat /\ Len(owner) \in Nat
  BY <1>1 DEF AddSubscriptionClient
<1>3. CASE chain = <<>> /\ chain' = <<Resolving>> /\ ids' = ids \cup {id}
           /\ sub' = [sub EXCEPT !.initial = initial, !.clients = <<id>>]
  <2>1. "clients" \in DOMAIN sub' /\ sub'.clients = <<id>>
    BY <1>1, <1>3
  <2>2. DOMAIN chain' = {1} /\ DOMAIN <<id>> = {1} /\ <<id>> \in Seq(Nat) /\ <<id>>[1] = id
    BY <1>2, <1>3
  <2>3. ids = {}
    <3>1. sub.clients = <<>>
      BY <1>1, <1>3
    <3>2. QED
      BY <1>1, <3>1
  <2>4. ids' = {sub'.clients[k] : k \in DOMAIN sub'.clients}
    BY <1>3, <2>1, <2>2, <2>3
  <2> HIDE DEF id
  <2>5. \A k, l \in DOMAIN sub'.clients : sub'.clients[k] = sub'.clients[l] => k = l
    BY <2>1, <2>2
  <2>6. \A k \in DOMAIN sub'.clients : sub'.clients[k] <= Len(owner')
    BY <1>2, <2>1, <2>2
  <2>7. QED
    BY <1>2, <2>1, <2>2, <2>4, <2>5, <2>6 DEF ListenersInv
<1>4. CASE UNCHANGED <<chain, sub, ids>>
  BY <1>1, <1>2, <1>4 DEF ListenersInv, WebSocket
<1>5. CASE chain # <<>> /\ chain' = chain /\ ids' = ids \cup {id}
           /\ sub' = [sub EXCEPT !.clients = Append(@, id)]
  <2> DEFINE q == sub.clients
             w == Append(q, id)
  <2>1. "clients" \in DOMAIN sub' /\ sub'.clients = w
    BY <1>1, <1>5
  <2>2. q \in Seq(Nat) /\ id \in Nat
    BY <1>1, <1>2
  <2>3. /\ w \in Seq(Nat) /\ w[Len(q) + 1] = id
        /\ \A j \in DOMAIN q : w[j] = q[j] /\ j \in DOMAIN w /\ q[j] \in Nat
        /\ Len(q) + 1 \in DOMAIN w
    <3> HIDE DEF q, id
    <3>1. /\ w \in Seq(Nat) /\ w[Len(q) + 1] = id
          /\ \A j \in 1..Len(q) : w[j] = q[j]
          /\ DOMAIN w = 1..(Len(q) + 1) /\ DOMAIN q = 1..Len(q) /\ Len(q) \in Nat
      BY <2>2, Added
    <3> HIDE DEF w
    <3>2. QED
      BY <2>2, <3>1
  <2>4. \A k \in DOMAIN w : \/ k \in DOMAIN q /\ w[k] = q[k]
                            \/ k = Len(q) + 1 /\ w[k] = id
    <3> HIDE DEF q, id
    <3>1. QED
      BY <2>2, AddedOne
  <2>5. \A k \in DOMAIN q : q[k] <= Len(owner) /\ q[k] # id /\ q[k] <= id
    <3>1. \A k \in DOMAIN q : q[k] <= Len(owner) /\ q[k] \in Nat
      BY <1>1, <2>3
    <3> HIDE DEF q
    <3>2. QED
      BY <1>2, <3>1
  <2>6. ids = {q[k] : k \in DOMAIN q} /\ \A k, l \in DOMAIN q : q[k] = q[l] => k = l
    BY <1>1
  <2>7. DOMAIN chain' = {1}
    BY <1>1, <1>5
  <2> HIDE DEF q, w
  <2>8. id <= id
    BY <1>2
  <2> HIDE DEF id
  <2>9. \A k, l \in DOMAIN w : w[k] = w[l] => k = l
    BY <2>4, <2>5, <2>6
  <2>10. ids' = {w[k] : k \in DOMAIN w}
    BY <1>5, <2>3, <2>4, <2>6
  <2>11. \A k \in DOMAIN w : w[k] <= Len(owner')
    BY <1>2, <2>4, <2>5, <2>8
  <2>12. QED
    BY <1>2, <2>1, <2>3, <2>7, <2>9, <2>10, <2>11 DEF ListenersInv
<1>6. QED
  BY <1>3, <1>4, <1>5 DEF AddSubscriptionClient

\* One that removes a client, if it is there.
LEMMA RemovingKeepsPlaces ==
  ASSUME ListenersInv, NEW id, kind' = kind, RemoveSubscriptionClient(id)
  PROVE  ListenersInv'
<1>1. /\ "clients" \in DOMAIN sub /\ sub.clients \in Seq(Nat) /\ owner \in Seq(Caller)
      /\ \A k, l \in DOMAIN sub.clients : sub.clients[k] = sub.clients[l] => k = l
      /\ ids = {sub.clients[k] : k \in DOMAIN sub.clients}
      /\ \A k \in DOMAIN sub.clients : sub.clients[k] <= Len(owner)
      /\ WebSocket /\ owner' = owner /\ chain' = chain
      /\ (chain = <<>> /\ sub.clients = <<>>) \/ DOMAIN chain = {1}
  BY DEF ListenersInv, RemoveSubscriptionClient, linkVars
<1>2. CASE id \notin ids
  BY <1>1, <1>2 DEF ListenersInv, RemoveSubscriptionClient, WebSocket
<1>3. CASE id \in ids
  <2>1. PICK w \in Seq(Nat) :
           /\ w = ClientsWithout(sub.clients, id)
           /\ \A k, l \in DOMAIN w : w[k] = w[l] => k = l
           /\ {w[k] : k \in DOMAIN w} = {sub.clients[k] : k \in DOMAIN sub.clients} \ {id}
    BY <1>1, ClientsWithoutKeeps
  <2>2. sub' = [sub EXCEPT !.clients = w] /\ ids' = ids \ {id}
    BY <1>3, <2>1 DEF RemoveSubscriptionClient
  <2>3. "clients" \in DOMAIN sub' /\ sub'.clients = w
    BY <1>1, <2>2
  <2>4. DOMAIN chain' = {1}
    BY <1>1, <1>3
  <2>5. \A k \in DOMAIN w : w[k] <= Len(owner')
    <3>1. \A k \in DOMAIN w : w[k] \in {sub.clients[l] : l \in DOMAIN sub.clients}
      BY <2>1
    <3>2. QED
      BY <1>1, <3>1
  <2>6. ids' = {w[k] : k \in DOMAIN w}
    BY <1>1, <2>1, <2>2
  <2>7. owner' \in Seq(Caller)
    BY <1>1
  <2>8. QED
    BY <2>1, <2>3, <2>4, <2>5, <2>6, <2>7 DEF ListenersInv
<1>4. QED
  BY <1>2, <1>3

-----------------------------------------------------------------------------
(* The steps.                                                              *)

\* The sender of a caller that has left goes.
Leaves(c) ==
  /\ user[c].left /\ user[c].at = "ready"
  /\ user' = [user EXCEPT ![c].at = "out", ![c].o = 0]
  /\ UNCHANGED <<kind, conn, cur, lock, evicted, asker, heard, server, queue, lost,
                 faults, undefVars, linkVars, webRpcVars>>

CallerSteps(c) ==
  \/ WebSetRpcClient(c) \/ WebSendRequest(c) \/ WebRemoveRpcClient(c) \/ Leaves(c)
  \/ CallStep(c)

ServerSteps(s) ==
  \/ WebSetRpcServer(s) \/ AddServer(s) \/ WebReplierStored(s) \/ RpcServerFails(s)
  \/ \E i \in Id : WebKeepsSilent(s, i) \/ \E final \in BOOLEAN : WebSendReply(s, i, final)

RpcStep ==
  \/ \E c \in Caller : CallerSteps(c)
  \/ \E o \in 1..Len(chain) : ClientChain(o)
  \/ \E k \in 1..Len(sess) : ServerHandlers(k) \/ RpcConnectionBreaks(k)
  \/ \E s \in Server : ServerSteps(s)

SubscriberStep ==
  \/ \E c \in Caller : ListenerStep(c)
  \/ \E o \in 1..Len(chain) : SubscriberChain(o) \/ ClientsHear(o)
  \/ \E k \in 1..Len(sess) : PublisherHandlers(k) \/ SubscriptionBreaks(k)
  \/ \E s \in Server : ExportStep(s)
  \/ PublisherFails

LEMMA StepIsOne ==
  ASSUME Next
  PROVE  \/ RpcStep /\ UNCHANGED webBroadcastVars
         \/ SubscriberStep /\ Broadcasts
         \/ FinalizeNext
<1>1. ASSUME NEW c \in Caller, CallNext(c)
      PROVE  RpcStep /\ UNCHANGED webBroadcastVars
  BY <1>1 DEF CallNext, Calls, RpcStep, CallerSteps
<1>2. ASSUME NEW c \in Caller, ClientStep(c), Calls
      PROVE  RpcStep /\ UNCHANGED webBroadcastVars
  <2>1. CallerSteps(c)
    <3>1. CASE WebTypedFacility(c)
      BY <3>1 DEF CallerSteps, WebTypedFacility, WebFacility, WebFacilityWithIdentity
    <3>2. CASE WebOneShotCall(c)
      BY <3>2 DEF CallerSteps, WebOneShotCall, WebOneShotRemoteCall,
                  WebOneShotRemoteCallWithIdentity
    <3>3. CASE WebOneShotCallNoReply(c)
      BY <3>3 DEF CallerSteps, WebOneShotCallNoReply, WebOneShotRemoteCallNoReply,
                  WebOneShotRemoteCallNoReplyWithIdentity
    <3>4. CASE WebRegisterFacility(c)
      BY <3>4 DEF CallerSteps, WebRegisterFacility
    <3>5. CASE WebDeregisterFacility(c)
      BY <3>5 DEF CallerSteps, WebDeregisterFacility, Leaves
    <3>6. QED
      BY <1>2, <3>1, <3>2, <3>3, <3>4, <3>5 DEF ClientStep
  <2>2. QED
    BY <1>2, <2>1 DEF Calls, RpcStep
<1>3. ASSUME NEW c \in Caller, NodeNext(c)
      PROVE  \/ RpcStep /\ UNCHANGED webBroadcastVars
             \/ SubscriberStep /\ Broadcasts
  BY <1>2, <1>3 DEF NodeNext, SubscriberStep
<1>4. ASSUME NEW o \in 1..Len(chain), ChainNext(o)
      PROVE  \/ RpcStep /\ UNCHANGED webBroadcastVars
             \/ SubscriberStep /\ Broadcasts
  BY <1>4 DEF ChainNext, Calls, RpcStep, SubscriberStep
<1>5. ASSUME NEW k \in 1..Len(sess), HandlersNext(k)
      PROVE  \/ RpcStep /\ UNCHANGED webBroadcastVars
             \/ SubscriberStep /\ Broadcasts
  BY <1>5 DEF HandlersNext, Calls, RpcStep, SubscriberStep
<1>6. ASSUME NEW s \in Server, ServeNext(s)
      PROVE  \/ RpcStep /\ UNCHANGED webBroadcastVars
             \/ SubscriberStep /\ Broadcasts
  <2>1. ServeStep(s) => ServerSteps(s)
    BY DEF ServeStep, WebIncomingLeg, WebLegs, WebWrap, WebWrapped, WebWrappedWithIdentity,
           ServerSteps
  <2>2. QED
    BY <1>6, <2>1 DEF ServeNext, Calls, RpcStep, SubscriberStep
<1>7. ASSUME FailNext
      PROVE  \/ RpcStep /\ UNCHANGED webBroadcastVars
             \/ SubscriberStep /\ Broadcasts
  BY <1>7 DEF FailNext, Calls, RpcStep, SubscriberStep, ServerSteps
<1>8. QED
  BY <1>1, <1>3, <1>4, <1>5, <1>6, <1>7 DEF Next

LEMMA CallerStepsKeepListeners ==
  ASSUME NEW c \in Caller, CallerSteps(c)
  PROVE  kind' = kind /\ (~WebRpc => UNCHANGED <<conn, asker, server, lost, chain, sess>>)
<1>1. CASE WebSetRpcClient(c)
  BY <1>1 DEF WebSetRpcClient
<1>2. CASE WebSendRequest(c)
  BY <1>2 DEF WebSendRequest
<1>3. CASE WebRemoveRpcClient(c)
  BY <1>3 DEF WebRemoveRpcClient
<1>4. CASE Leaves(c)
  BY <1>4 DEF Leaves, linkVars
<1>5. CASE WebAddRpcClient(c)
  BY <1>5 DEF WebAddRpcClient, TakeNumber, Misuse
<1>6. CASE WebBuffer(c)
  BY <1>6 DEF WebBuffer
<1>7. CASE WebDoSendRequest(c)
  BY <1>7 DEF WebDoSendRequest
<1>8. CASE WebWrite(c)
  BY <1>8 DEF WebWrite
<1>9. CASE WebWriteFailed(c)
  BY <1>9 DEF WebWriteFailed
<1>10. QED
  BY <1>1, <1>2, <1>3, <1>4, <1>5, <1>6, <1>7, <1>8, <1>9 DEF CallerSteps, CallStep

LEMMA RpcStepsKeepListeners ==
  ASSUME RpcStep
  PROVE  kind' = kind /\ (~WebRpc => UNCHANGED <<conn, asker, server, lost, chain, sess>>)
<1>1. ASSUME NEW o \in 1..Len(chain), ClientChain(o)
      PROVE  kind' = kind /\ WebRpc
  <2>1. CASE RpcClientOnResolve(o)
    BY <2>1 DEF RpcClientOnResolve, callVars
  <2>2. CASE RpcClientOnConnect(o)
    BY <2>2 DEF RpcClientOnConnect, callVars
  <2>3. CASE RpcClientOnSSLHandshake(o)
    BY <2>3 DEF RpcClientOnSSLHandshake, callVars
  <2>4. CASE RpcClientOnWebSocketHandshake(o)
    BY <2>4 DEF RpcClientOnWebSocketHandshake
  <2>5. CASE RpcClientOnRead(o)
    BY <2>5 DEF RpcClientOnRead
  <2>6. CASE RpcClientFails(o)
    BY <2>6 DEF RpcClientFails
  <2>7. QED
    BY <1>1, <2>1, <2>2, <2>3, <2>4, <2>5, <2>6 DEF ClientChain
<1>2. ASSUME NEW k \in 1..Len(sess), ServerHandlers(k) \/ RpcConnectionBreaks(k)
      PROVE  kind' = kind /\ WebRpc
  <2>1. CASE RpcServerOnAccept(k) \/ RpcServerOnRun(k) \/ RpcServerOnWsHandshake(k)
    BY <2>1 DEF RpcServerOnAccept, RpcServerOnRun, RpcServerOnWsHandshake, callVars
  <2>2. ASSUME NEW s \in Server, RpcServerOnSslHandshake(s, k)
        PROVE  kind' = kind /\ WebRpc
    BY <2>2 DEF RpcServerOnSslHandshake
  <2>3. ASSUME NEW s \in Server, RpcServerOnRead(s, k)
        PROVE  kind' = kind /\ WebRpc
    BY <2>3 DEF RpcServerOnRead
  <2>4. CASE RpcConnectionBreaks(k)
    BY <2>4 DEF RpcConnectionBreaks, callVars
  <2>5. QED
    BY <1>2, <2>1, <2>2, <2>3, <2>4 DEF ServerHandlers
<1>3. ASSUME NEW s \in Server, ServerSteps(s)
      PROVE  kind' = kind /\ WebRpc
  <2>1. CASE WebSetRpcServer(s) \/ AddServer(s) \/ WebReplierStored(s) \/ RpcServerFails(s)
    BY <2>1 DEF WebSetRpcServer, AddServer, WebReplierStored, ReplierStored, RpcServerFails,
                callVars
  <2>2. ASSUME NEW i \in Id, WebKeepsSilent(s, i)
        PROVE  kind' = kind /\ WebRpc
    BY <2>2 DEF WebKeepsSilent, KeepsSilent
  <2>3. ASSUME NEW i \in Id, NEW final \in BOOLEAN, WebSendReply(s, i, final)
        PROVE  kind' = kind /\ WebRpc
    BY <2>3 DEF WebSendReply
  <2>4. QED
    BY <1>3, <2>1, <2>2, <2>3 DEF ServerSteps
<1>4. QED
  BY <1>1, <1>2, <1>3, CallerStepsKeepListeners DEF RpcStep

\* A subscriber's handlers run on the thread of chain[1].
LEMMA ChainsKeepListeners ==
  ASSUME ListenersInv, kind' = kind,
         NEW o \in 1..Len(chain), SubscriberChain(o) \/ ClientsHear(o)
  PROVE  ListenersInv'
<1>1. WebSocket /\ o = 1
  BY DEF SubscriberChain, SubscriberOnResolve, SubscriberOnConnect, SubscriberOnSSLHandshake,
         SubscriberOnWebSocketHandshake, SubscriberOnRead, SubscriberMoves, ClientsHear,
         CallClients, Subscribed
<1>2. DOMAIN chain = {1}
  <2>1. chain # <<>>
    BY <1>1
  <2>2. QED
    BY <1>1, <2>1 DEF ListenersInv
<1>3. "clients" \in DOMAIN sub
  BY DEF ListenersInv
<1>4. SameListeners /\ (chain' = chain \/ DOMAIN chain' = {1})
  <2>1. CASE SubscriberOnResolve(o) \/ SubscriberOnConnect(o) \/ SubscriberOnSSLHandshake(o)
    <3>1. sub' = sub /\ ids' = ids /\ owner' = owner
      BY <2>1 DEF SubscriberOnResolve, SubscriberOnConnect, SubscriberOnSSLHandshake, subVars
    <3>2. chain' = chain \/ DOMAIN chain' = {1}
      BY <1>2, <2>1 DEF SubscriberOnResolve, SubscriberOnConnect, SubscriberOnSSLHandshake,
                        Resolves, Connects, Secures, Turns
    <3>3. QED
      BY <1>3, <3>1, <3>2 DEF SameListeners
  <2>2. CASE SubscriberOnWebSocketHandshake(o)
    <3>1. sub' = sub /\ ids' = ids /\ owner' = owner
      BY <2>2 DEF SubscriberOnWebSocketHandshake, subVars
    <3>2. chain' = chain \/ DOMAIN chain' = {1}
      BY <1>2, <2>2 DEF SubscriberOnWebSocketHandshake, FailsToRead, Turns
    <3>3. QED
      BY <1>3, <3>1, <3>2 DEF SameListeners
  <2>3. CASE SubscriberOnRead(o)
    <3>1. (sub' = sub \/ \E m : sub' = [sub EXCEPT !.hand = m]) /\ ids' = ids /\ owner' = owner
      BY <2>3 DEF SubscriberOnRead
    <3>2. "clients" \in DOMAIN sub' /\ sub'.clients = sub.clients
      BY <1>3, <3>1
    <3>3. chain' = chain \/ DOMAIN chain' = {1}
      BY <1>2, <2>3 DEF SubscriberOnRead, FailsToRead, Turns
    <3>4. QED
      BY <3>1, <3>2, <3>3 DEF SameListeners
  <2>4. CASE SubscriberMoves(o)
    <3>1. sub' = sub /\ ids' = ids /\ owner' = owner
      BY <2>4 DEF SubscriberMoves, Moved
    <3>2. DOMAIN chain' = {1}
      <4>1. PICK x : chain' = <<x>>
        BY <2>4 DEF SubscriberMoves
      <4>2. QED
        BY <4>1
    <3>3. QED
      BY <1>3, <3>1, <3>2 DEF SameListeners
  <2>5. CASE ClientsHear(o)
    <3>1. sub' = [sub EXCEPT !.hand = 0] /\ ids' = ids /\ owner' = owner /\ chain' = chain
      BY <2>5 DEF ClientsHear, CallClients, linkVars
    <3>2. "clients" \in DOMAIN sub' /\ sub'.clients = sub.clients
      BY <1>3, <3>1
    <3>3. QED
      BY <3>1, <3>2 DEF SameListeners
  <2>6. QED
    BY <2>1, <2>2, <2>3, <2>4, <2>5 DEF SubscriberChain
<1>5. QED
  BY <1>4, ListenersFrame

\* The publisher's side leaves the listeners alone.
LEMMA PublisherKeepsListeners ==
  ASSUME ListenersInv, kind' = kind,
         \/ \E k \in 1..Len(sess) : PublisherHandlers(k) \/ SubscriptionBreaks(k)
         \/ \E s \in Server : ExportStep(s)
         \/ PublisherFails
  PROVE  ListenersInv'
<1>1. sub' = sub /\ ids' = ids /\ owner' = owner /\ chain' = chain
  <2>1. ASSUME NEW k \in 1..Len(sess), PublisherHandlers(k)
        PROVE  sub' = sub /\ ids' = ids /\ owner' = owner /\ chain' = chain
    <3>1. sub' = sub /\ ids' = ids /\ owner' = owner
      BY <2>1 DEF PublisherHandlers, PublisherOnAccept, PublisherOnRun, PublisherOnSslHandshake,
                  PublisherOnWsHandshake, PublisherOnRead, subVars
    <3>2. chain' = chain
      BY <2>1 DEF PublisherHandlers, PublisherOnAccept, PublisherOnRun, PublisherOnSslHandshake,
                  PublisherOnWsHandshake, PublisherOnRead, Accepts, SiteEnds, Dispatches,
                  Upgrades, RemoveClientHandler
    <3>3. QED
      BY <3>1, <3>2
  <2>2. ASSUME NEW k \in 1..Len(sess), SubscriptionBreaks(k)
        PROVE  sub' = sub /\ ids' = ids /\ owner' = owner /\ chain' = chain
    BY <2>2 DEF SubscriptionBreaks, Breaks, subVars
  <2>3. ASSUME NEW s \in Server, ExportStep(s)
        PROVE  sub' = sub /\ ids' = ids /\ owner' = owner /\ chain' = chain
    BY <2>3 DEF ExportStep, WebExporter, WebTypedExporter, GetPublisher, Opens, Publish, subVars
  <2>4. CASE PublisherFails
    BY <2>4 DEF PublisherFails, SiteEnds, subVars
  <2>5. QED
    BY <2>1, <2>2, <2>3, <2>4
<1>2. SameListeners
  BY <1>1 DEF SameListeners, ListenersInv
<1>3. QED
  BY <1>1, <1>2, ListenersFrame

\* So does the node that a listener's thread stores an id in.
LEMMA ListenersKeepListeners ==
  ASSUME ListenersInv, kind' = kind, NEW c \in Caller, ListenerStep(c)
  PROVE  ListenersInv'
<1>1. \/ \E initial : AddSubscriptionClient(c, initial)
      \/ \E id : RemoveSubscriptionClient(id)
      \/ UNCHANGED <<linkVars, subVars>>
  BY DEF ListenerStep, WebImporter, WebTypedImporter, WebLazyImporter, WebTypedLazyImporter,
         FetchFirstUpdateAndDisconnect, FetchTypedFirstUpdateAndDisconnect, Fetches, Adds
<1>2. CASE UNCHANGED <<linkVars, subVars>>
  <2>1. sub' = sub /\ ids' = ids /\ owner' = owner /\ chain' = chain
    BY <1>2 DEF linkVars, subVars
  <2>2. SameListeners
    BY <2>1 DEF SameListeners, ListenersInv
  <2>3. QED
    BY <2>1, <2>2, ListenersFrame
<1>3. QED
  BY <1>1, <1>2, AddingKeepsPlaces, RemovingKeepsPlaces

\* A step of remote calls, or the one that starts the environment.
LEMMA RpcKeepsListeners ==
  ASSUME ListenersInv,
         (RpcStep /\ UNCHANGED webBroadcastVars) \/ FinalizeNext \/ UNCHANGED vars
  PROVE  ListenersInv' /\ kind' = kind
<1>1. CASE RpcStep /\ UNCHANGED webBroadcastVars
  <2>1. kind' = kind /\ (WebSocket => chain' = chain)
    BY <1>1, RpcStepsKeepListeners DEF WebSocket, WebRpc
  <2>2. SameListeners
    BY <1>1 DEF SameListeners, ListenersInv, webBroadcastVars, subVars
  <2>3. QED
    BY <2>1, <2>2, ListenersFrame
<1>2. CASE FinalizeNext \/ UNCHANGED vars
  <2>1. kind' = kind /\ chain' = chain
    BY <1>2 DEF FinalizeNext, WebFinalizeEnvironment, RunsPorts, SetsStarted, vars, rpcVars,
                linkVars
  <2>2. SameListeners
    BY <1>2 DEF SameListeners, ListenersInv, webBroadcastVars, subVars, FinalizeNext, vars
  <2>3. QED
    BY <2>1, <2>2, ListenersFrame
<1>3. QED
  BY <1>1, <1>2

LEMMA StepKeepsListeners ==
  ASSUME ListenersInv, [Next]_vars
  PROVE  ListenersInv' /\ kind' = kind
<1>1. CASE SubscriberStep /\ Broadcasts
  <2>1. kind' = kind
    BY <1>1 DEF Broadcasts
  <2>2. QED
    BY <1>1, <2>1, ChainsKeepListeners, PublisherKeepsListeners, ListenersKeepListeners
       DEF SubscriberStep
<1>2. QED
  BY <1>1, StepIsOne, RpcKeepsListeners

LEMMA ListenersAtFirst ==
  ASSUME Init PROVE ListenersInv
<1>1. sub = NoSub /\ owner = <<>> /\ ids = {} /\ chain = <<>>
  BY DEF Init, WebBroadcastInit, LinkInit
<1>2. QED
  BY <1>1 DEF NoSub, ListenersInv

\* Every id that removeSubscriptionClient would find is among the subscriber's
\* clients, once, and no other, however often the subscriber has been moved to
\* a new object after an error (addSubscriptionClient, removeClient and
\* moveToNewOne).
THEOREM ListenersAlwaysKeepTheirPlace == Spec => []ListenersKeepTheirPlace
<1>1. Spec => []ListenersInv
  <2>1. ListenersInv /\ [Next]_vars => ListenersInv'
    BY StepKeepsListeners
  <2>2. QED
    BY <2>1, ListenersAtFirst, PTL DEF Spec
<1>2. ListenersInv => ListenersKeepTheirPlace
  <2> SUFFICES ASSUME ListenersInv PROVE ListenersKeepTheirPlace
    OBVIOUS
  <2> DEFINE q == sub.clients
  <2>1. /\ q \in Seq(Nat) /\ \A k, l \in DOMAIN q : q[k] = q[l] => k = l
        /\ ids = {q[k] : k \in DOMAIN q}
    BY DEF ListenersInv
  <2>2. Len(q) \in Nat /\ DOMAIN q = 1..Len(q)
    BY <2>1
  <2>3. ids = Range(q)
    BY <2>1 DEF Range
  <2>4. q \in Bijection(1..Len(q), ids)
    BY <2>1, <2>2 DEF Bijection, Injection, Surjection, IsInjective
  <2>5. Cardinality(ids) = Len(q)
    BY <2>2, <2>4, FS_CountingElements DEF ExistsBijection
  <2>6. QED
    BY <2>3, <2>5 DEF ListenersKeepTheirPlace
<1>3. QED
  BY <1>1, <1>2, PTL

-----------------------------------------------------------------------------
(* The listeners hear in order.                                            *)

Subscription == [peer : PeerAt, cut : BOOLEAN, hello : BOOLEAN, up : Seq(Nat), down : Seq(Nat),
                 allowed : BOOLEAN, path : BOOLEAN]
Told   == [m : Nat, whole : BOOLEAN]
Reader == [initial : BOOLEAN, clients : Seq(Nat), hand : Nat]

\* What is on its way to the subscriber.
Coming == IF chain # <<>> /\ chain[1].s # 0 THEN sess[chain[1].s].down ELSE <<>>

\* The publications on their way on a connection are in order; before its
\* handler is registered there are none.
Delivers(k) ==
  LET q == sess[k].down
  IN  /\ ~sess[k].path => q = <<>>
      /\ \A j \in DOMAIN q : q[j] # 0 /\ q[j] <= sent
      /\ \A j, l \in DOMAIN q : j < l => q[j] < q[l]

\* A subscriber has a connection from when it is connected.
Reads(o) ==
  /\ chain[o].s <= Len(sess)
  /\ chain[o].at \in {"securing", "shaking", "reading"} => chain[o].s # 0

\* What was heard comes before what is in hand, and that before what comes.
InTurn ==
  /\ sub.hand <= sent
  /\ \A l \in DOMAIN Coming : sub.hand < Coming[l]
  /\ \A i \in Id : \A j \in DOMAIN got[i] :
       /\ got[i][j].m <= sent
       /\ sub.hand # 0 => got[i][j].m < sub.hand
       /\ \A l \in DOMAIN Coming : got[i][j].m < Coming[l]

HearingInv ==
  /\ sub \in Reader /\ sent \in Nat /\ ids \subseteq Id /\ got \in [Id -> Seq(Told)]
  /\ sess \in Seq(Subscription) /\ chain \in Seq(Chain)
  /\ \A k \in 1..Len(sess) : Delivers(k)
  /\ \A o \in DOMAIN chain : Reads(o)
  /\ InTurn

\* The publications on a connection are as they were, or are lost.
SessionsRest ==
  /\ sess' \in Seq(Subscription) /\ Len(sess) <= Len(sess')
  /\ \A k \in 1..Len(sess') :
       /\ sess'[k].down = <<>> \/ (k \in 1..Len(sess) /\ sess'[k].down = sess[k].down)
       /\ ~sess'[k].path => sess'[k].down = <<>>

\* The subscriber has the connection it had, a new one or none.
ReaderMoves ==
  /\ chain' \in Seq(Chain)
  /\ \A o \in DOMAIN chain' : Reads(o)'
  /\ chain' # <<>> /\ chain'[1].s # 0 => \/ chain # <<>> /\ chain[1].s = chain'[1].s
                                         \/ Len(sess) < chain'[1].s

LEMMA DeliversOn ==
  ASSUME HearingInv, SessionsRest, sent' = sent, NEW k \in 1..Len(sess')
  PROVE  Delivers(k)'
<1>1. CASE sess'[k].down = <<>>
  BY <1>1 DEF Delivers
<1>2. CASE k \in 1..Len(sess) /\ sess'[k].down = sess[k].down
  <2>1. Delivers(k) /\ (~sess'[k].path => sess'[k].down = <<>>)
    BY <1>2 DEF HearingInv, SessionsRest
  <2>2. PICK q, r : q = sess[k].down /\ r = sess'[k].down
    OBVIOUS
  <2>3. QED
    BY <1>2, <2>1, <2>2 DEF Delivers
<1>3. QED
  BY <1>1, <1>2 DEF SessionsRest

\* Nothing comes that did not come before.
LEMMA ComesOn ==
  ASSUME HearingInv, SessionsRest, ReaderMoves
  PROVE  Coming' = Coming \/ Coming' = <<>>
<1>1. CASE chain' = <<>> \/ chain'[1].s = 0
  BY <1>1 DEF Coming
<1>2. CASE chain' # <<>> /\ chain'[1].s # 0
  <2>1. Len(chain') \in Nat /\ Len(chain') # 0 /\ DOMAIN chain' = 1..Len(chain')
    BY <1>2 DEF ReaderMoves
  <2>2. 1 \in DOMAIN chain' /\ chain'[1].s \in Nat
    <3>1. 1 \in DOMAIN chain'
      BY <2>1
    <3>2. chain'[1] \in Chain
      BY <3>1 DEF ReaderMoves
    <3>3. QED
      BY <3>1, <3>2 DEF Chain
  <2>3. PICK k : k = chain'[1].s
    OBVIOUS
  <2>4. k \in 1..Len(sess') /\ Coming' = sess'[k].down
    <3>1. k <= Len(sess') /\ Len(sess') \in Nat
      BY <2>2, <2>3 DEF ReaderMoves, Reads, SessionsRest
    <3>2. QED
      BY <1>2, <2>2, <2>3, <3>1 DEF Coming
  <2>5. CASE sess'[k].down = <<>>
    BY <2>4, <2>5
  <2>6. CASE k \in 1..Len(sess) /\ sess'[k].down = sess[k].down
    <3>1. chain # <<>> /\ chain[1].s = k
      <4>1. ~(Len(sess) < k)
        BY <2>6 DEF HearingInv
      <4>2. QED
        BY <1>2, <2>3, <4>1 DEF ReaderMoves
    <3>2. Coming = sess[k].down
      BY <2>6, <3>1 DEF Coming
    <3>3. QED
      BY <2>4, <2>6, <3>2
  <2>7. QED
    BY <2>4, <2>5, <2>6 DEF SessionsRest
<1>3. QED
  BY <1>1, <1>2

\* A step in which nothing is published, taken or heard.
LEMMA RestingStep ==
  ASSUME HearingInv, SessionsRest, ReaderMoves, UNCHANGED <<got, sent>>, sub' \in Reader,
         sub'.hand = sub.hand, ids' \subseteq Id
  PROVE  HearingInv'
<1>1. \A k \in 1..Len(sess') : Delivers(k)'
  BY DeliversOn
<1>2. Coming' = Coming \/ Coming' = <<>>
  BY ComesOn
<1>3. InTurn'
  <2>1. PICK p, q, h : p = Coming /\ q = Coming' /\ h = sub.hand
    OBVIOUS
  <2>2. q = p \/ q = <<>>
    BY <1>2, <2>1
  <2>3. /\ h <= sent /\ \A l \in DOMAIN p : h < p[l]
        /\ \A i \in Id : \A j \in DOMAIN got[i] :
             /\ got[i][j].m <= sent
             /\ h # 0 => got[i][j].m < h
             /\ \A l \in DOMAIN p : got[i][j].m < p[l]
    BY <2>1 DEF HearingInv, InTurn
  <2>4. (\A l \in DOMAIN q : l \in DOMAIN p /\ q[l] = p[l]) /\ sub'.hand = h
    BY <2>1, <2>2
  <2>5. QED
    BY <2>1, <2>3, <2>4 DEF InTurn
<1>4. sent' \in Nat /\ got' \in [Id -> Seq(Told)]
  BY DEF HearingInv
<1>5. sess' \in Seq(Subscription) /\ chain' \in Seq(Chain) /\ \A o \in DOMAIN chain' : Reads(o)'
  BY DEF SessionsRest, ReaderMoves
<1>6. QED
  BY <1>1, <1>3, <1>4, <1>5 DEF HearingInv

LEMMA HearingTypes ==
  ASSUME HearingInv
  PROVE  /\ Len(sess) \in Nat /\ DOMAIN sess = 1..Len(sess)
         /\ \A k \in 1..Len(sess) : sess[k] \in Subscription /\ (~sess[k].path => sess[k].down = <<>>)
         /\ Len(chain) \in Nat /\ DOMAIN chain = 1..Len(chain)
         /\ \A o \in 1..Len(chain) : chain[o] \in Chain /\ Reads(o) /\ chain[o].s \in Nat
<1>1. sess \in Seq(Subscription) /\ chain \in Seq(Chain)
  BY DEF HearingInv
<1>2. \A k \in 1..Len(sess) : ~sess[k].path => sess[k].down = <<>>
  BY DEF HearingInv, Delivers
<1>3. \A o \in 1..Len(chain) : chain[o] \in Chain
  BY <1>1
<1>4. \A o \in 1..Len(chain) : chain[o].s \in Nat
  BY <1>3 DEF Chain
<1>5. \A o \in 1..Len(chain) : Reads(o)
  BY <1>1 DEF HearingInv
<1>6. QED
  BY <1>1, <1>2, <1>3, <1>4, <1>5

LEMMA SessionsStay ==
  ASSUME HearingInv, sess' = sess
  PROVE  SessionsRest
BY HearingTypes DEF SessionsRest, HearingInv

LEMMA OneSubscription ==
  ASSUME sess \in Seq(Subscription), NEW k \in 1..Len(sess), NEW x \in Subscription,
         sess' = [sess EXCEPT ![k] = x]
  PROVE  /\ sess' \in Seq(Subscription) /\ Len(sess') = Len(sess) /\ sess'[k] = x
         /\ \A j \in 1..Len(sess) : j # k => sess'[j] = sess[j]
BY Changed

LEMMA OneSessionRests ==
  ASSUME HearingInv, NEW k \in 1..Len(sess), NEW x \in Subscription, sess' = [sess EXCEPT ![k] = x],
         x.down = sess[k].down \/ x.down = <<>>, ~x.path => x.down = <<>>
  PROVE  SessionsRest
<1>1. sess \in Seq(Subscription)
  BY DEF HearingInv
<1>2. /\ sess' \in Seq(Subscription) /\ Len(sess') = Len(sess) /\ sess'[k] = x
      /\ \A j \in 1..Len(sess) : j # k => sess'[j] = sess[j]
  BY <1>1, Changed
<1>3. QED
  BY <1>2, HearingTypes DEF SessionsRest

LEMMA NewSessionRests ==
  ASSUME HearingInv, NEW x \in Subscription, sess' = Append(sess, x), x.down = <<>>
  PROVE  SessionsRest /\ Len(sess') = Len(sess) + 1
<1>1. sess \in Seq(Subscription)
  BY DEF HearingInv
<1>2. /\ sess' \in Seq(Subscription) /\ Len(sess') = Len(sess) + 1 /\ Len(sess) \in Nat
      /\ sess'[Len(sess) + 1] = x
      /\ \A j \in 1..Len(sess) : sess'[j] = sess[j]
  BY <1>1, Added
<1>3. \A k \in 1..Len(sess') : k \in 1..Len(sess) \/ k = Len(sess) + 1
  BY <1>2
<1>4. QED
  BY <1>2, <1>3, HearingTypes DEF SessionsRest

\* Every connection is broken.
LEMMA BrokenSessionsRest ==
  ASSUME HearingInv, NEW f, sess' = [k \in 1..Len(sess) |-> f[k]],
         \A k \in 1..Len(sess) : f[k] \in Subscription /\ f[k].down = <<>>
  PROVE  SessionsRest
<1>1. Len(sess) \in Nat
  BY HearingTypes
<1>2. sess' \in Seq(Subscription) /\ Len(sess') = Len(sess)
  BY <1>1
<1>3. \A k \in 1..Len(sess') : sess'[k].down = <<>>
  BY <1>2
<1>4. QED
  BY <1>1, <1>2, <1>3 DEF SessionsRest

LEMMA ReaderStays ==
  ASSUME HearingInv, SessionsRest, chain' = chain
  PROVE  ReaderMoves
<1>1. Len(sess') \in Nat /\ Len(sess) <= Len(sess') /\ Len(sess) \in Nat
  BY HearingTypes DEF SessionsRest
<1>2. \A o \in DOMAIN chain' : Reads(o)'
  <2> SUFFICES ASSUME NEW o \in DOMAIN chain' PROVE Reads(o)'
    OBVIOUS
  <2>1. Reads(o) /\ chain[o].s \in Nat
    BY HearingTypes
  <2>2. QED
    BY <1>1, <2>1 DEF Reads
<1>3. QED
  BY <1>2 DEF ReaderMoves, HearingInv

\* The next handler of the subscriber is due.
LEMMA ReaderTurns ==
  ASSUME HearingInv, SessionsRest, DOMAIN chain = {1}, NEW x \in Chain,
         chain' = [chain EXCEPT ![1] = x], x.s = chain[1].s \/ Len(sess) < x.s, x.s <= Len(sess'),
         x.at \in {"securing", "shaking", "reading"} => x.s # 0
  PROVE  ReaderMoves
<1>1. 1 \in 1..Len(chain) /\ chain \in Seq(Chain) /\ DOMAIN chain' = {1} /\ chain'[1] = x
  BY HearingTypes DEF HearingInv
<1>2. chain' \in Seq(Chain)
  BY <1>1, Changed
<1>3. Reads(1)'
  BY <1>1 DEF Reads
<1>4. chain # <<>>
  BY <1>1
<1>5. QED
  BY <1>1, <1>2, <1>3, <1>4 DEF ReaderMoves

\* What a connection that breaks, or whose handler is removed, has.
LEMMA BrokenIsSilent ==
  ASSUME NEW x \in Subscription
  PROVE  /\ Broken(x) \in Subscription /\ Broken(x).down = <<>>
         /\ Removed(Broken(x)) \in Subscription /\ Removed(Broken(x)).down = <<>>
<1>1. PICK y : y = Broken(x)
  OBVIOUS
<1>2. y \in Subscription /\ y.down = <<>>
  <2>1. <<>> \in Seq(Nat)
    OBVIOUS
  <2>2. QED
    BY <1>1, <2>1 DEF Broken, Subscription
<1>3. PICK z : z = Removed(y)
  OBVIOUS
<1>4. z \in Subscription /\ z.down = <<>>
  BY <1>2, <1>3 DEF Removed, Subscription, PeerAt
<1>5. QED
  BY <1>1, <1>2, <1>3, <1>4

LEMMA SiteEndsRests ==
  ASSUME HearingInv, SiteEnds
  PROVE  SessionsRest
<1>1. PICK f : f = [k \in 1..Len(sess) |-> Removed(Broken(sess[k]))]
  OBVIOUS
<1>2. \A k \in 1..Len(sess) : f[k] \in Subscription /\ f[k].down = <<>>
  BY <1>1, HearingTypes, BrokenIsSilent
<1>3. sess' = [k \in 1..Len(sess) |-> f[k]]
  BY <1>1 DEF SiteEnds
<1>4. QED
  BY <1>2, <1>3, BrokenSessionsRest

LEMMA ClientEndsRests ==
  ASSUME HearingInv, ClientEnds
  PROVE  SessionsRest
<1>1. PICK f : f = [k \in 1..Len(sess) |-> Broken(sess[k])]
  OBVIOUS
<1>2. \A k \in 1..Len(sess) : f[k] \in Subscription /\ f[k].down = <<>>
  BY <1>1, HearingTypes, BrokenIsSilent
<1>3. sess' = [k \in 1..Len(sess) |-> f[k]]
  BY <1>1 DEF ClientEnds, AllBroken
<1>4. QED
  BY <1>2, <1>3, BrokenSessionsRest

\* The publisher's side, but for a publication.
LEMMA HandlersRest ==
  ASSUME HearingInv, NEW k \in 1..Len(sess), PublisherHandlers(k) \/ SubscriptionBreaks(k)
  PROVE  SessionsRest /\ UNCHANGED <<chain, sub, ids, got, sent>>
<1>1. UNCHANGED <<sub, ids, got, sent>>
  BY DEF PublisherHandlers, PublisherOnAccept, PublisherOnRun, PublisherOnSslHandshake,
         PublisherOnWsHandshake, PublisherOnRead, SubscriptionBreaks, subVars
<1>2. chain' = chain
  BY DEF PublisherHandlers, PublisherOnAccept, PublisherOnRun, PublisherOnSslHandshake,
         PublisherOnWsHandshake, PublisherOnRead, SubscriptionBreaks, Accepts, SiteEnds,
         Dispatches, Upgrades, RemoveClientHandler, Breaks
<1>3. PICK s : s = sess[k]
  OBVIOUS
<1>4. s \in Subscription /\ (~s.path => s.down = <<>>)
  BY <1>3, HearingTypes
<1>5. CASE SiteEnds
  BY <1>1, <1>2, <1>5, SiteEndsRests
<1>6. CASE sess' = [sess EXCEPT ![k] = Broken(@)] \/ RemoveClientHandler(k)
  <2>1. PICK x : (x = Broken(s) \/ x = Removed(Broken(s))) /\ sess' = [sess EXCEPT ![k] = x]
    BY <1>3, <1>6 DEF RemoveClientHandler
  <2>2. x \in Subscription /\ x.down = <<>>
    BY <1>4, <2>1, BrokenIsSilent
  <2>3. QED
    BY <1>1, <1>2, <2>1, <2>2, OneSessionRests
<1>7. CASE \E p \in PeerAt : sess' = [sess EXCEPT ![k].peer = p]
  <2>1. PICK p \in PeerAt : sess' = [sess EXCEPT ![k].peer = p]
    BY <1>7
  <2>2. PICK x : x = [s EXCEPT !.peer = p]
    OBVIOUS
  <2>3. x \in Subscription /\ x.down = s.down /\ x.path = s.path
    BY <1>4, <2>2 DEF Subscription
  <2>4. sess' = [sess EXCEPT ![k] = x]
    BY <1>3, <2>1, <2>2
  <2>5. QED
    BY <1>1, <1>2, <1>3, <1>4, <2>3, <2>4, OneSessionRests
<1>8. CASE sess' = [sess EXCEPT ![k].peer = "good", ![k].path = TRUE,
                                ![k].allowed = ~manner.guarded]
  <2>1. PICK x : x = [s EXCEPT !.peer = "good", !.path = TRUE, !.allowed = ~manner.guarded]
    OBVIOUS
  <2>2. x \in Subscription /\ x.down = s.down /\ x.path
    BY <1>4, <2>1 DEF Subscription, PeerAt
  <2>3. sess' = [sess EXCEPT ![k] = x]
    BY <1>3, <1>8, <2>1
  <2>4. QED
    BY <1>1, <1>2, <1>3, <2>2, <2>3, OneSessionRests
<1>9. CASE sess[k].up # <<>> /\ sess' = [sess EXCEPT ![k].up = Tail(@), ![k].allowed = TRUE]
  <2>1. PICK x, u : u = Tail(s.up) /\ x = [s EXCEPT !.up = u, !.allowed = TRUE]
    OBVIOUS
  <2>2. s.up \in Seq(Nat) /\ s.up # <<>>
    BY <1>3, <1>4, <1>9 DEF Subscription
  <2>3. u \in Seq(Nat)
    BY <2>1, <2>2, Taken
  <2>4. x \in Subscription /\ x.down = s.down /\ x.path = s.path
    BY <1>4, <2>1, <2>3 DEF Subscription
  <2>5. sess' = [sess EXCEPT ![k] = x]
    BY <1>3, <1>9, <2>1
  <2>6. QED
    BY <1>1, <1>2, <1>3, <1>4, <2>4, <2>5, OneSessionRests
<1>10. \/ SiteEnds \/ sess' = [sess EXCEPT ![k] = Broken(@)] \/ RemoveClientHandler(k)
       \/ \E p \in PeerAt : sess' = [sess EXCEPT ![k].peer = p]
       \/ sess' = [sess EXCEPT ![k].peer = "good", ![k].path = TRUE,
                               ![k].allowed = ~manner.guarded]
       \/ sess[k].up # <<>> /\ sess' = [sess EXCEPT ![k].up = Tail(@), ![k].allowed = TRUE]
  <2>1. CASE PublisherOnAccept(k)
    BY <2>1 DEF PublisherOnAccept, Accepts, PeerAt
  <2>2. CASE PublisherOnRun(k)
    BY <2>2 DEF PublisherOnRun, Dispatches, PeerAt
  <2>3. CASE PublisherOnSslHandshake(k)
    BY <2>3 DEF PublisherOnSslHandshake, Upgrades, PeerAt
  <2>4. CASE PublisherOnWsHandshake(k)
    BY <2>4 DEF PublisherOnWsHandshake
  <2>5. CASE PublisherOnRead(k)
    BY <2>5 DEF PublisherOnRead
  <2>6. CASE SubscriptionBreaks(k)
    BY <2>6 DEF SubscriptionBreaks, Breaks
  <2>7. QED
    BY <2>1, <2>2, <2>3, <2>4, <2>5, <2>6 DEF PublisherHandlers
<1>11. QED
  BY <1>5, <1>6, <1>7, <1>8, <1>9, <1>10

\* A handler of the subscriber fails, or goes on to the one that is named.
LEMMA ReaderTurnsTo ==
  ASSUME HearingInv, SessionsRest, DOMAIN chain = {1}, NEW a \in ChainAt, Turns(1, a),
         a \in {"securing", "shaking", "reading"} => chain[1].s # 0
  PROVE  ReaderMoves
<1>1. chain[1] \in Chain /\ Reads(1) /\ Len(sess) <= Len(sess') /\ Len(sess) \in Nat
      /\ Len(sess') \in Nat /\ chain[1].s \in Nat
  <2>1. 1 \in 1..Len(chain)
    BY HearingTypes
  <2>2. QED
    BY <2>1, HearingTypes DEF SessionsRest
<1>2. PICK x : x = [chain[1] EXCEPT !.at = a]
  OBVIOUS
<1>3. x \in Chain /\ x.s = chain[1].s /\ x.at = a
  BY <1>1, <1>2 DEF Chain
<1>4. chain' = [chain EXCEPT ![1] = x]
  BY <1>2 DEF Turns
<1>5. x.s <= Len(sess')
  BY <1>1, <1>3 DEF Reads
<1>6. QED
  BY <1>3, <1>4, <1>5, ReaderTurns

LEMMA ConnectsRests ==
  ASSUME HearingInv, DOMAIN chain = {1}, Connects(1)
  PROVE  SessionsRest /\ ReaderMoves
<1>1. CASE Turns(1, "failed") /\ sess' = sess
  <2>1. SessionsRest
    BY <1>1, SessionsStay
  <2>2. "failed" \in ChainAt
    BY DEF ChainAt
  <2>3. QED
    BY <1>1, <2>1, <2>2, ReaderTurnsTo
<1>2. CASE /\ sess' = Append(sess, NewSess)
           /\ chain' = [chain EXCEPT ![1] = [at |-> IF secure THEN "securing" ELSE "shaking",
                                             s  |-> Len(sess) + 1]]
  <2>1. NewSess \in Subscription /\ NewSess.down = <<>>
    <3>1. <<>> \in Seq(Nat)
      OBVIOUS
    <3>2. QED
      BY <3>1 DEF NewSess, Subscription, PeerAt
  <2>2. SessionsRest /\ Len(sess') = Len(sess) + 1 /\ Len(sess) \in Nat
    BY <1>2, <2>1, NewSessionRests, HearingTypes
  <2>3. PICK x : x = [at |-> IF secure THEN "securing" ELSE "shaking", s |-> Len(sess) + 1]
    OBVIOUS
  <2>4. x \in Chain /\ x.s = Len(sess) + 1
    BY <2>2, <2>3 DEF Chain, ChainAt
  <2>5. chain' = [chain EXCEPT ![1] = x]
    BY <1>2, <2>3
  <2>6. x.s # 0 /\ Len(sess) < x.s /\ x.s <= Len(sess')
    BY <2>2, <2>4
  <2>7. QED
    BY <2>2, <2>4, <2>5, <2>6, ReaderTurns
<1>3. QED
  BY <1>1, <1>2 DEF Connects

\* The handlers of the subscriber, but for a message that is taken or heard.
LEMMA ReaderRests ==
  ASSUME HearingInv, DOMAIN chain = {1},
         \/ SubscriberOnResolve(1) \/ SubscriberOnConnect(1) \/ SubscriberOnSSLHandshake(1)
         \/ SubscriberOnWebSocketHandshake(1) \/ FailsToRead(1, "reading") \/ SubscriberMoves(1)
  PROVE  SessionsRest /\ ReaderMoves
<1>1. 1 \in 1..Len(chain)
  BY HearingTypes
<1>2. PICK k : k = chain[1].s
  OBVIOUS
<1>3. Reads(1) /\ k \in Nat /\ Len(sess) \in Nat
  BY <1>1, <1>2, HearingTypes
<1>4. {"connecting", "failed", "shaking", "reading"} \subseteq ChainAt
  BY DEF ChainAt
<1>5. CASE Resolves(1)
  <2>1. SessionsRest
    BY <1>5, SessionsStay DEF Resolves
  <2>2. Turns(1, "connecting") \/ Turns(1, "failed")
    BY <1>5 DEF Resolves
  <2>3. QED
    BY <1>4, <2>1, <2>2, ReaderTurnsTo
<1>6. CASE Connects(1)
  BY <1>6, ConnectsRests
<1>7. ASSUME NEW at, FailsToRead(1, at)
      PROVE  SessionsRest /\ ReaderMoves
  <2>1. SessionsRest
    BY <1>7, SessionsStay DEF FailsToRead
  <2>2. Turns(1, "failed")
    BY <1>7 DEF FailsToRead
  <2>3. QED
    BY <1>4, <2>1, <2>2, ReaderTurnsTo
<1>8. CASE Secures(1)
  <2>1. k # 0 /\ k \in 1..Len(sess)
    BY <1>2, <1>3, <1>8 DEF Secures, Due, Reads
  <2>2. CASE Turns(1, "failed") /\ sess' = sess
    <3>1. SessionsRest
      BY <2>2, SessionsStay
    <3>2. QED
      BY <1>4, <2>2, <3>1, ReaderTurnsTo
  <2>3. CASE Turns(1, "shaking") /\ sess' = [sess EXCEPT ![k].hello = TRUE]
    <3>1. PICK s, x : s = sess[k] /\ x = [s EXCEPT !.hello = TRUE]
      OBVIOUS
    <3>2. s \in Subscription /\ (~s.path => s.down = <<>>)
      BY <2>1, <3>1, HearingTypes
    <3>3. x \in Subscription /\ x.down = s.down /\ x.path = s.path
      BY <3>1, <3>2 DEF Subscription
    <3>4. sess' = [sess EXCEPT ![k] = x]
      BY <2>3, <3>1
    <3>5. SessionsRest
      BY <2>1, <3>1, <3>2, <3>3, <3>4, OneSessionRests
    <3>6. QED
      BY <1>2, <1>4, <2>1, <2>3, <3>5, ReaderTurnsTo
  <2>4. QED
    BY <1>2, <1>8, <2>2, <2>3 DEF Secures
<1>9. CASE /\ Due(1, "shaking") /\ Turns(1, "reading")
           /\ sess' = IF sub.initial THEN [sess EXCEPT ![k].up = Append(@, 0)] ELSE sess
  <2>1. k # 0 /\ k \in 1..Len(sess)
    BY <1>2, <1>3, <1>9 DEF Due, Reads
  <2>2. SessionsRest
    <3>1. CASE sess' = sess
      BY <3>1, SessionsStay
    <3>2. CASE sess' = [sess EXCEPT ![k].up = Append(@, 0)]
      <4>1. PICK s, u, x : s = sess[k] /\ u = Append(s.up, 0) /\ x = [s EXCEPT !.up = u]
        OBVIOUS
      <4>2. s \in Subscription /\ (~s.path => s.down = <<>>)
        BY <2>1, <4>1, HearingTypes
      <4>3. s.up \in Seq(Nat) /\ u \in Seq(Nat)
        BY <4>1, <4>2 DEF Subscription
      <4>4. x \in Subscription /\ x.down = s.down /\ x.path = s.path
        BY <4>1, <4>2, <4>3 DEF Subscription
      <4>5. sess' = [sess EXCEPT ![k] = x]
        BY <3>2, <4>1
      <4>6. QED
        BY <2>1, <4>1, <4>2, <4>4, <4>5, OneSessionRests
    <3>3. QED
      BY <1>9, <3>1, <3>2
  <2>3. QED
    BY <1>2, <1>4, <1>9, <2>1, <2>2, ReaderTurnsTo
<1>10. CASE SubscriberMoves(1)
  <2>1. SessionsRest
    BY <1>10, ClientEndsRests, SessionsStay DEF SubscriberMoves
  <2>2. PICK x : x \in Chain /\ x.s = 0 /\ chain' = <<x>>
                 /\ x.at \notin {"securing", "shaking", "reading"}
    <3>1. PICK x : x = Resolving
      OBVIOUS
    <3>2. x \in Chain /\ x.s = 0 /\ x.at \notin {"securing", "shaking", "reading"}
      BY <3>1 DEF Resolving, Chain, ChainAt
    <3>3. PICK y : y = [x EXCEPT !.at = "idle"]
      OBVIOUS
    <3>4. y \in Chain /\ y.s = 0 /\ y.at \notin {"securing", "shaking", "reading"}
      BY <3>2, <3>3 DEF Chain, ChainAt
    <3>5. chain' = <<x>> \/ chain' = <<y>>
      BY <1>10, <3>1, <3>3 DEF SubscriberMoves
    <3>6. QED
      BY <3>2, <3>4, <3>5
  <2>3. chain' \in Seq(Chain) /\ DOMAIN chain' = {1} /\ chain'[1] = x
    BY <2>2
  <2>4. Len(sess') \in Nat
    BY <2>1 DEF SessionsRest
  <2>5. Reads(1)'
    BY <2>2, <2>3, <2>4 DEF Reads
  <2>6. QED
    BY <2>1, <2>2, <2>3, <2>5 DEF ReaderMoves
<1>11. QED
  BY <1>2, <1>5, <1>6, <1>7, <1>8, <1>9, <1>10 DEF SubscriberOnResolve, SubscriberOnConnect,
     SubscriberOnSSLHandshake, SubscriberOnWebSocketHandshake

-----------------------------------------------------------------------------
(* What the callbacks are given.                                           *)

\* Clients are called, and only those; if one finds nothing in the message,
\* another has found it whole.
Spoken(x) ==
  /\ x.whole \in BOOLEAN
  /\ \A y \in x.calls : \E i \in ids, w \in BOOLEAN : y = <<i, w>>
  /\ x.whole \/ \E j \in ids : <<j, TRUE>> \in x.calls
  /\ (\E i \in ids : <<i, FALSE>> \in x.calls) => \E j \in ids : <<j, TRUE>> \in x.calls

LEMMA HearsKeeps ==
  ASSUME NEW x, NEW id \in ids, NEW takes, NEW passes, Spoken(x)
  PROVE  Spoken(Hears(x, id, takes, passes))
<1>1. PICK c, t, y :
        /\ c = (x.topic \/ manner.ignoreTopic \/ filter[owner[id]] = "none")
        /\ t = (c /\ id \notin passes)
        /\ y = [topic |-> x.topic /\ ~t,
                whole |-> x.whole /\ ~(manner.ignoreTopic \/ (t /\ id \in takes)),
                calls |-> IF c THEN x.calls \cup {<<id, x.whole>>} ELSE x.calls]
  OBVIOUS
<1>2. y = Hears(x, id, takes, passes)
  BY <1>1 DEF Hears
<1>3. /\ y.whole \in BOOLEAN /\ (y.whole => x.whole)
      /\ y.calls = x.calls \/ y.calls = x.calls \cup {<<id, x.whole>>}
      /\ x.whole /\ ~y.whole => y.calls = x.calls \cup {<<id, x.whole>>}
  BY <1>1
<1>4. PICK w \in BOOLEAN : w = x.whole
  BY DEF Spoken
<1>5. \A z \in y.calls : z \in x.calls \/ z = <<id, w>>
  BY <1>3, <1>4
<1>6. \A z \in y.calls : \E i \in ids, v \in BOOLEAN : z = <<i, v>>
  BY <1>5 DEF Spoken
<1>7. \A j \in ids : <<j, TRUE>> \in x.calls => <<j, TRUE>> \in y.calls
  BY <1>3
<1>8. y.whole \/ \E j \in ids : <<j, TRUE>> \in y.calls
  <2>1. CASE w = TRUE
    BY <1>3, <1>4, <2>1
  <2>2. CASE w = FALSE
    BY <1>4, <1>7, <2>2 DEF Spoken
  <2>3. QED
    BY <2>1, <2>2
<1>9. (\E i \in ids : <<i, FALSE>> \in y.calls) => \E j \in ids : <<j, TRUE>> \in y.calls
  <2>1. CASE w = TRUE
    BY <1>5, <1>7, <2>1 DEF Spoken
  <2>2. CASE w = FALSE
    BY <1>4, <1>7, <2>2 DEF Spoken
  <2>3. QED
    BY <2>1, <2>2
<1>10. Spoken(y)
  BY <1>3, <1>6, <1>8, <1>9 DEF Spoken
<1>11. QED
  BY <1>2, <1>10

\* f[k] is what is left of a message after the first k of the clients q.
Telling(f, n, q, takes, passes) ==
  f = [k \in 0..n |-> IF k = 0 THEN Untaken ELSE Hears(f[k - 1], q[k], takes, passes)]

LEMMA TellingExists ==
  ASSUME NEW q, Len(q) \in Nat, NEW takes, NEW passes
  PROVE  \E f : Telling(f, Len(q), q, takes, passes)
<1> DEFINE Bad == {n \in 0..Len(q) : ~\E f : Telling(f, n, q, takes, passes)}
<1>1. Bad = {}
  <2> SUFFICES ASSUME Bad # {} PROVE FALSE
    OBVIOUS
  <2>1. PICK n \in Bad : \A m \in Bad : ~(m < n)
    <3>1. Bad \in SUBSET Nat
      OBVIOUS
    <3> HIDE DEF Bad
    <3>2. QED
      BY <3>1, Least
  <2>2. n # 0
    <3> DEFINE g == [k \in 0..0 |-> Untaken]
    <3>1. 0..0 = {0}
      OBVIOUS
    <3>2. Telling(g, 0, q, takes, passes)
      BY <3>1 DEF Telling
    <3>3. QED
      BY <2>1, <3>2
  <2>3. n \in Nat /\ n - 1 \in 0..Len(q) /\ n - 1 < n /\ n \in 0..Len(q)
    BY <2>1, <2>2
  <2>4. PICK f : Telling(f, n - 1, q, takes, passes)
    BY <2>1, <2>3
  <2> DEFINE V(k) == IF k = 0 THEN Untaken ELSE Hears(f[k - 1], q[k], takes, passes)
             g == [k \in 0..n |-> V(k)]
  <2>5. \A k \in 0..(n - 1) : f[k] = V(k)
    <3>1. f = [k \in 0..(n - 1) |-> V(k)]
      BY <2>4 DEF Telling
    <3> HIDE DEF V
    <3>2. QED
      BY <3>1
  <2>6. \A k \in 0..n : g[k] = V(k)
    OBVIOUS
  <2>7. \A k \in 0..n : k # 0 => g[k - 1] = f[k - 1]
    <3> HIDE DEF g
    <3>1. \A k \in 0..n : k # 0 => k - 1 \in 0..(n - 1) /\ k - 1 \in 0..n
      BY <2>3
    <3> HIDE DEF V
    <3>2. QED
      BY <2>5, <2>6, <3>1
  <2>8. \A k \in 0..n : V(k) = IF k = 0 THEN Untaken ELSE Hears(g[k - 1], q[k], takes, passes)
    <3> HIDE DEF g
    <3>1. QED
      BY <2>7
  <2>9. Telling(g, n, q, takes, passes)
    <3>1. g = [k \in 0..n |-> V(k)]
      OBVIOUS
    <3> HIDE DEF g, V
    <3>2. QED
      BY <2>8, <3>1 DEF Telling
  <2>10. QED
    BY <2>1, <2>9
<1>2. Len(q) \in 0..Len(q)
  OBVIOUS
<1>3. QED
  BY <1>1, <1>2

LEMMA TellingKeeps ==
  ASSUME NEW q \in Seq(ids), NEW takes, NEW passes, NEW f, Telling(f, Len(q), q, takes, passes)
  PROVE  Spoken(f[Len(q)])
<1> DEFINE N == Len(q)
           Bad == {n \in 0..N : ~Spoken(f[n])}
<1>1. N \in Nat
  OBVIOUS
<1>2. /\ f[0] = Untaken
      /\ \A n \in 1..N : f[n] = Hears(f[n - 1], q[n], takes, passes)
  <2> HIDE DEF N
  <2>1. \A n \in 0..N : f[n] = IF n = 0 THEN Untaken ELSE Hears(f[n - 1], q[n], takes, passes)
    BY DEF Telling, N
  <2>2. 0 \in 0..N /\ \A n \in 1..N : n \in 0..N /\ n # 0
    BY <1>1
  <2>3. QED
    BY <2>1, <2>2
<1>3. Bad = {}
  <2> SUFFICES ASSUME Bad # {} PROVE FALSE
    OBVIOUS
  <2>1. PICK n \in Bad : \A m \in Bad : ~(m < n)
    <3>1. Bad \in SUBSET Nat
      BY <1>1
    <3> HIDE DEF Bad
    <3>2. QED
      BY <3>1, Least
  <2>2. Spoken(Untaken)
    BY DEF Spoken, Untaken
  <2>3. n \in 1..N /\ n - 1 \in 0..N /\ n - 1 < n
    <3>1. n \in 0..N /\ n # 0
      BY <1>2, <2>1, <2>2
    <3>2. QED
      BY <1>1, <3>1
  <2>4. Spoken(f[n - 1])
    BY <2>1, <2>3
  <2>5. q[n] \in ids
    BY <2>3
  <2>6. Spoken(f[n])
    BY <1>2, <2>3, <2>4, <2>5, HearsKeeps
  <2>7. QED
    BY <2>1, <2>6
<1>4. N \in 0..N
  BY <1>1
<1>5. QED
  BY <1>3, <1>4

LEMMA InOrderIs ==
  ASSUME ListenersInv
  PROVE  InOrder \in Seq(ids)
<1>1. PICK q : q = sub.clients
  OBVIOUS
<1>2. /\ q \in Seq(Nat) /\ \A k, l \in DOMAIN q : q[k] = q[l] => k = l
      /\ ids = {q[k] : k \in DOMAIN q}
  BY <1>1 DEF ListenersInv
<1>3. q \in Seq(ids)
  BY <1>2
<1>4. ASSUME NEW S
      PROVE  ClientsIn(q, S) \in Seq(ids)
  <2>1. PICK w \in Seq(Nat) : w = ClientsIn(q, S) /\ {w[k] : k \in DOMAIN w} = ids \cap S
    BY <1>2, ClientsInKeeps
  <2>2. \A k \in DOMAIN w : w[k] \in ids
    BY <2>1
  <2>3. QED
    BY <2>1, <2>2
<1>5. \A f : Having(f) \in Seq(ids)
  BY <1>1, <1>4 DEF Having
<1>6. QED
  <2>1. PICK a, b, c : a = Having("none") /\ b = Having("string") /\ c = Having("regex")
    OBVIOUS
  <2>2. a \in Seq(ids) /\ b \in Seq(ids) /\ c \in Seq(ids)
    BY <1>5, <2>1
  <2>3. a \o b \o c \in Seq(ids)
    BY <2>2
  <2>4. InOrder = q \/ InOrder = a \o b \o c
    BY <1>1, <2>1 DEF InOrder
  <2>5. QED
    BY <1>3, <2>3, <2>4

LEMMA CallsAre ==
  ASSUME ListenersInv, NEW takes, NEW passes
  PROVE  \E x : Spoken(x) /\ CallsFor(takes, passes) = x.calls
<1>1. PICK q : q = InOrder
  OBVIOUS
<1>2. q \in Seq(ids) /\ Len(q) \in Nat
  BY <1>1, InOrderIs
<1>3. PICK f : /\ Telling(f, Len(q), q, takes, passes)
               /\ CallsFor(takes, passes) = f[Len(q)].calls
  <2> DEFINE After(f) == f = [k \in 0..Len(InOrder) |->
                                IF k = 0 THEN Untaken
                                ELSE Hears(f[k - 1], InOrder[k], takes, passes)]
             g == CHOOSE f : After(f)
  <2>1. \A f : After(f) <=> Telling(f, Len(q), q, takes, passes)
    BY <1>1 DEF Telling
  <2>2. After(g)
    <3> HIDE DEF After
    <3>1. QED
      BY <1>2, <2>1, TellingExists
  <2>3. CallsFor(takes, passes) = g[Len(InOrder)].calls
    BY Zenon DEF CallsFor
  <2> HIDE DEF After, g
  <2>4. QED
    BY <1>1, <2>1, <2>2, <2>3
<1>4. Spoken(f[Len(q)])
  BY <1>2, <1>3, TellingKeeps
<1>5. QED
  BY <1>3, <1>4

-----------------------------------------------------------------------------
(* A publication is made, is taken and is heard.                           *)

\* The reader of chain[1] takes from session k.
LEMMA ReadingFrom ==
  ASSUME HearingInv, DOMAIN chain = {1}, Due(1, "reading")
  PROVE  /\ chain[1].s \in 1..Len(sess) /\ Coming = sess[chain[1].s].down
         /\ sess[chain[1].s] \in Subscription
<1>1. 1 \in 1..Len(chain) /\ chain # <<>>
  BY HearingTypes
<1>2. PICK k : k = chain[1].s
  OBVIOUS
<1>3. Reads(1) /\ k \in Nat /\ Len(sess) \in Nat
  BY <1>1, <1>2, HearingTypes
<1>4. k # 0 /\ k <= Len(sess)
  BY <1>2, <1>3 DEF Due, Reads
<1>5. QED
  BY <1>1, <1>2, <1>3, <1>4, HearingTypes DEF Coming

LEMMA TakingStep ==
  ASSUME HearingInv, DOMAIN chain = {1}, Due(1, "reading"), sub.hand = 0,
         sess[chain[1].s].down # <<>>,
         sub' = [sub EXCEPT !.hand = Head(sess[chain[1].s].down)],
         sess' = [sess EXCEPT ![chain[1].s].down = Tail(@)],
         UNCHANGED <<chain, ids, got, sent>>
  PROVE  HearingInv'
<1>1. PICK k, s, q : k = chain[1].s /\ s = sess[k] /\ q = s.down
  OBVIOUS
<1>2. k \in 1..Len(sess) /\ s \in Subscription /\ Coming = q /\ q # <<>>
  BY <1>1, ReadingFrom
<1>3. q \in Seq(Nat)
  BY <1>1, <1>2 DEF Subscription
<1>4. PICK h, r, x : h = Head(q) /\ r = Tail(q) /\ x = [s EXCEPT !.down = r]
  OBVIOUS
<1>5. /\ h \in Nat /\ r \in Seq(Nat) /\ 1 \in DOMAIN q /\ q[1] = h
      /\ \A j \in DOMAIN r : j \in Nat /\ j + 1 \in DOMAIN q /\ r[j] = q[j + 1]
  BY <1>2, <1>3, <1>4, Taken
<1>6. x \in Subscription /\ x.down = r /\ x.path = s.path
  BY <1>2, <1>4, <1>5 DEF Subscription
<1>7. /\ sess' = [sess EXCEPT ![k] = x] /\ sub' = [sub EXCEPT !.hand = h]
  BY <1>1, <1>4
<1>8. sess \in Seq(Subscription) /\ sub \in Reader
  BY DEF HearingInv
<1>9. /\ sess' \in Seq(Subscription) /\ Len(sess') = Len(sess) /\ sess'[k] = x
      /\ \A j \in 1..Len(sess) : j # k => sess'[j] = sess[j]
  <2>1. sess \in Seq(Subscription) /\ x \in Subscription
    BY <1>6, <1>8
  <2>2. sess' = [sess EXCEPT ![k] = x]
    BY <1>7
  <2>3. k \in 1..Len(sess)
    BY <1>2
  <2>4. QED
    BY <2>1, <2>2, <2>3, OneSubscription
<1>10. sub' \in Reader /\ sub'.hand = h
  BY <1>5, <1>7, <1>8 DEF Reader
<1>11. /\ ~s.path => q = <<>>
       /\ \A j \in DOMAIN q : q[j] # 0 /\ q[j] <= sent
       /\ \A j, l \in DOMAIN q : j < l => q[j] < q[l]
  BY <1>1, <1>2 DEF HearingInv, Delivers
<1>12. \A j \in DOMAIN r : h < r[j]
  <2> SUFFICES ASSUME NEW j \in DOMAIN r PROVE h < r[j]
    OBVIOUS
  <2>1. j \in Nat /\ j + 1 \in DOMAIN q /\ r[j] = q[j + 1] /\ j # 0
    BY <1>5
  <2>2. 1 < j + 1
    BY <2>1
  <2>3. QED
    BY <1>5, <1>11, <2>1, <2>2
<1>13. Delivers(k)'
  <2>1. \A j \in DOMAIN r : r[j] # 0 /\ r[j] <= sent
    BY <1>5, <1>11
  <2>2. \A j, l \in DOMAIN r : j < l => r[j] < r[l]
    <3> SUFFICES ASSUME NEW j \in DOMAIN r, NEW l \in DOMAIN r, j < l PROVE r[j] < r[l]
      OBVIOUS
    <3>1. j + 1 \in DOMAIN q /\ l + 1 \in DOMAIN q /\ j + 1 < l + 1
      BY <1>5
    <3>2. QED
      BY <1>5, <1>11, <3>1
  <2>3. ~x.path => r = <<>>
    BY <1>2, <1>6, <1>11
  <2>4. QED
    BY <1>6, <1>9, <2>1, <2>2, <2>3 DEF Delivers
<1>14. \A j \in 1..Len(sess') : Delivers(j)'
  <2> SUFFICES ASSUME NEW j \in 1..Len(sess), j # k PROVE Delivers(j)'
    BY <1>9, <1>13
  <2>1. Delivers(j) /\ sess'[j] = sess[j]
    BY <1>9 DEF HearingInv
  <2>2. QED
    BY <2>1 DEF Delivers
<1>15. Coming' = r
  <2>1. chain # <<>> /\ k # 0
    BY <1>2, HearingTypes
  <2>2. QED
    BY <1>1, <1>6, <1>9, <2>1 DEF Coming
<1>16. InTurn'
  <2>1. h <= sent /\ \A i \in Id : \A j \in DOMAIN got[i] :
          got[i][j].m <= sent /\ \A l \in DOMAIN q : got[i][j].m < q[l]
    BY <1>2, <1>5, <1>11 DEF HearingInv, InTurn
  <2>2. \A i \in Id : \A j \in DOMAIN got[i] :
          got[i][j].m < h /\ \A l \in DOMAIN r : got[i][j].m < r[l]
    BY <1>5, <2>1
  <2>3. QED
    BY <1>10, <1>12, <1>15, <2>1, <2>2 DEF InTurn
<1>17. \A o \in DOMAIN chain : Reads(o)'
  BY <1>9 DEF HearingInv, Reads
<1>18. QED
  BY <1>9, <1>10, <1>14, <1>16, <1>17 DEF HearingInv

\* What a step of the subscriber's callbacks may do.
HeardInTurn ==
  \A i \in Id : got'[i] # got[i] =>
    LET new == got'[i][Len(got'[i])]
    IN  /\ i \in ids
        /\ \A j \in DOMAIN got[i] : got[i][j].m < new.m
        /\ \/ new.whole
           \/ \E j \in ids \ {i} : got'[j] = Append(got[j], [m |-> new.m, whole |-> TRUE])

LEMMA HearingStep ==
  ASSUME HearingInv, ListenersInv, DOMAIN chain = {1}, ClientsHear(1)
  PROVE  HearingInv' /\ HeardInTurn
<1>1. /\ Due(1, "reading") /\ sub.hand # 0 /\ sub' = [sub EXCEPT !.hand = 0]
      /\ UNCHANGED <<chain, sess, ids, sent>>
  BY DEF ClientsHear, CallClients, linkVars
<1>2. PICK calls : /\ \E x : Spoken(x) /\ calls = x.calls
                   /\ got' = [i \in Id |->
                        IF \E w \in BOOLEAN : <<i, w>> \in calls
                        THEN Append(got[i], [m |-> sub.hand, whole |-> <<i, TRUE>> \in calls])
                        ELSE got[i]]
  <2>1. PICK takes, passes : CallClients(1, takes, passes)
    BY DEF ClientsHear
  <2>2. PICK calls : calls = CallsFor(takes, passes)
    OBVIOUS
  <2>3. \E x : Spoken(x) /\ calls = x.calls
    BY <2>2, CallsAre
  <2>4. QED
    BY <2>1, <2>2, <2>3 DEF CallClients
<1>3. /\ \A y \in calls : \E i \in ids, w \in BOOLEAN : y = <<i, w>>
      /\ (\E i \in ids : <<i, FALSE>> \in calls) => \E j \in ids : <<j, TRUE>> \in calls
  BY <1>2 DEF Spoken
<1>4. PICK h, c : h = sub.hand /\ c = Coming
  OBVIOUS
<1>5. sub \in Reader /\ h \in Nat /\ h # 0 /\ sent \in Nat /\ ids \subseteq Id
      /\ got \in [Id -> Seq(Told)]
  BY <1>1, <1>4 DEF HearingInv, Reader
<1>6. /\ h <= sent /\ \A l \in DOMAIN c : h < c[l]
      /\ \A i \in Id : \A j \in DOMAIN got[i] :
           /\ got[i][j].m <= sent /\ got[i][j].m < h
           /\ \A l \in DOMAIN c : got[i][j].m < c[l]
  BY <1>1, <1>4 DEF HearingInv, InTurn
<1>7. sub' \in Reader /\ sub'.hand = 0
  BY <1>1, <1>5 DEF Reader
<1>8. Coming' = c
  BY <1>1, <1>4 DEF Coming
<1>9. ASSUME NEW i \in Id, got'[i] # got[i]
      PROVE  \E w \in BOOLEAN :
               /\ got'[i] = Append(got[i], [m |-> h, whole |-> w])
               /\ w <=> <<i, TRUE>> \in calls
               /\ i \in ids /\ <<i, w>> \in calls
  <2>1. PICK v \in BOOLEAN : <<i, v>> \in calls
    BY <1>2, <1>9
  <2>2. got'[i] = Append(got[i], [m |-> h, whole |-> <<i, TRUE>> \in calls])
    BY <1>2, <1>4, <2>1
  <2>3. i \in ids
    <3>1. PICK j \in ids, u \in BOOLEAN : <<i, v>> = <<j, u>>
      BY <1>3, <2>1
    <3>2. QED
      BY <3>1
  <2>4. CASE <<i, TRUE>> \in calls
    BY <2>2, <2>3, <2>4
  <2>5. CASE <<i, TRUE>> \notin calls
    <3>1. v = FALSE
      BY <2>1, <2>5
    <3>2. (<<i, TRUE>> \in calls) = FALSE
      BY <2>5
    <3>3. got'[i] = Append(got[i], [m |-> h, whole |-> FALSE])
      BY <2>2, <3>2
    <3>4. QED
      BY <2>1, <2>3, <2>5, <3>1, <3>3
  <2>6. QED
    BY <2>4, <2>5
<1>10. ASSUME NEW i \in Id
       PROVE  /\ got'[i] \in Seq(Told)
              /\ \A j \in DOMAIN got'[i] : /\ got'[i][j].m <= sent
                                           /\ \A l \in DOMAIN c : got'[i][j].m < c[l]
  <2>1. CASE got'[i] = got[i]
    BY <1>5, <1>6, <2>1
  <2>2. CASE got'[i] # got[i]
    <3>1. PICK w \in BOOLEAN : got'[i] = Append(got[i], [m |-> h, whole |-> w])
      BY <1>9, <2>2
    <3>2. PICK x, q : x = [m |-> h, whole |-> w] /\ q = got[i]
      OBVIOUS
    <3>3. x \in Told /\ x.m = h /\ q \in Seq(Told) /\ got'[i] = Append(q, x)
      BY <1>5, <3>1, <3>2 DEF Told
    <3>4. /\ Append(q, x) \in Seq(Told)
          /\ \A j \in DOMAIN Append(q, x) : \/ j \in DOMAIN q /\ Append(q, x)[j] = q[j]
                                            \/ Append(q, x)[j] = x
      BY <3>3, Added, AddedOne
    <3>5. QED
      BY <1>6, <3>2, <3>3, <3>4
  <2>3. QED
    BY <2>1, <2>2
<1>11. got' \in [Id -> Seq(Told)]
  <2>1. DOMAIN got' = Id /\ got' = [i \in Id |-> got'[i]]
    BY <1>2
  <2>2. QED
    BY <1>10, <2>1
<1>12. InTurn'
  <2>1. \A l \in DOMAIN c : 0 < c[l]
    <3>1. c \in Seq(Nat)
      BY <1>1, <1>4, ReadingFrom DEF Subscription
    <3>2. \A l \in DOMAIN c : c[l] \in Nat
      BY <3>1
    <3>3. QED
      BY <1>5, <1>6, <3>2
  <2>2. QED
    BY <1>1, <1>5, <1>7, <1>8, <1>10, <2>1 DEF InTurn
<1>13. HearingInv'
  <2>1. (\A k \in 1..Len(sess) : Delivers(k)') /\ \A o \in DOMAIN chain : Reads(o)'
    BY <1>1 DEF HearingInv, Delivers, Reads
  <2>2. QED
    BY <1>1, <1>7, <1>11, <1>12, <2>1 DEF HearingInv
<1>14. ASSUME NEW i \in Id, got'[i] # got[i]
       PROVE  LET new == got'[i][Len(got'[i])]
              IN  /\ i \in ids
                  /\ \A j \in DOMAIN got[i] : got[i][j].m < new.m
                  /\ \/ new.whole
                     \/ \E j \in ids \ {i} :
                          got'[j] = Append(got[j], [m |-> new.m, whole |-> TRUE])
  <2>1. PICK w \in BOOLEAN : /\ got'[i] = Append(got[i], [m |-> h, whole |-> w])
                             /\ w <=> <<i, TRUE>> \in calls
                             /\ i \in ids /\ <<i, w>> \in calls
    BY <1>9, <1>14
  <2>2. PICK x, q, n : x = [m |-> h, whole |-> w] /\ q = got[i] /\ n = got'[i][Len(got'[i])]
    OBVIOUS
  <2>3. x \in Told /\ x.m = h /\ x.whole = w /\ q \in Seq(Told)
    BY <1>5, <2>2 DEF Told
  <2>4. n = x
    <3>1. Len(Append(q, x)) = Len(q) + 1 /\ Append(q, x)[Len(q) + 1] = x
      BY <2>3, Added
    <3>2. QED
      BY <2>1, <2>2, <3>1
  <2>5. \A j \in DOMAIN got[i] : got[i][j].m < n.m
    BY <1>6, <2>3, <2>4
  <2>6. ASSUME ~w
        PROVE  \E j \in ids \ {i} : got'[j] = Append(got[j], [m |-> h, whole |-> TRUE])
    <3>1. w = FALSE /\ <<i, TRUE>> \notin calls
      BY <2>1, <2>6
    <3>2. <<i, FALSE>> \in calls
      BY <2>1, <3>1
    <3>3. PICK j \in ids : <<j, TRUE>> \in calls
      BY <1>3, <2>1, <3>2
    <3>4. j # i /\ j \in Id
      BY <1>5, <3>1, <3>3
    <3>5. got'[j] = Append(got[j], [m |-> h, whole |-> TRUE])
      BY <1>2, <1>4, <3>3, <3>4
    <3>6. QED
      BY <3>4, <3>5
  <2>7. QED
    BY <2>1, <2>2, <2>3, <2>4, <2>5, <2>6
<1>15. QED
  BY <1>13, <1>14 DEF HeardInTurn

LEMMA PublishingStep ==
  ASSUME HearingInv, Publish
  PROVE  HearingInv'
<1>1. PICK n : n = sent + 1
  OBVIOUS
<1>2. UNCHANGED <<chain, sub, ids, got>> /\ sent' = n
  BY <1>1 DEF Publish
<1>3. PICK reached : /\ \A k \in reached : sess[k].path
                     /\ sess' = [k \in 1..Len(sess) |->
                          IF k \in reached THEN [sess[k] EXCEPT !.down = Append(@, n)] ELSE sess[k]]
  <2> DEFINE path == {k \in 1..Len(sess) : site.ran /\ sess[k].path /\ sess[k].allowed}
             live == {k \in path : ~sess[k].cut}
             Reach(reached) == sess' = [k \in 1..Len(sess) |->
               IF k \in reached THEN [sess[k] EXCEPT !.down = Append(@, sent')] ELSE sess[k]]
  <2>1. Reach(live) \/ \E reached \in SUBSET live : Reach(reached)
    BY Zenon DEF Publish
  <2>2. \A k \in live : sess[k].path
    OBVIOUS
  <2> HIDE DEF live
  <2>3. PICK reached \in SUBSET live : Reach(reached)
    BY <2>1
  <2>4. QED
    BY <1>2, <2>2, <2>3
<1>4. sent \in Nat /\ n \in Nat /\ sent < n /\ n # 0 /\ Len(sess) \in Nat
  BY <1>1, HearingTypes DEF HearingInv
<1>5. ASSUME NEW k \in 1..Len(sess)
      PROVE  /\ sess'[k] \in Subscription
             /\ \/ sess'[k] = sess[k]
                \/ /\ sess[k].path /\ sess'[k].path = sess[k].path
                   /\ sess'[k].down = Append(sess[k].down, n)
  <2>1. PICK s, q, x : s = sess[k] /\ q = Append(s.down, n) /\ x = [s EXCEPT !.down = q]
    OBVIOUS
  <2>2. s \in Subscription
    BY <2>1, HearingTypes
  <2>3. q \in Seq(Nat)
    BY <1>4, <2>1, <2>2 DEF Subscription
  <2>4. x \in Subscription /\ x.path = s.path /\ x.down = q
    BY <2>1, <2>2, <2>3 DEF Subscription
  <2>5. sess'[k] = IF k \in reached THEN x ELSE s
    BY <1>3, <2>1
  <2>6. QED
    BY <1>3, <2>1, <2>2, <2>4, <2>5
<1>6. sess' \in Seq(Subscription) /\ Len(sess') = Len(sess)
  <2>1. sess' = [k \in 1..Len(sess) |-> sess'[k]]
    BY <1>3
  <2>2. QED
    BY <1>4, <1>5, <2>1
\* A sequence that has a publication more.
<1>7. ASSUME NEW k \in 1..Len(sess)
      PROVE  /\ Delivers(k)'
             /\ \A l \in DOMAIN sess'[k].down :
                  (l \in DOMAIN sess[k].down /\ sess'[k].down[l] = sess[k].down[l])
                  \/ sess'[k].down[l] = n
  <2>1. PICK q, r : q = sess[k].down /\ r = sess'[k].down
    OBVIOUS
  <2>2. /\ ~sess[k].path => q = <<>>
        /\ \A j \in DOMAIN q : q[j] # 0 /\ q[j] <= sent
        /\ \A j, l \in DOMAIN q : j < l => q[j] < q[l]
    BY <2>1 DEF HearingInv, Delivers
  <2>3. q \in Seq(Nat)
    BY <2>1, HearingTypes DEF Subscription
  <2>4. \A j \in DOMAIN q : q[j] \in Nat /\ q[j] <= n /\ q[j] < n
    BY <1>4, <2>2, <2>3
  <2>5. CASE sess'[k] = sess[k]
    <3>1. r = q /\ (~sess'[k].path => q = <<>>)
      BY <2>1, <2>2, <2>5
    <3>2. Delivers(k)'
      BY <1>2, <2>1, <2>2, <2>4, <3>1 DEF Delivers
    <3>3. QED
      BY <2>1, <3>1, <3>2
  <2>6. CASE sess[k].path /\ sess'[k].path = sess[k].path /\ sess'[k].down = Append(sess[k].down, n)
    <3>1. r = Append(q, n) /\ sess'[k].path
      BY <2>1, <2>6
    <3>2. /\ DOMAIN r = 1..(Len(q) + 1) /\ DOMAIN q = 1..Len(q) /\ Len(q) \in Nat
          /\ r[Len(q) + 1] = n /\ \A j \in 1..Len(q) : r[j] = q[j]
      BY <1>4, <2>3, <3>1, Added
    <3>3. \A j \in DOMAIN r : \/ j \in DOMAIN q /\ r[j] = q[j]
                              \/ j = Len(q) + 1 /\ r[j] = n
      BY <3>2
    <3>4. \A j \in DOMAIN r : r[j] # 0 /\ r[j] <= n
      BY <1>4, <2>2, <2>4, <3>3
    <3>5. \A j, l \in DOMAIN r : j < l => r[j] < r[l]
      <4> SUFFICES ASSUME NEW j \in DOMAIN r, NEW l \in DOMAIN r, j < l PROVE r[j] < r[l]
        OBVIOUS
      <4>1. j # Len(q) + 1
        BY <3>2
      <4>2. j \in DOMAIN q /\ r[j] = q[j]
        BY <3>3, <4>1
      <4>3. QED
        BY <2>2, <2>4, <3>3, <4>2
    <3>6. Delivers(k)'
      BY <1>2, <2>1, <3>1, <3>4, <3>5 DEF Delivers
    <3>7. QED
      BY <2>1, <3>3, <3>6
  <2>7. QED
    BY <1>5, <2>5, <2>6
<1>8. \A l \in DOMAIN Coming' : (l \in DOMAIN Coming /\ Coming'[l] = Coming[l]) \/ Coming'[l] = n
  <2>1. CASE chain # <<>> /\ chain[1].s # 0
    <3>1. PICK k : k = chain[1].s
      OBVIOUS
    <3>2. 1 \in 1..Len(chain)
      BY <2>1, HearingTypes DEF HearingInv
    <3>3. k \in 1..Len(sess)
      BY <1>4, <2>1, <3>1, <3>2, HearingTypes DEF Reads
    <3>4. Coming = sess[k].down /\ Coming' = sess'[k].down
      BY <1>2, <2>1, <3>1 DEF Coming
    <3>5. QED
      BY <1>7, <3>3, <3>4
  <2>2. CASE ~(chain # <<>> /\ chain[1].s # 0)
    BY <1>2, <2>2 DEF Coming
  <2>3. QED
    BY <2>1, <2>2
<1>9. InTurn'
  <2>1. PICK c, d, h : c = Coming /\ d = Coming' /\ h = sub.hand
    OBVIOUS
  <2>2. /\ h <= sent /\ \A l \in DOMAIN c : h < c[l]
        /\ \A i \in Id : \A j \in DOMAIN got[i] :
             /\ got[i][j].m <= sent /\ (h # 0 => got[i][j].m < h)
             /\ \A l \in DOMAIN c : got[i][j].m < c[l]
    BY <2>1 DEF HearingInv, InTurn
  <2>3. h \in Nat /\ h <= n /\ h < n
    <3>1. h \in Nat
      BY <2>1 DEF HearingInv, Reader
    <3>2. QED
      BY <1>4, <2>2, <3>1
  <2>4. \A i \in Id : \A j \in DOMAIN got[i] : got[i][j].m <= n /\ got[i][j].m < n
    <3> SUFFICES ASSUME NEW i \in Id, NEW j \in DOMAIN got[i]
                 PROVE  got[i][j].m <= n /\ got[i][j].m < n
      OBVIOUS
    <3>1. got[i][j] \in Told
      BY DEF HearingInv
    <3>2. got[i][j].m \in Nat /\ got[i][j].m <= sent
      BY <2>2, <3>1 DEF Told
    <3>3. QED
      BY <1>4, <3>2
  <2>5. \A l \in DOMAIN d : (l \in DOMAIN c /\ d[l] = c[l]) \/ d[l] = n
    BY <1>8, <2>1
  <2>6. \A l \in DOMAIN d : h < d[l]
    BY <2>2, <2>3, <2>5
  <2>7. \A i \in Id : \A j \in DOMAIN got[i] : \A l \in DOMAIN d : got[i][j].m < d[l]
    BY <2>2, <2>4, <2>5
  <2>8. QED
    BY <1>2, <2>1, <2>2, <2>3, <2>4, <2>6, <2>7 DEF InTurn
<1>10. \A o \in DOMAIN chain : Reads(o)'
  BY <1>2, <1>6 DEF HearingInv, Reads
<1>11. (\A k \in 1..Len(sess') : Delivers(k)') /\ sent' \in Nat
  BY <1>2, <1>4, <1>6, <1>7
<1>12. QED
  BY <1>2, <1>6, <1>9, <1>10, <1>11 DEF HearingInv

\* A client is added or removed.
LEMMA ComingAndGoingStep ==
  ASSUME HearingInv, ListenersInv, NEW c \in Caller, ListenerStep(c)
  PROVE  HearingInv' /\ got' = got
<1>1. \/ \E initial \in BOOLEAN : AddSubscriptionClient(c, initial)
      \/ \E id : RemoveSubscriptionClient(id)
      \/ UNCHANGED <<linkVars, subVars>>
  BY DEF ListenerStep, WebImporter, WebTypedImporter, WebLazyImporter, WebTypedLazyImporter,
         FetchFirstUpdateAndDisconnect, FetchTypedFirstUpdateAndDisconnect, Fetches, Adds
<1>2. UNCHANGED <<sess, got, sent>>
  BY <1>1 DEF AddSubscriptionClient, RemoveSubscriptionClient, linkVars, subVars
<1>3. SessionsRest
  BY <1>2, SessionsStay
<1>4. sub \in Reader /\ ids \subseteq Id
  BY DEF HearingInv
<1>5. CASE UNCHANGED <<linkVars, subVars>>
  <2>1. UNCHANGED <<chain, sub, ids>>
    BY <1>5 DEF linkVars, subVars
  <2>2. QED
    BY <1>2, <1>3, <1>4, <2>1, ReaderStays, RestingStep
<1>6. ASSUME NEW id, RemoveSubscriptionClient(id)
      PROVE  HearingInv'
  <2>1. chain' = chain /\ ids' \subseteq ids
    BY <1>6 DEF RemoveSubscriptionClient, linkVars
  <2>2. CASE sub' = sub
    BY <1>2, <1>3, <1>4, <2>1, <2>2, ReaderStays, RestingStep
  <2>3. CASE sub' = [sub EXCEPT !.clients = ClientsWithout(@, id)]
    <3>1. sub.clients \in Seq(Nat) /\
          \A k, l \in DOMAIN sub.clients : sub.clients[k] = sub.clients[l] => k = l
      BY DEF ListenersInv
    <3>2. PICK w \in Seq(Nat) : w = ClientsWithout(sub.clients, id)
      BY <3>1, ClientsWithoutKeeps
    <3>3. sub' = [sub EXCEPT !.clients = w]
      BY <2>3, <3>2
    <3>4. sub' \in Reader /\ sub'.hand = sub.hand
      BY <1>4, <3>3 DEF Reader
    <3>5. QED
      BY <1>2, <1>3, <1>4, <2>1, <3>4, ReaderStays, RestingStep
  <2>4. QED
    BY <1>6, <2>2, <2>3 DEF RemoveSubscriptionClient
<1>7. ASSUME NEW initial \in BOOLEAN, AddSubscriptionClient(c, initial)
      PROVE  HearingInv'
  <2>1. PICK id : id = Len(owner) + 1
    OBVIOUS
  <2>2. id \in Id /\ id \in Nat
    <3>1. Len(owner) \in Nat /\ Len(owner) < MaxId
      BY <1>7 DEF AddSubscriptionClient, ListenersInv
    <3>2. QED
      BY <2>1, <3>1, RpcAssumption DEF Id
  <2>3. ids' \subseteq Id
    BY <1>4, <1>7, <2>1, <2>2 DEF AddSubscriptionClient
  <2>4. sub' \in Reader /\ sub'.hand = sub.hand
    <3>1. CASE sub' = sub
      BY <1>4, <3>1
    <3>2. CASE sub' = [sub EXCEPT !.initial = initial, !.clients = <<id>>]
      <4>1. PICK q \in Seq(Nat) : q = <<id>>
        <5>1. id \in Nat
          BY <2>2
        <5>2. <<id>> \in Seq(Nat)
          BY <5>1
        <5>3. QED
          BY <5>2
      <4>2. sub' = [sub EXCEPT !.initial = initial, !.clients = q]
        BY <3>2, <4>1
      <4>3. QED
        BY <1>4, <4>2 DEF Reader
    <3>3. CASE sub' = [sub EXCEPT !.clients = Append(@, id)]
      <4>1. sub.clients \in Seq(Nat)
        BY DEF ListenersInv
      <4>2. PICK q \in Seq(Nat) : q = Append(sub.clients, id)
        <5>1. id \in Nat
          BY <2>2
        <5>2. Append(sub.clients, id) \in Seq(Nat)
          BY <4>1, <5>1, Added
        <5>3. QED
          BY <5>2
      <4>3. sub' = [sub EXCEPT !.clients = q]
        BY <3>3, <4>2
      <4>4. QED
        BY <1>4, <4>3 DEF Reader
    <3>4. QED
      BY <1>7, <2>1, <3>1, <3>2, <3>3 DEF AddSubscriptionClient
  <2>5. ReaderMoves
    <3>1. CASE chain' = chain
      BY <1>3, <3>1, ReaderStays
    <3>2. CASE chain' = <<Resolving>>
      <4>1. PICK x : x = Resolving
        OBVIOUS
      <4>2. x \in Chain /\ x.s = 0 /\ x.at \notin {"securing", "shaking", "reading"}
        BY <4>1 DEF Resolving, Chain, ChainAt
      <4>3. chain' \in Seq(Chain) /\ DOMAIN chain' = {1} /\ chain'[1] = x
        BY <3>2, <4>1, <4>2
      <4>4. Len(sess') \in Nat
        BY <1>3 DEF SessionsRest
      <4>5. Reads(1)'
        BY <4>2, <4>3, <4>4 DEF Reads
      <4>6. QED
        BY <4>2, <4>3, <4>5 DEF ReaderMoves
    <3>3. QED
      BY <1>7, <3>1, <3>2 DEF AddSubscriptionClient
  <2>6. QED
    BY <1>2, <1>3, <2>3, <2>4, <2>5, RestingStep
<1>8. QED
  BY <1>1, <1>2, <1>5, <1>6, <1>7
-----------------------------------------------------------------------------
(* All steps.                                                              *)

LEMMA UnheardStep ==
  ASSUME HearingInv, UNCHANGED <<chain, sess, subVars>>
  PROVE  HearingInv' /\ got' = got
<1>1. UNCHANGED <<sub, ids, got, sent>> /\ sub \in Reader /\ ids \subseteq Id
  BY DEF subVars, HearingInv
<1>2. SessionsRest
  BY SessionsStay
<1>3. ReaderMoves
  BY <1>2, ReaderStays
<1>4. QED
  BY <1>1, <1>2, <1>3, RestingStep

LEMMA SubscriberStepHears ==
  ASSUME WebSocket, HearingInv, ListenersInv, SubscriberStep
  PROVE  HearingInv' /\ (got' = got \/ HeardInTurn)
<1>1. sub \in Reader /\ ids \subseteq Id
  BY DEF HearingInv
<1>2. ASSUME NEW c \in Caller, ListenerStep(c)
      PROVE  HearingInv' /\ got' = got
  BY <1>2, ComingAndGoingStep
<1>3. ASSUME NEW o \in 1..Len(chain), SubscriberChain(o) \/ ClientsHear(o)
      PROVE  HearingInv' /\ (got' = got \/ HeardInTurn)
  <2>1. o = 1 /\ DOMAIN chain = {1}
    <3>1. o = 1
      BY <1>3 DEF SubscriberChain, SubscriberOnResolve, SubscriberOnConnect,
         SubscriberOnSSLHandshake, SubscriberOnWebSocketHandshake, SubscriberOnRead,
         SubscriberMoves, ClientsHear, CallClients, Subscribed
    <3>2. chain # <<>>
      BY <1>3
    <3>3. QED
      BY <3>1, <3>2 DEF ListenersInv
  <2>2. CASE ClientsHear(1)
    BY <2>1, <2>2, HearingStep
  <2>3. CASE \/ SubscriberOnResolve(1) \/ SubscriberOnConnect(1) \/ SubscriberOnSSLHandshake(1)
             \/ SubscriberOnWebSocketHandshake(1) \/ SubscriberMoves(1)
    <3>1. SessionsRest /\ ReaderMoves
      BY <2>1, <2>3, ReaderRests
    <3>2. UNCHANGED <<sub, ids, got, sent>>
      BY <2>3 DEF SubscriberOnResolve, SubscriberOnConnect, SubscriberOnSSLHandshake,
         SubscriberOnWebSocketHandshake, SubscriberMoves, Moved, subVars
    <3>3. QED
      BY <1>1, <3>1, <3>2, RestingStep
  <2>4. CASE SubscriberOnRead(1)
    <3>1. UNCHANGED <<ids, got, sent>>
      BY <2>4 DEF SubscriberOnRead
    <3>2. CASE FailsToRead(1, "reading") /\ UNCHANGED sub
      <4>1. SessionsRest /\ ReaderMoves
        BY <2>1, <3>2, ReaderRests
      <4>2. QED
        BY <1>1, <3>1, <3>2, <4>1, RestingStep
    <3>3. CASE /\ Due(1, "reading") /\ sub.hand = 0 /\ sess[chain[1].s].down # <<>>
               /\ sub' = [sub EXCEPT !.hand = Head(sess[chain[1].s].down)]
               /\ sess' = [sess EXCEPT ![chain[1].s].down = Tail(@)]
               /\ chain' = chain
      BY <2>1, <3>1, <3>3, TakingStep
    <3>4. QED
      BY <2>4, <3>2, <3>3 DEF SubscriberOnRead
  <2>5. QED
    BY <1>3, <2>1, <2>2, <2>3, <2>4 DEF SubscriberChain
<1>4. ASSUME NEW k \in 1..Len(sess), PublisherHandlers(k) \/ SubscriptionBreaks(k)
      PROVE  HearingInv' /\ got' = got
  <2>1. SessionsRest /\ UNCHANGED <<chain, sub, ids, got, sent>>
    BY <1>4, HandlersRest
  <2>2. ReaderMoves
    BY <2>1, ReaderStays
  <2>3. QED
    BY <1>1, <2>1, <2>2, RestingStep
<1>5. ASSUME NEW s \in Server, ExportStep(s)
      PROVE  HearingInv' /\ got' = got
  <2>1. CASE Publish
    BY <2>1, PublishingStep DEF Publish
  <2>2. CASE GetPublisher
    <3>1. UNCHANGED <<chain, sess, subVars>>
      BY <2>2 DEF GetPublisher, Opens, subVars
    <3>2. QED
      BY <3>1, UnheardStep
  <2>3. QED
    BY <1>5, <2>1, <2>2 DEF ExportStep, WebExporter, WebTypedExporter
<1>6. CASE PublisherFails
  <2>1. SiteEnds /\ UNCHANGED <<chain, sub, ids, got, sent>>
    BY <1>6 DEF PublisherFails, SiteEnds, subVars
  <2>2. SessionsRest
    BY <2>1, SiteEndsRests
  <2>3. ReaderMoves
    BY <2>1, <2>2, ReaderStays
  <2>4. QED
    BY <1>1, <2>1, <2>2, <2>3, RestingStep
<1>7. QED
  BY <1>2, <1>3, <1>4, <1>5, <1>6 DEF SubscriberStep

\* Nobody subscribes where remote calls are made.
LEMMA SubscriberRests ==
  ASSUME ~WebSocket, SubscriberStep
  PROVE  UNCHANGED <<linkVars, subVars>>
<1>1. ASSUME NEW c \in Caller, ListenerStep(c)
      PROVE  UNCHANGED <<linkVars, subVars>>
  BY <1>1 DEF ListenerStep, WebImporter, WebTypedImporter, WebLazyImporter,
     WebTypedLazyImporter, FetchFirstUpdateAndDisconnect, FetchTypedFirstUpdateAndDisconnect,
     Fetches, Adds, AddSubscriptionClient, RemoveSubscriptionClient
<1>2. ASSUME NEW o \in 1..Len(chain), SubscriberChain(o) \/ ClientsHear(o)
      PROVE  FALSE
  BY <1>2 DEF SubscriberChain, SubscriberOnResolve, SubscriberOnConnect,
     SubscriberOnSSLHandshake, SubscriberOnWebSocketHandshake, SubscriberOnRead, SubscriberMoves,
     ClientsHear, CallClients, Subscribed
<1>3. ASSUME NEW k \in 1..Len(sess), PublisherHandlers(k) \/ SubscriptionBreaks(k)
      PROVE  FALSE
  BY <1>3 DEF PublisherHandlers, PublisherOnAccept, PublisherOnRun,
     PublisherOnSslHandshake, PublisherOnWsHandshake, PublisherOnRead, SubscriptionBreaks
<1>4. ASSUME NEW s \in Server, ExportStep(s)
      PROVE  FALSE
  BY <1>4 DEF ExportStep, WebExporter, WebTypedExporter, GetPublisher, Publish
<1>5. ~PublisherFails
  BY DEF PublisherFails
<1>6. QED
  BY <1>1, <1>2, <1>3, <1>4, <1>5 DEF SubscriberStep

LEMMA HearingAtFirst ==
  ASSUME Init
  PROVE  HearingInv
<1>1. /\ sub = NoSub /\ sent = 0 /\ ids = {} /\ got = [i \in Id |-> <<>>]
      /\ sess = <<>> /\ chain = <<>>
  BY DEF Init, WebBroadcastInit, LinkInit
<1>2. sub \in Reader /\ sub.hand = 0
  <2>1. <<>> \in Seq(Nat)
    OBVIOUS
  <2>2. QED
    BY <1>1, <2>1 DEF NoSub, Reader
<1>3. got \in [Id -> Seq(Told)]
  <2>1. <<>> \in Seq(Told)
    OBVIOUS
  <2>2. QED
    BY <1>1, <2>1
<1>4. sess \in Seq(Subscription) /\ chain \in Seq(Chain)
  <2>1. <<>> \in Seq(Subscription)
    OBVIOUS
  <2>2. <<>> \in Seq(Chain)
    OBVIOUS
  <2>3. QED
    BY <1>1, <2>1, <2>2
<1>5. Len(sess) = 0 /\ DOMAIN chain = {} /\ Coming = <<>>
  BY <1>1 DEF Coming
<1>6. InTurn
  BY <1>1, <1>2, <1>5 DEF InTurn
<1>7. QED
  BY <1>1, <1>2, <1>3, <1>4, <1>5, <1>6 DEF HearingInv

\* A callback is called while its client is there, with publications in their
\* order and each once, over reconnections too, and finds a message whole, or
\* another callback was given it whole (onRead, callClient and moveToNewOne).
THEOREM ListenersAlwaysHearInOrder == Spec => ListenersHearInOrder
<1> DEFINE Inv == ListenersInv /\ (WebSocket => HearingInv)
<1>1. Init => Inv
  BY ListenersAtFirst, HearingAtFirst
<1>2. Inv /\ [Next]_vars => Inv' /\ [HeardInTurn]_vars
  <2> SUFFICES ASSUME Inv, [Next]_vars
               PROVE  Inv' /\ (got' = got \/ HeardInTurn)
    BY DEF HeardInTurn
  <2>1. ListenersInv' /\ kind' = kind
    BY StepKeepsListeners
  <2>2. CASE SubscriberStep
    BY <2>1, <2>2, SubscriberStepHears, SubscriberRests DEF subVars, WebSocket
  <2>3. CASE (RpcStep /\ UNCHANGED webBroadcastVars) \/ FinalizeNext \/ UNCHANGED vars
    <3>1. UNCHANGED subVars
      BY <2>3 DEF webBroadcastVars, FinalizeNext, vars
    <3>2. WebSocket => UNCHANGED <<chain, sess>>
      BY <2>3, RpcStepsKeepListeners DEF FinalizeNext, WebFinalizeEnvironment, RunsPorts, SetsStarted,
                                         vars, linkVars,
                                         WebSocket, WebRpc
    <3>3. WebSocket => HearingInv'
      BY <3>1, <3>2, UnheardStep
    <3>4. QED
      BY <2>1, <3>1, <3>3 DEF subVars, WebSocket
  <2>4. QED
    BY <2>2, <2>3, StepIsOne
<1>3. Spec => [][HeardInTurn]_vars
  <2> HIDE DEF Inv
  <2>1. QED
    BY <1>1, <1>2, PTL DEF Spec
<1>4. QED
  BY <1>3 DEF ListenersHearInOrder, HeardInTurn
-----------------------------------------------------------------------------
(* What no step of remote calls takes away.                                *)

\* Objects, numbers, requests and sessions stay; new clients have new numbers.
Grows ==
  /\ Len(conn) <= Len(conn') /\ Len(asker) <= Len(asker')
  /\ \A o \in 1..Len(conn) :
       /\ conn[o].counter <= conn'[o].counter
       /\ \A q \in conn'[o].clients : q \in conn[o].clients \/ conn[o].counter < q[1]
       /\ chain[o].s # 0 => chain'[o].s = chain[o].s
       /\ Cut(o) => Cut(o)'
  /\ \A i \in 1..Len(asker) : asker'[i] = asker[i]

LEMMA Parts ==
  ASSUME NEW x \in Connection
  PROVE  x.counter \in Nat
BY DEF Connection

LEMMA Counters ==
  ASSUME ClientTypes
  PROVE  Len(conn) \in Nat /\ \A o \in 1..Len(conn) : conn[o] \in Connection /\ conn[o].counter \in Nat
<1>1. \A o \in 1..Len(conn) : conn[o] \in Connection
  BY DEF ClientTypes
<1>2. Len(conn) \in Nat
  BY DEF ClientTypes
<1>3. QED
  BY <1>1, <1>2, Parts

LEMMA NewCounters ==
  ASSUME ClientTypes'
  PROVE  /\ Len(conn') \in Nat
         /\ \A o \in 1..Len(conn') : conn'[o] \in Connection /\ conn'[o].counter \in Nat
<1>1. \A o \in 1..Len(conn') : conn'[o] \in Connection
  BY DEF ClientTypes
<1>2. Len(conn') \in Nat
  BY DEF ClientTypes
<1>3. QED
  BY <1>1, <1>2, Parts

LEMMA Lasting ==
  ASSUME ClientTypes, ClientTypes', Grows
  PROVE  /\ \A o \in 1..Len(conn) :
              o \in 1..Len(conn') /\ \A n \in 1..conn[o].counter : n \in 1..conn'[o].counter
         /\ \A i \in 1..Len(asker) : i \in 1..Len(asker')
         /\ \A i, o : MadeOn(i, o) => MadeOn(i, o)' /\ asker'[i] = asker[i]
<1>1. /\ Len(conn) \in Nat /\ Len(conn') \in Nat /\ Len(asker) \in Nat /\ Len(asker') \in Nat
      /\ \A o \in 1..Len(conn) : conn[o].counter \in Nat
      /\ \A o \in 1..Len(conn') : conn'[o].counter \in Nat
  BY Counters, NewCounters DEF ClientTypes
<1>2. \A o \in 1..Len(conn) : o \in 1..Len(conn')
  BY <1>1 DEF Grows
<1>3. \A i \in 1..Len(asker) : i \in 1..Len(asker')
  BY <1>1 DEF Grows
<1>4. \A o \in 1..Len(conn) : \A n \in 1..conn[o].counter : n \in 1..conn'[o].counter
  BY <1>1, <1>2 DEF Grows
<1>5. QED
  BY <1>2, <1>3, <1>4 DEF MadeOn, Grows

LEMMA AskersLast ==
  ASSUME RpcInv, ClientTypes', Grows, NEW i \in 1..Len(asker)
  PROVE  AskerIsTrue(i)'
<1>1. asker'[i] = asker[i] /\ AskerIsTrue(i)
  BY DEF Grows, RpcInv, ClientsInv, AskersAreTrue
<1> DEFINE o == asker[i].o
<1>2. o \in 1..Len(conn) /\ o \in 1..Len(conn') /\ asker[i].num \in 1..conn'[o].counter
  BY <1>1, Lasting DEF AskerIsTrue, RpcInv
<1>3. ASSUME NEW q \in conn'[o].clients, q[1] = asker[i].num PROVE q[2] = asker[i].by
  <2>1. conn[o].counter \in Nat
    BY <1>2, Counters DEF RpcInv
  <2>2. asker[i].num \in 1..conn[o].counter
    BY <1>1 DEF AskerIsTrue
  <2>3. ~(conn[o].counter < q[1])
    BY <1>3, <2>1, <2>2
  <2>4. q \in conn[o].clients
    BY <1>2, <2>3 DEF Grows
  <2>5. QED
    BY <1>1, <1>3, <2>4 DEF AskerIsTrue
<1>4. QED
  BY <1>1, <1>2, <1>3 DEF AskerIsTrue

LEMMA UsersLast ==
  ASSUME RpcInv, ClientTypes', Grows, NEW c \in Caller, user'[c] = user[c]
  PROVE  UserIsTrue(c)'
<1>1. UserIsTrue(c) /\ ClientTypes
  BY DEF RpcInv, ClientsInv, UsersAreTrue
<1> DEFINE o == user[c].o
<1>2. user[c].at \notin {"out", "refused"} =>
        /\ o \in 1..Len(conn) /\ o \in 1..Len(conn')
        /\ \A n \in 1..conn[o].counter : n \in 1..conn'[o].counter
  BY <1>1, Lasting DEF UserIsTrue
<1>3. Numbered(c)' <=> Numbered(c)
  BY DEF Numbered
<1>4. Numbered(c) => /\ user[c].num \in 1..conn'[o].counter
                     /\ \A q \in conn'[o].clients : q[1] = user[c].num => q[2] = c
  <2> SUFFICES ASSUME Numbered(c)
               PROVE  /\ user[c].num \in 1..conn'[o].counter
                      /\ \A q \in conn'[o].clients : q[1] = user[c].num => q[2] = c
    OBVIOUS
  <2>1. user[c].num \in 1..conn[o].counter /\ o \in 1..Len(conn)
    BY <1>1, <1>2 DEF UserIsTrue, Numbered
  <2>2. conn[o].counter \in Nat
    BY <1>1, <2>1, Counters
  <2>3. ASSUME NEW q \in conn'[o].clients, q[1] = user[c].num PROVE q[2] = c
    <3>1. ~(conn[o].counter < q[1])
      BY <2>1, <2>2, <2>3
    <3>2. q \in conn[o].clients
      BY <2>1, <3>1 DEF Grows
    <3>3. QED
      BY <1>1, <2>3, <3>2 DEF UserIsTrue
  <2>4. QED
    BY <1>2, <2>1, <2>3 DEF Numbered
<1>5. (Asks(c)' <=> Asks(c)) /\ AsCaller(c)' = AsCaller(c)
  BY DEF Asks, AsCaller
<1>6. Asks(c) => user[c].id \in 1..Len(asker') /\ asker'[user[c].id] = AsCaller(c)
  BY <1>1, Lasting DEF UserIsTrue, Grows
<1>7. user[c].at \in {"writing", "failing"} => chain'[o].s # 0
  BY <1>1, <1>2 DEF UserIsTrue, Grows
<1>8. user[c].at = "failing" => Cut(o)'
  BY <1>1, <1>2 DEF UserIsTrue, Grows
<1>9. Cut(user[c].o)' <=> Cut(o)'
  BY DEF Cut
<1>10. QED
  BY <1>2, <1>3, <1>4, <1>5, <1>6, <1>7, <1>8, <1>9 DEF UserIsTrue

\* A request goes through the session it went through.
LEMMA WaysLast ==
  ASSUME RpcInv, ClientTypes', Grows, NEW i, NEW k \in 1..Len(sess), MadeVia(i, k)
  PROVE  MadeVia(i, k)'
<1>1. i \in 1..Len(asker) /\ asker'[i] = asker[i] /\ AskerIsTrue(i) /\ chain[asker[i].o].s = k
  BY DEF MadeVia, Grows, RpcInv, ClientsInv, AskersAreTrue
<1>2. asker[i].o \in 1..Len(conn) /\ k # 0
  <2>1. Len(sess) \in Nat
    BY DEF RpcInv, LinkTypes
  <2>2. QED
    BY <1>1, <2>1 DEF AskerIsTrue
<1>3. i \in 1..Len(asker')
  BY <1>1, Lasting DEF RpcInv
<1>4. chain'[asker[i].o].s = k
  BY <1>1, <1>2 DEF Grows
<1>5. QED
  BY <1>1, <1>3, <1>4 DEF MadeVia

LEMMA EntriesLast ==
  ASSUME RpcInv, ClientTypes', Grows, Len(sess') \in Nat, Len(sess) <= Len(sess'),
         NEW p, EntryIsTrue(p), sess'[p[2]].peer = "good"
  PROVE  EntryIsTrue(p)'
<1>1. MadeVia(p[1], p[2]) /\ p[2] \in 1..Len(sess) /\ Len(sess) \in Nat
  BY DEF EntryIsTrue, RpcInv, LinkTypes
<1>2. p[2] \in 1..Len(sess')
  BY <1>1
<1>3. MadeVia(p[1], p[2])'
  BY <1>1, WaysLast
<1>4. QED
  BY <1>2, <1>3 DEF EntryIsTrue

\* The servers' entries stay true when no handler is removed.
LEMMA ServersLast ==
  ASSUME RpcInv, ClientTypes', Grows, Len(sess') \in Nat, Len(sess) <= Len(sess'),
         server' = server, lost \subseteq lost', lost' \subseteq Id,
         \A k \in 1..Len(sess) : sess[k].peer = "good" => sess'[k].peer = "good"
  PROVE  ServerTypes' /\ ServersAreTrue'
<1>1. ServerTypes'
  BY DEF RpcInv, ServerTypes
<1>2. ASSUME NEW s \in Server PROVE ServiceIsTrue(server[s])'
  <2>1. PICK x : x = server[s]
    OBVIOUS
  <2>2. ServiceIsTrue(x) /\ server'[s] = x
    BY <2>1 DEF RpcInv, ServersAreTrue
  <2>3. ASSUME NEW p \in x.table PROVE EntryIsTrue(p)'
    <3>1. EntryIsTrue(p) /\ sess'[p[2]].peer = "good"
      BY <2>2 DEF ServiceIsTrue, EntryIsTrue
    <3>2. QED
      BY <3>1, EntriesLast
  <2>4. ServiceIsTrue(x)'
    BY <2>2, <2>3 DEF ServiceIsTrue
  <2>5. QED
    BY <2>2, <2>4 DEF ServiceIsTrue
<1>3. QED
  BY <1>1, <1>2 DEF ServersAreTrue

\* No request is entered in a table, and none is answered for the last time.
NothingEnters ==
  /\ heard' = heard
  /\ \A o \in 1..Len(conn') : \A p \in conn'[o].table : o \in 1..Len(conn) /\ p \in conn[o].table

LEMMA StillNotEntered ==
  ASSUME NothingEnters, NEW i, NotEntered(i)
  PROVE  NotEntered(i)'
BY DEF NothingEnters, NotEntered, LastHeard

\* Request i waits in object o's buffer, or was copied from it.
InBuffer(i, o) ==
  \/ \E k \in DOMAIN before[o].wait : before[o].wait[k][2] = i
  \/ \E k \in DOMAIN before[o].copy : before[o].copy[k][2] = i

\* A buffer that is as it was.
LEMMA BufferLasts ==
  ASSUME RpcInv, ClientTypes', Grows, NEW o \in 1..Len(conn),
         before'[o].wait = before[o].wait, before'[o].copy = before[o].copy,
         chain[o].at = "writing" <=> chain'[o].at = "writing",
         \A i : InBuffer(i, o) /\ NotEntered(i) => NotEntered(i)'
  PROVE  BufferIsTrue(o)'
<1> DEFINE wait == before[o].wait
           copy == before[o].copy
<1>1. /\ \A k \in DOMAIN wait : IsOf(wait[k], o) /\ NotEntered(wait[k][2])
      /\ \A k \in DOMAIN copy : /\ IsOf(copy[k], o)
                                /\ Entering(o, k) \/ NotEntered(copy[k][2])
      /\ \A k, l \in DOMAIN wait : wait[k][2] = wait[l][2] => k = l
      /\ \A k, l \in DOMAIN copy : copy[k][2] = copy[l][2] => k = l
      /\ \A k \in DOMAIN wait, l \in DOMAIN copy : wait[k][2] # copy[l][2]
  BY DEF RpcInv, ClientsInv, BuffersAreTrue, BufferIsTrue
<1>2. \A i, n : MadeOn(i, n) => MadeOn(i, n)' /\ asker'[i] = asker[i]
  BY Lasting DEF RpcInv
<1>3. ASSUME NEW k \in DOMAIN wait PROVE IsOf(before[o].wait[k], o)' /\ NotEntered(before[o].wait[k][2])'
  <2>1. PICK w : w = wait[k]
    OBVIOUS
  <2>2. IsOf(w, o) /\ NotEntered(w[2])
    BY <1>1, <2>1
  <2>3. IsOf(w, o)'
    BY <1>2, <2>2 DEF IsOf
  <2>4. NotEntered(w[2])'
    BY <2>1, <2>2 DEF InBuffer
  <2>5. before'[o].wait[k] = w
    BY <2>1
  <2>6. QED
    BY <2>3, <2>4, <2>5 DEF IsOf, NotEntered, LastHeard, MadeOn
<1>4. ASSUME NEW k \in DOMAIN copy
      PROVE  IsOf(before[o].copy[k], o)' /\ (Entering(o, k)' \/ NotEntered(before[o].copy[k][2])')
  <2>1. PICK w : w = copy[k]
    OBVIOUS
  <2>2. IsOf(w, o) /\ (Entering(o, k) \/ NotEntered(w[2]))
    BY <1>1, <2>1
  <2>3. IsOf(w, o)'
    BY <1>2, <2>2 DEF IsOf
  <2>4. Entering(o, k)' \/ NotEntered(w[2])'
    BY <2>1, <2>2 DEF Entering, InBuffer
  <2>5. before'[o].copy[k] = w
    BY <2>1
  <2>6. QED
    BY <2>3, <2>4, <2>5 DEF IsOf, NotEntered, LastHeard, MadeOn
<1>5. before'[o].wait = wait /\ before'[o].copy = copy
  OBVIOUS
<1>6. QED
  BY <1>1, <1>3, <1>4, <1>5 DEF BufferIsTrue

\* A caller that is about to enter its request, as it was.
LEMMA CallerLasts ==
  ASSUME RpcInv, NEW c \in Caller, WillEnter(c)' => WillEnter(c),
         user'[c].o = user[c].o, user'[c].id = user[c].id,
         WillEnter(c) => /\ before'[user[c].o].wait = before[user[c].o].wait
                         /\ before'[user[c].o].copy = before[user[c].o].copy
                         /\ NotEntered(user[c].id) => NotEntered(user[c].id)'
  PROVE  CallerEnters(c)'
<1>1. CallerEnters(c)
  BY DEF RpcInv, ClientsInv, CallersEnter
<1> SUFFICES ASSUME WillEnter(c)'
             PROVE  /\ NotEntered(user[c].id)'
                    /\ \A k \in DOMAIN before'[user'[c].o].wait :
                         before'[user'[c].o].wait[k][2] # user'[c].id
                    /\ \A k \in DOMAIN before'[user'[c].o].copy :
                         before'[user'[c].o].copy[k][2] # user'[c].id
  BY DEF CallerEnters
<1>2. NotEntered(user[c].id)
  BY <1>1 DEF CallerEnters
<1>3. PICK i : i = user[c].id
  OBVIOUS
<1>4. NotEntered(i)'
  BY <1>2, <1>3
<1>5. NotEntered(user[c].id)'
  BY <1>3, <1>4 DEF NotEntered, LastHeard
<1>6. QED
  BY <1>1, <1>5 DEF CallerEnters

\* Nothing is heard, and no request that was answered is entered anew.
LEMMA HeardLasts ==
  ASSUME RpcInv, ClientTypes', Grows, heard' = heard, raced => raced',
         \A o \in 1..Len(conn') : \A p \in conn'[o].table :
           (o \in 1..Len(conn) /\ p \in conn[o].table) \/ ~LastHeard(p[1])
  PROVE  AllHeardIsTrue'
<1>1. ASSUME NEW i \in Id PROVE HeardIsTrue(i)'
  <2>1. HeardIsTrue(i)
    BY <1>1 DEF RpcInv, ClientsInv, AllHeardIsTrue
  <2>2. LastHeard(i)' <=> LastHeard(i)
    BY DEF LastHeard
  <2>3. i \notin 1..Len(asker') => i \notin 1..Len(asker)
    BY Lasting DEF RpcInv
  <2>4. ASSUME NEW k \in DOMAIN heard[i]
        PROVE  /\ heard[i][k].final => k = Len(heard[i])
               /\ heard[i][k].late => raced'
               /\ heard[i][k].by = asker'[i].by
    <3>1. i \in 1..Len(asker)
      BY <2>1, <2>4 DEF HeardIsTrue
    <3>2. QED
      BY <2>1, <2>4, <3>1 DEF HeardIsTrue, Grows
  <2>5. LastHeard(i) => \A o \in 1..Len(conn') : \A p \in conn'[o].table : p[1] # i
    BY <2>1 DEF HeardIsTrue
  <2>6. QED
    BY <2>1, <2>2, <2>3, <2>4, <2>5 DEF HeardIsTrue
<1>2. QED
  BY <1>1 DEF AllHeardIsTrue

-----------------------------------------------------------------------------
(* Steps of handlers and of the server, which the callers do not see.      *)

\* The links change, and what waits for them does not.
LinksKeep ==
  /\ sess' \in Seq(Session) /\ Len(sess) <= Len(sess')
  /\ \A k \in 1..Len(sess) : sess[k].cut => sess'[k].cut
  /\ chain' \in Seq(Chain) /\ Len(chain') = Len(chain)
  /\ \A o \in 1..Len(conn) :
       /\ chain[o].s # 0 => chain'[o].s = chain[o].s
       /\ chain[o].at = "writing" <=> chain'[o].at = "writing"
       /\ before'[o].wait = before[o].wait /\ before'[o].copy = before[o].copy
  /\ before' \in Seq(Buffer) /\ Len(before') = Len(before)
  /\ secure' \in BOOLEAN /\ ended' \in BOOLEAN /\ (ended => ended')

LEMMA LinksGrow ==
  ASSUME RpcInv, UNCHANGED <<conn, asker>>, LinksKeep
  PROVE  Grows
<1>1. Len(conn) \in Nat /\ Len(asker) \in Nat /\ \A o \in 1..Len(conn) : conn[o].counter \in Nat
  BY Counters DEF RpcInv, ClientTypes
<1>2. ASSUME NEW o \in 1..Len(conn), Cut(o) PROVE Cut(o)'
  <2>1. chain[o].s \in 0..Len(sess) /\ chain[o].s # 0 /\ sess[chain[o].s].cut
    BY <1>2 DEF Cut, RpcInv, ChainsAreTrue, ChainIsTrue
  <2>2. chain[o].s \in 1..Len(sess) /\ chain'[o].s = chain[o].s
    <3>1. Len(sess) \in Nat
      BY DEF RpcInv, LinkTypes
    <3>2. QED
      BY <1>2, <2>1, <3>1 DEF LinksKeep
  <2>3. QED
    BY <2>1, <2>2 DEF Cut, LinksKeep
<1>3. Len(conn) <= Len(conn') /\ Len(asker) <= Len(asker')
  BY <1>1
<1>4. \A o \in 1..Len(conn) : conn[o].counter <= conn'[o].counter
  BY <1>1
<1>5. QED
  BY <1>2, <1>3, <1>4 DEF Grows, LinksKeep

LEMMA LinksStep ==
  ASSUME RpcInv, UNCHANGED <<conn, user, asker, heard, evicted, raced, belated>>, LinksKeep,
         cur' = cur \/ (cur' = 0 /\ ended'), ChainsAreTrue'
  PROVE  Grows /\ ClientTypes' /\ LinkTypes' /\ ClientsInv'
<1>1. Grows
  BY LinksGrow
<1>2. ClientTypes'
  <2>1. cur' \in 0..Len(conn)
    <3>1. Len(conn) \in Nat /\ cur \in 0..Len(conn)
      BY DEF RpcInv, ClientTypes
    <3>2. QED
      BY <3>1
  <2>2. ClientTypes
    BY DEF RpcInv
  <2>3. QED
    BY <2>1, <2>2 DEF ClientTypes, LinksKeep
<1>3. LinkTypes'
  BY DEF RpcInv, LinkTypes, LinksKeep
<1>4. UsersAreTrue'
  BY <1>1, <1>2, UsersLast DEF UsersAreTrue
<1>5. ClientsAreTrue'
  BY DEF RpcInv, ClientsInv, ClientsAreTrue, ClientsOf
<1>6. AskersAreTrue'
  BY <1>1, <1>2, AskersLast DEF AskersAreTrue
<1>7. TablesAreTrue'
  BY DEF RpcInv, ClientsInv, TablesAreTrue, TableIsTrue, MadeOn
<1>8. NothingEnters
  BY DEF NothingEnters
<1>9. \A i : NotEntered(i) => NotEntered(i)'
  BY <1>8, StillNotEntered
<1>10. BuffersAreTrue'
  BY <1>1, <1>2, <1>9, BufferLasts DEF BuffersAreTrue, LinksKeep
<1>11. CallersEnter'
  <2>1. ASSUME NEW c \in Caller PROVE CallerEnters(c)'
    <3>1. WillEnter(c)' <=> WillEnter(c)
      BY DEF WillEnter
    <3>2. WillEnter(c) => user[c].o \in 1..Len(conn)
      BY DEF WillEnter, RpcInv, ClientsInv, UsersAreTrue, UserIsTrue
    <3>3. WillEnter(c) => /\ before'[user[c].o].wait = before[user[c].o].wait
                          /\ before'[user[c].o].copy = before[user[c].o].copy
      BY <3>2 DEF LinksKeep
    <3>4. QED
      BY <1>9, <3>1, <3>3, CallerLasts
  <2>2. QED
    BY <2>1 DEF CallersEnter
<1>12. AllHeardIsTrue'
  BY <1>1, <1>2, HeardLasts
<1>13. PlacesAreTrue'
  <2> SUFFICES ASSUME ~raced, ~ended', ~ended, cur' = cur
               PROVE  /\ cur # 0 => \A q \in conn[cur].clients : IsItself(q, cur)'
                      /\ \A o \in 1..Len(conn) : o # cur => Cut(o)' \/ Deserted(o)'
    BY DEF PlacesAreTrue, LinksKeep, IsItself, Deserted, Cut, Numbered
  <2>1. /\ cur # 0 => \A q \in conn[cur].clients : IsItself(q, cur)
        /\ \A o \in 1..Len(conn) : o # cur => Cut(o) \/ Deserted(o)
    BY DEF RpcInv, ClientsInv, PlacesAreTrue
  <2>2. \A q, o : IsItself(q, o) => IsItself(q, o)'
    BY DEF IsItself, Numbered
  <2>3. \A o : Deserted(o) => Deserted(o)'
    BY DEF Deserted
  <2>4. QED
    BY <1>1, <2>1, <2>2, <2>3 DEF Grows
<1>14. QED
  BY <1>1, <1>2, <1>3, <1>4, <1>5, <1>6, <1>7, <1>10, <1>11, <1>12, <1>13 DEF ClientsInv

\* What a session has under way was under way; a broken one stays broken.
SessionFrom(x, y) ==
  /\ x.cut => y.cut
  /\ y.cut => y.down = <<>>
  /\ \A j \in DOMAIN y.up : \E i \in DOMAIN x.up : y.up[j] = x.up[i]

SessionsFrom ==
  /\ sess' \in Seq(Session) /\ Len(sess') = Len(sess)
  /\ \A k \in 1..Len(sess) : SessionFrom(sess[k], sess'[k])

\* The callers' side as a whole, without the servers.
CallersInv ==
  /\ ClientTypes /\ LinkTypes /\ ChainsAreTrue /\ SessionsAreTrue /\ ClientsInv

LEMMA SessionsLast ==
  ASSUME RpcInv, ClientTypes', Grows, NEW k \in 1..Len(sess), SessionFrom(sess[k], sess'[k])
  PROVE  SessionIsTrue(k)'
<1>1. SessionIsTrue(k)
  BY DEF RpcInv, SessionsAreTrue
<1>2. ASSUME NEW j \in DOMAIN sess'[k].up PROVE MadeVia(sess[k].up[j], k)'
  <2>1. PICK i : i = sess'[k].up[j]
    OBVIOUS
  <2>2. MadeVia(i, k)
    BY <1>1, <1>2, <2>1 DEF SessionIsTrue, SessionFrom
  <2>3. MadeVia(i, k)'
    BY <2>2, WaysLast
  <2>4. QED
    BY <2>1, <2>3 DEF MadeVia
<1>3. QED
  BY <1>2 DEF SessionIsTrue, SessionFrom

LEMMA SessionsStep ==
  ASSUME RpcInv, SessionsFrom,
         UNCHANGED <<conn, user, asker, heard, evicted, raced, belated, before, secure>>,
         chain' = chain, (cur' = cur /\ ended' = ended) \/ (cur' = 0 /\ ended' = TRUE)
  PROVE  Grows /\ CallersInv'
<1>1. Len(sess) \in Nat /\ sess' \in Seq(Session) /\ ended' \in BOOLEAN /\ (ended => ended')
  <2>1. Len(sess) \in Nat /\ sess' \in Seq(Session) /\ ended \in BOOLEAN
    BY DEF RpcInv, LinkTypes, SessionsFrom
  <2>2. ended' = ended \/ ended' = TRUE
    OBVIOUS
  <2>3. QED
    BY <2>1, <2>2
<1>2. LinksKeep
  BY <1>1 DEF RpcInv, ClientTypes, LinkTypes, LinksKeep, SessionsFrom, SessionFrom
<1>3. ChainsAreTrue'
  <2>1. \A o : ChainIsTrue(o) => ChainIsTrue(o)'
    BY DEF ChainIsTrue, SessionsFrom
  <2>2. QED
    BY <2>1 DEF RpcInv, ChainsAreTrue
<1>4. Grows /\ ClientTypes' /\ LinkTypes' /\ ClientsInv'
  BY <1>2, <1>3, LinksStep
<1>5. SessionsAreTrue'
  BY <1>4, SessionsLast DEF SessionsAreTrue, SessionsFrom
<1>6. QED
  BY <1>3, <1>4, <1>5 DEF CallersInv

\* One session changes.
LEMMA OneSession ==
  ASSUME RpcInv, NEW k \in 1..Len(sess), NEW x \in Session, sess' = [sess EXCEPT ![k] = x],
         SessionFrom(sess[k], x)
  PROVE  /\ SessionsFrom /\ sess'[k] = x /\ \A j \in 1..Len(sess) : j # k => sess'[j] = sess[j]
<1>1. sess \in Seq(Session)
  BY DEF RpcInv, LinkTypes
<1>2. /\ sess' \in Seq(Session) /\ Len(sess') = Len(sess) /\ sess'[k] = x
      /\ \A j \in 1..Len(sess) : j # k => sess'[j] = sess[j]
  BY <1>1, Changed
<1>3. ASSUME NEW j \in 1..Len(sess), j # k PROVE SessionFrom(sess[j], sess'[j])
  <2>1. SessionIsTrue(j) /\ sess'[j] = sess[j]
    BY <1>2, <1>3 DEF RpcInv, SessionsAreTrue
  <2>2. QED
    BY <2>1 DEF SessionIsTrue, SessionFrom
<1>4. QED
  BY <1>2, <1>3 DEF SessionsFrom

LEMMA Sessions ==
  ASSUME RpcInv
  PROVE  /\ Len(sess) \in Nat /\ Len(chain) = Len(conn)
         /\ \A k \in 1..Len(sess) : sess[k] \in Session /\ SessionFrom(sess[k], sess[k])
<1>1. Len(sess) \in Nat /\ \A k \in 1..Len(sess) : sess[k] \in Session
  BY DEF RpcInv, LinkTypes
<1>2. \A k \in 1..Len(sess) : SessionFrom(sess[k], sess[k])
  BY DEF RpcInv, SessionsAreTrue, SessionIsTrue, SessionFrom
<1>3. QED
  BY <1>1, <1>2 DEF RpcInv, LinkTypes

\* One session's handler goes on, or its connection breaks.
LEMMA OneSessionStep ==
  ASSUME RpcInv, NEW k \in 1..Len(sess), NEW x \in Session, sess' = [sess EXCEPT ![k] = x],
         SessionFrom(sess[k], x), sess[k].peer = "good" => x.peer = "good",
         UNCHANGED <<conn, cur, user, asker, heard, evicted, raced, belated, before, secure,
                     ended, server>>,
         chain' = chain, lost \subseteq lost', lost' \subseteq Id
  PROVE  RpcInv'
<1>1. /\ SessionsFrom /\ sess'[k] = x
      /\ \A j \in 1..Len(sess) : j # k => sess'[j] = sess[j]
  BY OneSession
<1>2. Grows /\ CallersInv'
  BY <1>1, SessionsStep
<1>3. Len(sess') \in Nat /\ Len(sess) <= Len(sess')
  BY <1>1, Sessions DEF SessionsFrom
<1>4. \A j \in 1..Len(sess) : sess[j].peer = "good" => sess'[j].peer = "good"
  BY <1>1
<1>5. ServerTypes' /\ ServersAreTrue'
  BY <1>2, <1>3, <1>4, ServersLast DEF CallersInv
<1>6. QED
  BY <1>2, <1>5 DEF CallersInv, RpcInv

-----------------------------------------------------------------------------
(* The handlers of the server's side.                                      *)

LEMMA PeerIs ==
  ASSUME NEW x \in Session, SessionFrom(x, x), NEW p \in PeerAt, NEW y, y = [x EXCEPT !.peer = p]
  PROVE  y \in Session /\ SessionFrom(x, y) /\ y.peer = p /\ y.cut = x.cut
<1>1. y \in Session
  BY DEF Session
<1>2. y.cut = x.cut /\ y.up = x.up /\ y.down = x.down /\ y.peer = p
  BY DEF Session
<1>3. QED
  BY <1>1, <1>2 DEF SessionFrom

LEMMA RemovedIs ==
  ASSUME NEW x \in Session, SessionFrom(x, x), NEW y, y = Removed(x)
  PROVE  y \in Session /\ SessionFrom(x, y) /\ y.peer = "gone" /\ y.cut = x.cut
<1>1. y \in Session
  BY DEF Session, Removed, PeerAt
<1>2. y.cut = x.cut /\ y.up = x.up /\ y.down = x.down /\ y.peer = "gone"
  BY DEF Session, Removed
<1>3. QED
  BY <1>1, <1>2 DEF SessionFrom

LEMMA BrokenIs ==
  ASSUME NEW x \in Session, NEW y, y = Broken(x)
  PROVE  y \in Session /\ SessionFrom(x, y) /\ y.peer = x.peer
<1>1. y \in Session
  <2>1. <<>> \in Seq(Id) /\ <<>> \in Seq(Reply)
    OBVIOUS
  <2>2. QED
    BY <2>1 DEF Session, Broken
<1>2. y.cut = TRUE /\ y.up = <<>> /\ y.down = <<>> /\ y.peer = x.peer
  BY DEF Session, Broken
<1>3. QED
  BY <1>1, <1>2 DEF SessionFrom

\* What a connection that breaks had under way is lost.
LEMMA UnderWayIsRequests ==
  ASSUME RpcInv, NEW k \in 1..Len(sess)
  PROVE  UnderWay(k) \subseteq Id
<1>1. sess[k].up \in Seq(Id) /\ sess[k].down \in Seq(Reply)
  BY Sessions DEF Session
<1>2. Range(sess[k].up) \subseteq Id
  BY <1>1 DEF Range
<1>3. ASSUME NEW r \in Range(sess[k].down) PROVE r.id \in Id
  <2>1. PICK d : d = sess[k].down
    OBVIOUS
  <2>2. d \in Seq(Reply)
    BY <1>1, <2>1
  <2>3. PICK j \in DOMAIN d : r = d[j]
    BY <1>3, <2>1 DEF Range
  <2>4. r \in Reply
    BY <2>2, <2>3
  <2>5. QED
    BY <2>4 DEF Reply
<1>4. QED
  BY <1>2, <1>3 DEF UnderWay

LEMMA AcceptStep ==
  ASSUME RpcInv, NEW k \in 1..Len(sess), RpcServerOnAccept(k)
  PROVE  RpcInv'
<1>1. sess[k] \in Session /\ SessionFrom(sess[k], sess[k]) /\ lost \subseteq Id
  BY Sessions DEF RpcInv, ServerTypes
<1>2. UNCHANGED <<conn, cur, user, asker, heard, evicted, raced, belated, before, secure,
                  ended, server, lost>> /\ chain' = chain
  BY DEF RpcServerOnAccept, Accepts, callVars, clientVars, undefVars, webRpcVars
<1>3. CASE Accepts(k)
  <2>1. PICK x : x = [sess[k] EXCEPT !.peer = "accepted"]
    OBVIOUS
  <2>2. x \in Session /\ SessionFrom(sess[k], x)
    BY <1>1, <2>1, PeerIs DEF PeerAt
  <2>3. sess' = [sess EXCEPT ![k] = x] /\ sess[k].peer # "good"
    BY <1>3, <2>1 DEF Accepts
  <2>4. QED
    BY <1>1, <1>2, <2>2, <2>3, OneSessionStep
<1>4. CASE ReadThrows(k) /\ sess' = [sess EXCEPT ![k] = Removed(@)]
  <2>1. PICK x : x = Removed(sess[k])
    OBVIOUS
  <2>2. x \in Session /\ SessionFrom(sess[k], x)
    BY <1>1, <2>1, RemovedIs
  <2>3. sess' = [sess EXCEPT ![k] = x] /\ sess[k].peer # "good"
    BY <1>4, <2>1 DEF ReadThrows
  <2>4. QED
    BY <1>1, <1>2, <2>2, <2>3, OneSessionStep
<1>5. QED
  BY <1>3, <1>4 DEF RpcServerOnAccept

LEMMA RunStep ==
  ASSUME RpcInv, NEW k \in 1..Len(sess), RpcServerOnRun(k) \/ RpcServerOnWsHandshake(k)
  PROVE  RpcInv'
<1>1. sess[k] \in Session /\ SessionFrom(sess[k], sess[k]) /\ lost \subseteq Id
  BY Sessions DEF RpcInv, ServerTypes
<1>2. UNCHANGED <<conn, cur, user, asker, heard, evicted, raced, belated, before, secure,
                  ended, server, lost>> /\ chain' = chain
  BY DEF RpcServerOnRun, RpcServerOnWsHandshake, Dispatches, Welcomes, callVars, clientVars,
         undefVars, webRpcVars
<1>3. PICK p \in PeerAt : sess' = [sess EXCEPT ![k].peer = p] /\ (sess[k].peer # "good" \/ p = "good")
  BY DEF RpcServerOnRun, RpcServerOnWsHandshake, Dispatches, Welcomes, PeerAt
<1>4. PICK x : x = [sess[k] EXCEPT !.peer = p]
  OBVIOUS
<1>5. x \in Session /\ SessionFrom(sess[k], x) /\ x.peer = p
  BY <1>1, <1>4, PeerIs
<1>6. sess' = [sess EXCEPT ![k] = x]
  BY <1>3, <1>4
<1>7. QED
  BY <1>1, <1>2, <1>3, <1>5, <1>6, OneSessionStep

LEMMA BreaksStep ==
  ASSUME RpcInv, NEW k \in 1..Len(sess), RpcConnectionBreaks(k)
  PROVE  RpcInv'
<1>1. sess[k] \in Session /\ SessionFrom(sess[k], sess[k]) /\ lost \subseteq Id
  BY Sessions DEF RpcInv, ServerTypes
<1>2. UNCHANGED <<conn, cur, user, asker, heard, evicted, raced, belated, before, secure,
                  ended, server>> /\ chain' = chain
  BY DEF RpcConnectionBreaks, Breaks, callVars, clientVars, undefVars, webRpcVars
<1>3. PICK x : x = Broken(sess[k])
  OBVIOUS
<1>4. x \in Session /\ SessionFrom(sess[k], x) /\ x.peer = sess[k].peer
  BY <1>1, <1>3, BrokenIs
<1>5. sess' = [sess EXCEPT ![k] = x]
  BY <1>3 DEF RpcConnectionBreaks, Breaks
<1>6. lost \subseteq lost' /\ lost' \subseteq Id
  BY <1>1, UnderWayIsRequests DEF RpcConnectionBreaks
<1>7. QED
  BY <1>1, <1>2, <1>4, <1>5, <1>6, OneSessionStep

-----------------------------------------------------------------------------
(* What the server does.                                                   *)

\* The server of the port changes.
LEMMA ServerStep ==
  ASSUME RpcInv, CallersInv', NEW s \in Server, NEW x \in Service,
         server' = [server EXCEPT ![s] = x], lost' \subseteq Id, ServiceIsTrue(x)'
  PROVE  RpcInv'
<1>1. server \in [Server -> Service] /\ \A t \in Server : t = s
  BY WebAssumption DEF RpcInv, ServerTypes
<1>2. server' \in [Server -> Service] /\ server'[s] = x
  BY <1>1
<1>3. ServersAreTrue'
  BY <1>1, <1>2 DEF ServersAreTrue, ServiceIsTrue
<1>4. QED
  BY <1>2, <1>3 DEF CallersInv, RpcInv, ServerTypes

\* The connections stay as they are.
LEMMA QuietStep ==
  ASSUME RpcInv, UNCHANGED <<conn, cur, user, asker, heard, evicted, raced, belated, before,
                             secure, ended, chain, sess>>
  PROVE  Grows /\ CallersInv'
<1>1. SessionsFrom
  BY Sessions DEF SessionsFrom, RpcInv, LinkTypes
<1>2. QED
  BY <1>1, SessionsStep

LEMMA EntriesStay ==
  ASSUME RpcInv, UNCHANGED <<conn, cur, user, asker, heard, evicted, raced, belated, before,
                             secure, ended, chain, sess>>,
         NEW p, EntryIsTrue(p)
  PROVE  EntryIsTrue(p)'
BY DEF EntryIsTrue, MadeVia

LEMMA SiteStep ==
  ASSUME RpcInv, UNCHANGED <<conn, cur, user, asker, heard, evicted, raced, belated, before,
                             secure, ended, chain, sess, server, lost>>
  PROVE  RpcInv'
<1>1. Grows /\ CallersInv'
  BY QuietStep
<1>2. Len(sess') \in Nat /\ Len(sess) <= Len(sess') /\ lost' \subseteq Id
  BY Sessions DEF RpcInv, ServerTypes
<1>3. ServerTypes' /\ ServersAreTrue'
  BY <1>1, <1>2, ServersLast DEF CallersInv
<1>4. QED
  BY <1>1, <1>3 DEF CallersInv, RpcInv

LEMMA ServiceIs ==
  ASSUME RpcInv, NEW s \in Server
  PROVE  server[s] \in Service /\ ServiceIsTrue(server[s]) /\ lost \subseteq Id
BY DEF RpcInv, ServerTypes, ServersAreTrue

\* A server is added, its replier is stored, or its facility keeps silent.
LEMMA ServerAloneStep ==
  ASSUME RpcInv, NEW s \in Server,
         AddServer(s) \/ WebReplierStored(s) \/ \E i \in Id : WebKeepsSilent(s, i)
  PROVE  RpcInv'
<1>1. server[s] \in Service /\ ServiceIsTrue(server[s]) /\ lost \subseteq Id
  BY ServiceIs
<1>2. UNCHANGED <<conn, cur, user, asker, heard, evicted, raced, belated, before, secure,
                  ended, chain, sess>>
  BY DEF AddServer, WebReplierStored, ReplierStored, WebKeepsSilent, KeepsSilent, linkVars,
         clientVars, undefVars, webRpcVars
<1> DEFINE Same(x) == /\ x.table = server[s].table /\ x.index = server[s].index
                      /\ x.work \subseteq server[s].work
<1>3. \E x \in Service : server' = [server EXCEPT ![s] = x] /\ Same(x)
  <2>1. CASE AddServer(s)
    <3>1. PICK x : x = [server[s] EXCEPT !.up = TRUE]
      OBVIOUS
    <3>2. /\ x \in Service /\ x.table = server[s].table /\ x.index = server[s].index
          /\ x.work = server[s].work
      BY <1>1, <3>1 DEF Service
    <3>3. QED
      BY <2>1, <3>1, <3>2 DEF AddServer
  <2>2. CASE WebReplierStored(s)
    <3>1. PICK x : x = [server[s] EXCEPT !.ready = TRUE]
      OBVIOUS
    <3>2. /\ x \in Service /\ x.table = server[s].table /\ x.index = server[s].index
          /\ x.work = server[s].work
      BY <1>1, <3>1 DEF Service
    <3>3. QED
      BY <2>2, <3>1, <3>2 DEF WebReplierStored, ReplierStored
  <2>3. ASSUME NEW i \in Id, WebKeepsSilent(s, i)
        PROVE  \E x \in Service : server' = [server EXCEPT ![s] = x] /\ Same(x)
    <3>1. PICK x : x = [server[s] EXCEPT !.work = @ \ {i}]
      OBVIOUS
    <3>2. /\ x \in Service /\ x.table = server[s].table /\ x.index = server[s].index
          /\ x.work = server[s].work \ {i}
      BY <1>1, <3>1 DEF Service
    <3>3. Same(x)
      BY <3>2
    <3>4. server' = [server EXCEPT ![s] = x]
      BY <2>3, <3>1 DEF WebKeepsSilent, KeepsSilent
    <3>5. QED
      BY <3>2, <3>3, <3>4
  <2>4. QED
    BY <2>1, <2>2, <2>3
<1>4. lost \subseteq lost' /\ lost' \subseteq Id
  BY <1>1 DEF AddServer, WebReplierStored, ReplierStored, WebKeepsSilent, KeepsSilent
<1>5. PICK x \in Service : server' = [server EXCEPT ![s] = x] /\ Same(x)
  BY <1>3
<1>6. ServiceIsTrue(x)'
  <2>1. \A p \in x.table : EntryIsTrue(p)'
    BY <1>1, <1>2, <1>5, EntriesStay DEF ServiceIsTrue
  <2>2. QED
    BY <1>1, <1>4, <1>5, <2>1 DEF ServiceIsTrue
<1>7. QED
  BY <1>2, <1>4, <1>5, <1>6, QuietStep, ServerStep

\* The server's process ends, with what it held.
LEMMA ServerEndsStep ==
  ASSUME RpcInv, NEW s \in Server, WebServerEnds(s),
         UNCHANGED <<clientVars, asker, heard, undefVars, webRpcVars>>
  PROVE  RpcInv'
<1>1. UNCHANGED <<conn, cur, user, asker, heard, evicted, raced, belated, before, secure,
                  ended>> /\ chain' = chain
  BY DEF WebServerEnds, SiteEnds, clientVars, undefVars, webRpcVars
<1>2. sess' = [k \in 1..Len(sess) |-> Removed(Broken(sess[k]))]
  BY DEF WebServerEnds, SiteEnds
<1>3. ASSUME NEW k \in 1..Len(sess)
      PROVE  sess'[k] \in Session /\ SessionFrom(sess[k], sess'[k])
  <2>1. PICK x : x = Broken(sess[k])
    OBVIOUS
  <2>2. x \in Session /\ SessionFrom(sess[k], x) /\ SessionFrom(x, x)
    <3>1. x \in Session /\ SessionFrom(sess[k], x)
      BY <2>1, Sessions, BrokenIs
    <3>2. QED
      BY <3>1 DEF SessionFrom
  <2>3. PICK y : y = Removed(x)
    OBVIOUS
  <2>4. y \in Session /\ SessionFrom(x, y)
    BY <2>2, <2>3, RemovedIs
  <2>5. sess'[k] = y
    BY <1>2, <2>1, <2>3
  <2>6. SessionFrom(sess[k], y)
    BY <2>2, <2>4 DEF SessionFrom
  <2>7. QED
    BY <2>4, <2>5, <2>6
<1>4. SessionsFrom
  <2>1. Len(sess) \in Nat
    BY Sessions
  <2>2. sess' \in Seq(Session) /\ Len(sess') = Len(sess)
    <3>1. \A k \in 1..Len(sess) : Removed(Broken(sess[k])) \in Session
      BY <1>2, <1>3
    <3>2. QED
      BY <1>2, <2>1, <3>1
  <2>3. QED
    BY <1>3, <2>2 DEF SessionsFrom
<1>5. Grows /\ CallersInv'
  BY <1>1, <1>4, SessionsStep
<1>6. server' = [server EXCEPT ![s] = Down] /\ lost' = lost \cup Held(s)
  BY DEF WebServerEnds
<1>7. Down \in Service /\ Down.table = {} /\ Down.index = {} /\ Down.work = {}
  <2>1. <<>> \in Seq(Id \X Nat)
    OBVIOUS
  <2>2. QED
    BY <2>1 DEF Down, Service
<1>8. Held(s) \subseteq Id
  <2>1. server[s].work \subseteq Id /\ server[s].table \subseteq Id \X Nat
    BY ServiceIs DEF Service
  <2>2. \A k \in 1..Len(sess) : UnderWay(k) \subseteq Id
    BY UnderWayIsRequests
  <2>3. QED
    BY <2>1, <2>2 DEF Held
<1>9. lost' \subseteq Id
  BY <1>6, <1>8, ServiceIs
<1>10. ServiceIsTrue(Down)'
  BY <1>7 DEF ServiceIsTrue, Mirror
<1>11. QED
  BY <1>5, <1>6, <1>7, <1>9, <1>10, ServerStep

LEMMA FailsStep ==
  ASSUME RpcInv, NEW s \in Server, RpcServerFails(s)
  PROVE  RpcInv'
BY ServerEndsStep DEF RpcServerFails

LEMMA SslHandshakeStep ==
  ASSUME RpcInv, NEW s \in Server, NEW k \in 1..Len(sess), RpcServerOnSslHandshake(s, k)
  PROVE  RpcInv'
<1>1. sess[k] \in Session /\ SessionFrom(sess[k], sess[k]) /\ lost \subseteq Id
  BY Sessions DEF RpcInv, ServerTypes
<1>2. UNCHANGED <<clientVars, asker, heard, undefVars, webRpcVars>>
  BY DEF RpcServerOnSslHandshake
<1>3. UNCHANGED <<conn, cur, user, asker, heard, evicted, raced, belated, before>>
  BY <1>2 DEF clientVars, undefVars, webRpcVars
<1>4. CASE Upgrades(k) /\ UNCHANGED <<server, lost>>
  <2>1. PICK x : x = [sess[k] EXCEPT !.peer = "shaking"]
    OBVIOUS
  <2>2. x \in Session /\ SessionFrom(sess[k], x)
    BY <1>1, <2>1, PeerIs DEF PeerAt
  <2>3. sess' = [sess EXCEPT ![k] = x] /\ sess[k].peer # "good"
    BY <1>4, <2>1 DEF Upgrades
  <2>4. UNCHANGED <<secure, ended, server, lost>> /\ chain' = chain
    BY <1>4 DEF Upgrades
  <2>5. QED
    BY <1>1, <1>3, <2>2, <2>3, <2>4, OneSessionStep
<1>5. CASE /\ ReadThrows(k) /\ sess' = [sess EXCEPT ![k] = Removed(@)]
           /\ UNCHANGED <<secure, chain, site, ended, server, lost>>
  <2>1. PICK x : x = Removed(sess[k])
    OBVIOUS
  <2>2. x \in Session /\ SessionFrom(sess[k], x)
    BY <1>1, <2>1, RemovedIs
  <2>3. sess' = [sess EXCEPT ![k] = x] /\ sess[k].peer # "good"
    BY <1>5, <2>1 DEF ReadThrows
  <2>4. QED
    BY <1>1, <1>3, <1>5, <2>2, <2>3, OneSessionStep
<1>6. CASE WebServerEnds(s)
  BY <1>2, <1>6, ServerEndsStep
<1>7. QED
  BY <1>4, <1>5, <1>6 DEF RpcServerOnSslHandshake

\* The mirror image of a table without the entries of one handler, or one id.
LEMMA MirrorOf ==
  ASSUME NEW T \in SUBSET (Id \X Nat), NEW k
  PROVE  /\ {p \in Mirror(T) : p[1] # k} = Mirror({p \in T : p[2] # k})
         /\ {p \in Mirror(T) : p[2] # k} = Mirror({p \in T : p[1] # k})
         /\ \A p \in T : <<p[2], p[1]>> \in Mirror(T)
BY DEF Mirror

\* A handler is removed with what came through it.
LEMMA RemoveClientHandlerStep ==
  ASSUME RpcInv, NEW s \in Server, NEW k \in 1..Len(sess), RpcServerRemoveClientHandler(s, k),
         UNCHANGED <<conn, cur, user, asker, heard, evicted, raced, belated, before>>
  PROVE  RpcInv'
<1>1. /\ sess[k] \in Session /\ SessionFrom(sess[k], sess[k]) /\ lost \subseteq Id
      /\ server[s] \in Service /\ ServiceIsTrue(server[s])
  BY Sessions, ServiceIs
<1>2. PICK y : y = Removed(sess[k])
  OBVIOUS
<1>3. y \in Session /\ SessionFrom(sess[k], y) /\ sess' = [sess EXCEPT ![k] = y]
  BY <1>1, <1>2, RemovedIs DEF RpcServerRemoveClientHandler
<1>4. /\ SessionsFrom /\ \A j \in 1..Len(sess) : j # k => sess'[j] = sess[j]
  BY <1>3, OneSession
<1>5. UNCHANGED <<secure, ended>> /\ chain' = chain
  BY DEF RpcServerRemoveClientHandler
<1>6. Grows /\ CallersInv'
  BY <1>4, <1>5, SessionsStep
<1>7. PICK T : T = server[s].table
  OBVIOUS
<1>8. T \in SUBSET (Id \X Nat) /\ server[s].index = Mirror(T) /\ \A p \in T : EntryIsTrue(p)
  BY <1>1, <1>7 DEF Service, ServiceIsTrue
<1>9. PICK x : x = WithoutHandler(server[s], k)
  OBVIOUS
<1>10. /\ x \in Service /\ x.work = server[s].work
       /\ x.table = {p \in T : p[2] # k} /\ x.index = Mirror({p \in T : p[2] # k})
  <2>1. {p \in T : <<p[2], p[1]>> \notin Mirror(T) \/ p[2] # k} = {p \in T : p[2] # k}
    BY <1>8, MirrorOf
  <2>2. {p \in Mirror(T) : p[1] # k} = Mirror({p \in T : p[2] # k})
    BY <1>8, MirrorOf
  <2>3. /\ x \in Service /\ x.work = server[s].work
        /\ x.table = {p \in T : <<p[2], p[1]>> \notin Mirror(T) \/ p[2] # k}
        /\ x.index = {p \in Mirror(T) : p[1] # k}
    <3>1. server[s].index \subseteq Nat \X Id
      BY <1>1 DEF Service
    <3>2. QED
      BY <1>1, <1>7, <1>8, <1>9, <3>1 DEF WithoutHandler, Service
  <2>4. QED
    BY <2>1, <2>2, <2>3
<1>11. lost' = lost \cup {p[2] : p \in {q \in Mirror(T) : q[1] = k}}
  BY <1>8 DEF RpcServerRemoveClientHandler
<1>12. lost' \subseteq Id
  BY <1>1, <1>8, <1>11 DEF Mirror
<1>13. x.work \subseteq {p[1] : p \in x.table} \cup lost'
  <2> SUFFICES ASSUME NEW i \in x.work, i \notin lost'
               PROVE  i \in {p[1] : p \in x.table}
    OBVIOUS
  <2>1. PICK p \in T : p[1] = i
    BY <1>1, <1>7, <1>10, <1>11 DEF ServiceIsTrue
  <2>2. p[2] # k
    <3> SUFFICES ASSUME p[2] = k PROVE FALSE
      OBVIOUS
    <3>1. <<p[2], p[1]>> \in {q \in Mirror(T) : q[1] = k}
      BY <1>8, <2>1, MirrorOf
    <3>2. <<p[2], p[1]>>[2] \in lost'
      BY <1>11, <3>1
    <3>3. QED
      BY <2>1, <3>2
  <2>3. QED
    BY <1>10, <2>1, <2>2
<1>14. \A p \in x.table : EntryIsTrue(p)'
  <2> SUFFICES ASSUME NEW p \in x.table PROVE EntryIsTrue(p)'
    OBVIOUS
  <2>1. EntryIsTrue(p) /\ p[2] # k
    BY <1>8, <1>10
  <2>2. sess'[p[2]].peer = "good"
    BY <1>4, <2>1 DEF EntryIsTrue
  <2>3. Len(sess') \in Nat /\ Len(sess) <= Len(sess')
    BY <1>4, Sessions DEF SessionsFrom
  <2>4. QED
    BY <1>6, <2>1, <2>2, <2>3, EntriesLast DEF CallersInv
<1>15. ServiceIsTrue(x)'
  BY <1>10, <1>13, <1>14 DEF ServiceIsTrue
<1>16. server' = [server EXCEPT ![s] = x]
  BY <1>9 DEF RpcServerRemoveClientHandler
<1>17. QED
  BY <1>6, <1>10, <1>12, <1>15, <1>16, ServerStep

\* What the server is after a request i that came through session k.
Took(s, x, k, i) ==
  /\ x \in Service /\ server' = [server EXCEPT ![s] = x]
  /\ x.table = server[s].table \cup {<<i, k>>}
  /\ x.index = server[s].index \cup {<<k, i>>}
  /\ x.work \subseteq server[s].work \cup {i}
  /\ lost \subseteq lost' /\ lost' \subseteq lost \cup {i}

LEMMA CallServerGives ==
  ASSUME RpcInv, NEW s \in Server, NEW k \in 1..Len(sess), NEW i \in Id, MadeVia(i, k),
         CallServer(s, k, i)
  PROVE  \E x : Took(s, x, k, i)
<1>1. server[s] \in Service /\ ServiceIsTrue(server[s]) /\ k \in Nat
  BY ServiceIs, Sessions
<1>2. PICK T : T = server[s].table
  OBVIOUS
<1>3. T \subseteq Id \X Nat /\ \A p \in T : MadeVia(p[1], p[2])
  BY <1>1, <1>2 DEF Service, ServiceIsTrue, EntryIsTrue
<1>4. {p \in T : p[1] # i} \cup {<<i, k>>} = T \cup {<<i, k>>}
  <2>1. \A p \in T : p = <<p[1], p[2]>>
    BY <1>3
  <2>2. \A p \in T : p[1] = i => p[2] = k
    BY <1>3 DEF MadeVia
  <2>3. QED
    BY <2>1, <2>2
<1>5. PICK y : y = [server[s] EXCEPT !.index = @ \cup {<<k, i>>}]
  OBVIOUS
<1>6. /\ y \in Service /\ y.table = T /\ y.index = server[s].index \cup {<<k, i>>}
      /\ y.work = server[s].work
  <2>1. PICK J : J = server[s].index \cup {<<k, i>>}
    OBVIOUS
  <2>2. J \in SUBSET (Nat \X Id)
    <3>1. server[s].index \in SUBSET (Nat \X Id)
      BY <1>1 DEF Service
    <3>2. QED
      BY <1>1, <2>1, <3>1
  <2>3. y = [server[s] EXCEPT !.index = J]
    BY <1>5, <2>1
  <2>4. y \in Service /\ y.table = T /\ y.index = J /\ y.work = server[s].work
    BY <1>1, <1>2, <2>2, <2>3 DEF Service
  <2>5. QED
    BY <2>1, <2>4
<1>7. PICK z : z = [y EXCEPT !.table = {p \in @ : p[1] # i} \cup {<<i, k>>}]
  OBVIOUS
<1>8. /\ z \in Service /\ z.table = T \cup {<<i, k>>} /\ z.index = y.index /\ z.work = y.work
  <2>1. {p \in y.table : p[1] # i} \cup {<<i, k>>} = T \cup {<<i, k>>}
    BY <1>4, <1>6
  <2>2. z = [y EXCEPT !.table = T \cup {<<i, k>>}]
    BY <1>7, <2>1
  <2>3. T \cup {<<i, k>>} \in SUBSET (Id \X Nat)
    BY <1>1, <1>3
  <2>4. QED
    BY <1>6, <2>2, <2>3 DEF Service
<1>9. CASE y.up
  <2>1. Accepted(s, y, <<i, k>>)
    BY <1>5, <1>9 DEF CallServer
  <2>2. \/ server' = [server EXCEPT ![s] = [z EXCEPT !.work = @ \cup {i}]] /\ lost' = lost
        \/ server' = [server EXCEPT ![s] = z] /\ lost' = lost \cup {i}
    <3>1. <<i, k>>[1] = i
      OBVIOUS
    <3>2. QED
      BY <1>7, <2>1, <3>1 DEF Accepted
  <2>3. CASE server' = [server EXCEPT ![s] = z] /\ lost' = lost \cup {i}
    BY <1>2, <1>6, <1>8, <2>3 DEF Took
  <2>4. CASE server' = [server EXCEPT ![s] = [z EXCEPT !.work = @ \cup {i}]] /\ lost' = lost
    <3>1. PICK x : x = [z EXCEPT !.work = @ \cup {i}]
      OBVIOUS
    <3>2. x \in Service /\ x.table = z.table /\ x.index = z.index /\ x.work = z.work \cup {i}
      BY <1>8, <3>1 DEF Service
    <3>3. QED
      BY <1>2, <1>6, <1>8, <2>4, <3>1, <3>2 DEF Took
  <2>5. QED
    BY <2>2, <2>3, <2>4
<1>10. CASE ~y.up
  <2>1. PICK x : x = [y EXCEPT !.table = @ \cup {<<i, k>>}]
    OBVIOUS
  <2>2. x \in Service /\ x.table = T \cup {<<i, k>>} /\ x.index = y.index /\ x.work = y.work
    <3>1. T \cup {<<i, k>>} \in SUBSET (Id \X Nat)
      BY <1>1, <1>3
    <3>2. QED
      BY <1>6, <2>1, <3>1 DEF Service
  <2>3. server' = [server EXCEPT ![s] = x] /\ lost' = lost \cup {i}
    BY <1>5, <1>10, <2>1 DEF CallServer
  <2>4. QED
    BY <1>2, <1>6, <2>2, <2>3 DEF Took
<1>11. QED
  BY <1>9, <1>10

\* A request is read; it is its object's, and the handler is there.
LEMMA ServerReadStep ==
  ASSUME RpcInv, NEW s \in Server, NEW k \in 1..Len(sess), RpcServerOnRead(s, k)
  PROVE  RpcInv'
<1>1. UNCHANGED <<conn, cur, user, asker, heard, evicted, raced, belated, before>>
  BY DEF RpcServerOnRead, clientVars, undefVars, webRpcVars
<1>2. CASE RpcServerRemoveClientHandler(s, k)
  BY <1>1, <1>2, RemoveClientHandlerStep
<1>3. CASE /\ Runs /\ sess[k].peer = "good" /\ sess[k].up # <<>>
           /\ CallServer(s, k, Head(sess[k].up))
           /\ sess' = [sess EXCEPT ![k].up = Tail(@)]
           /\ UNCHANGED <<secure, chain, site, ended>>
  <2>1. sess[k] \in Session /\ SessionFrom(sess[k], sess[k])
    BY Sessions
  <2>2. PICK q : q = sess[k].up
    OBVIOUS
  <2>3. q \in Seq(Id) /\ q # <<>>
    BY <1>3, <2>1, <2>2 DEF Session
  <2>4. /\ Head(q) \in Id /\ Tail(q) \in Seq(Id) /\ 1 \in DOMAIN q /\ q[1] = Head(q)
        /\ \A j \in DOMAIN Tail(q) : j + 1 \in DOMAIN q /\ Tail(q)[j] = q[j + 1]
    BY <2>3, Taken
  <2>5. PICK i : i = Head(q)
    OBVIOUS
  <2>6. MadeVia(i, k) /\ i \in Id
    BY <2>2, <2>4, <2>5 DEF RpcInv, SessionsAreTrue, SessionIsTrue
  <2>7. PICK y : y = [sess[k] EXCEPT !.up = Tail(@)]
    OBVIOUS
  <2>8. y \in Session /\ y.peer = "good" /\ y.cut = sess[k].cut /\ y.down = sess[k].down
        /\ y.up = Tail(q)
    BY <1>3, <2>1, <2>2, <2>4, <2>7 DEF Session
  <2>9. SessionFrom(sess[k], y)
    BY <2>1, <2>2, <2>4, <2>8 DEF SessionFrom
  <2>10. sess' = [sess EXCEPT ![k] = y]
    BY <1>3, <2>7
  <2>11. /\ SessionsFrom /\ sess'[k] = y /\ \A j \in 1..Len(sess) : j # k => sess'[j] = sess[j]
    BY <2>8, <2>9, <2>10, OneSession
  <2>12. Grows /\ CallersInv'
    BY <1>1, <1>3, <2>11, SessionsStep
  <2>13. PICK x : Took(s, x, k, i)
    <3>1. CallServer(s, k, i)
      BY <1>3, <2>2, <2>5
    <3>2. QED
      BY <2>6, <3>1, CallServerGives
  <2>14. server[s] \in Service /\ ServiceIsTrue(server[s]) /\ lost \subseteq Id
    BY ServiceIs
  <2>15. Len(sess') \in Nat /\ Len(sess) <= Len(sess')
    BY <2>11, Sessions DEF SessionsFrom
  <2>16. ASSUME NEW p \in x.table PROVE EntryIsTrue(p)'
    <3>1. EntryIsTrue(p)
      <4>1. CASE p \in server[s].table
        BY <2>14, <4>1 DEF ServiceIsTrue
      <4>2. CASE p = <<i, k>>
        BY <1>3, <2>6, <4>2 DEF EntryIsTrue
      <4>3. QED
        BY <2>13, <4>1, <4>2 DEF Took
    <3>2. sess'[p[2]].peer = "good"
      BY <2>8, <2>11, <3>1 DEF EntryIsTrue
    <3>3. QED
      BY <2>12, <2>15, <3>1, <3>2, EntriesLast DEF CallersInv
  <2>17. x.index = Mirror(x.table)
    <3>1. PICK T : T = server[s].table
      OBVIOUS
    <3>2. x.table = T \cup {<<i, k>>} /\ x.index = Mirror(T) \cup {<<k, i>>}
      BY <2>13, <2>14, <3>1 DEF ServiceIsTrue, Took
    <3>3. Mirror(T \cup {<<i, k>>}) = Mirror(T) \cup {<<k, i>>}
      BY MirrorAdded
    <3>4. QED
      BY <3>2, <3>3
  <2>18. x.work \subseteq {p[1] : p \in x.table} \cup lost'
    <3>1. <<i, k>> \in x.table /\ <<i, k>>[1] = i
      BY <2>13 DEF Took
    <3>2. server[s].work \subseteq {p[1] : p \in x.table} \cup lost'
      BY <2>13, <2>14 DEF Took, ServiceIsTrue
    <3>3. i \in {p[1] : p \in x.table}
      BY <3>1
    <3>4. QED
      BY <2>13, <3>2, <3>3 DEF Took
  <2>19. ServiceIsTrue(x)'
    BY <2>16, <2>17, <2>18 DEF ServiceIsTrue
  <2>20. lost' \subseteq Id
    BY <2>6, <2>13, <2>14 DEF Took
  <2>21. QED
    BY <2>12, <2>13, <2>19, <2>20, ServerStep DEF Took
<1>4. QED
  BY <1>2, <1>3 DEF RpcServerOnRead

\* The server with a reply out of the facility's hands.
LEMMA AfterReplyIs ==
  ASSUME NEW y \in Service, NEW i \in Id, NEW final \in BOOLEAN,
         NEW z, z = AfterReply(y, i, final)
  PROVE  z \in Service /\ z.table = y.table /\ z.index = y.index /\ z.work \subseteq y.work
         /\ (final => z.work = y.work \ {i})
<1>1. CASE final
  BY <1>1 DEF AfterReply, Service
<1>2. CASE ~final
  BY <1>2 DEF AfterReply, Service
<1>3. QED
  BY <1>1, <1>2

LEMMA ForgottenIs ==
  ASSUME NEW y \in Service, y.index = Mirror(y.table), NEW i \in Id, NEW z, z = Forgotten(y, i)
  PROVE  /\ z \in Service /\ z.table = {p \in y.table : p[1] # i} /\ z.index = Mirror(z.table)
         /\ z.work = y.work
<1>1. PICK T : T = y.table
  OBVIOUS
<1>2. T \in SUBSET (Id \X Nat) /\ y.index = Mirror(T)
  BY <1>1 DEF Service
<1>3. z \in Service /\ z.table = {p \in T : p[1] # i} /\ z.work = y.work
      /\ z.index = {p \in Mirror(T) : p[2] # i}
  BY <1>1, <1>2 DEF Forgotten, Service
<1>4. {p \in Mirror(T) : p[2] # i} = Mirror({p \in T : p[1] # i})
  BY <1>2, MirrorOf
<1>5. z.index = Mirror(z.table)
  BY <1>3, <1>4
<1>6. QED
  BY <1>1, <1>3, <1>5

\* A reply is written to whom it is for, while that connection is there.
LEMMA SendReplyStep ==
  ASSUME RpcInv, NEW s \in Server, NEW i \in Id, NEW final \in BOOLEAN, WebSendReply(s, i, final)
  PROVE  RpcInv'
<1>1. /\ UNCHANGED <<conn, cur, user, asker, heard, evicted, raced, belated, before, secure,
                     ended>>
      /\ chain' = chain
  BY DEF WebSendReply, clientVars, undefVars, webRpcVars
<1>2. server[s] \in Service /\ ServiceIsTrue(server[s]) /\ lost \subseteq Id
  BY ServiceIs
<1> DEFINE to == {p[2] : p \in {q \in server[s].table : server[s].ready /\ q[1] = i}}
           live == {k \in to : ~sess[k].cut}
           r == [id |-> i, final |-> final]
<1>3. /\ sess' = [k \in 1..Len(sess) |->
           IF k \in live THEN [sess[k] EXCEPT !.down = Append(@, r)] ELSE sess[k]]
      /\ lost' = IF live = {} /\ final THEN lost \cup {i} ELSE lost
  BY DEF WebSendReply
<1>4. /\ SessionsFrom
      /\ \A k \in 1..Len(sess) : sess'[k].peer = sess[k].peer
  <2> HIDE DEF to
  <2>1. \A k \in live : ~sess[k].cut
    OBVIOUS
  <2>2. r \in Reply
    BY DEF Reply
  <2> HIDE DEF live, r
  <2>3. ASSUME NEW k \in 1..Len(sess)
        PROVE  /\ (IF k \in live THEN [sess[k] EXCEPT !.down = Append(@, r)] ELSE sess[k]) \in Session
               /\ SessionFrom(sess[k], sess'[k]) /\ sess'[k].peer = sess[k].peer
    <3>1. sess[k] \in Session /\ SessionFrom(sess[k], sess[k])
      BY Sessions
    <3>2. CASE k \in live
      <4>1. PICK y : y = [sess[k] EXCEPT !.down = Append(@, r)]
        OBVIOUS
      <4>2. Append(sess[k].down, r) \in Seq(Reply)
        BY <2>2, <3>1 DEF Session
      <4>3. PICK d : d = Append(sess[k].down, r)
        OBVIOUS
      <4>4. y = [sess[k] EXCEPT !.down = d] /\ d \in Seq(Reply)
        BY <4>1, <4>2, <4>3
      <4>5. y \in Session /\ y.peer = sess[k].peer /\ y.cut = sess[k].cut /\ y.up = sess[k].up
        BY <3>1, <4>4 DEF Session
      <4>6. sess'[k] = y
        BY <1>3, <3>2, <4>1
      <4>7. QED
        BY <2>1, <3>1, <3>2, <4>1, <4>5, <4>6 DEF SessionFrom
    <3>3. CASE k \notin live
      <4>1. sess'[k] = sess[k]
        BY <1>3, <3>3
      <4>2. QED
        BY <3>1, <3>3, <4>1
    <3>4. QED
      BY <3>2, <3>3
  <2>4. Len(sess) \in Nat
    BY Sessions
  <2>5. sess' \in Seq(Session) /\ Len(sess') = Len(sess)
    <3> DEFINE V(k) == IF k \in live THEN [sess[k] EXCEPT !.down = Append(@, r)] ELSE sess[k]
    <3>1. \A k \in 1..Len(sess) : V(k) \in Session
      BY <2>3
    <3>2. sess' = [k \in 1..Len(sess) |-> V(k)]
      BY <1>3
    <3> HIDE DEF V
    <3>3. QED
      BY <2>4, <3>1, <3>2
  <2>6. QED
    BY <2>3, <2>5 DEF SessionsFrom
<1>5. Grows /\ CallersInv'
  BY <1>1, <1>4, SessionsStep
<1>6. PICK z : z = AfterReply(server[s], i, final)
  OBVIOUS
<1>7. /\ z \in Service /\ z.table = server[s].table /\ z.index = server[s].index
      /\ z.work \subseteq server[s].work /\ (final => z.work = server[s].work \ {i})
  BY <1>2, <1>6, AfterReplyIs
<1>8. z.index = Mirror(z.table)
  BY <1>2, <1>7 DEF ServiceIsTrue
<1>9. lost \subseteq lost' /\ lost' \subseteq Id
  BY <1>2, <1>3
<1>10. ASSUME NEW p \in server[s].table PROVE EntryIsTrue(p)'
  <2>1. EntryIsTrue(p) /\ sess'[p[2]].peer = "good"
    BY <1>2, <1>4 DEF ServiceIsTrue, EntryIsTrue
  <2>2. Len(sess') \in Nat /\ Len(sess) <= Len(sess')
    BY <1>4, Sessions DEF SessionsFrom
  <2>3. QED
    BY <1>5, <2>1, <2>2, EntriesLast DEF CallersInv
<1>11. CASE server' = [server EXCEPT ![s] = z]
  <2>1. z.work \subseteq {p[1] : p \in z.table} \cup lost'
    BY <1>2, <1>7, <1>9 DEF ServiceIsTrue
  <2>2. ServiceIsTrue(z)'
    BY <1>7, <1>8, <1>10, <2>1 DEF ServiceIsTrue
  <2>3. QED
    BY <1>5, <1>7, <1>9, <1>11, <2>2, ServerStep
<1>12. CASE final /\ server' = [server EXCEPT ![s] = Forgotten(z, i)]
  <2>1. PICK x : x = Forgotten(z, i)
    OBVIOUS
  <2>2. /\ x \in Service /\ x.table = {p \in z.table : p[1] # i} /\ x.index = Mirror(x.table)
        /\ x.work = z.work
    BY <1>7, <1>8, <2>1, ForgottenIs
  <2>3. x.work \subseteq {p[1] : p \in x.table} \cup lost'
    BY <1>2, <1>7, <1>9, <1>12, <2>2 DEF ServiceIsTrue
  <2>4. ServiceIsTrue(x)'
    BY <1>7, <1>10, <2>2, <2>3 DEF ServiceIsTrue
  <2>5. QED
    BY <1>5, <1>9, <1>12, <2>1, <2>2, <2>4, ServerStep
<1>13. server' = [server EXCEPT ![s] = z] \/ (final /\ server' = [server EXCEPT ![s] = Forgotten(z, i)])
  BY <1>6 DEF WebSendReply
<1>14. QED
  BY <1>11, <1>12, <1>13

LEMMA ServerStepsStep ==
  ASSUME RpcInv, NEW s \in Server, ServerSteps(s)
  PROVE  RpcInv'
<1>1. CASE WebSetRpcServer(s)
  <2>1. UNCHANGED <<conn, cur, user, asker, heard, evicted, raced, belated, before, secure,
                    ended, chain, sess, server, lost>>
    BY <1>1 DEF WebSetRpcServer, Opens, callVars, clientVars, undefVars, webRpcVars
  <2>2. QED
    BY <2>1, SiteStep
<1>2. QED
  BY <1>1, ServerAloneStep, FailsStep, SendReplyStep DEF ServerSteps

LEMMA HandlersStep ==
  ASSUME RpcInv, NEW k \in 1..Len(sess), ServerHandlers(k) \/ RpcConnectionBreaks(k)
  PROVE  RpcInv'
BY AcceptStep, RunStep, BreaksStep, SslHandshakeStep, ServerReadStep DEF ServerHandlers

-----------------------------------------------------------------------------
(* The handlers of the client's side that touch no table.                  *)

LEMMA Chains ==
  ASSUME RpcInv, NEW o \in 1..Len(chain)
  PROVE  /\ o \in 1..Len(conn) /\ chain[o] \in Chain /\ ChainIsTrue(o)
         /\ before[o] \in Buffer /\ chain[o].s \in Nat
<1>1. o \in 1..Len(conn) /\ chain[o] \in Chain
  BY DEF RpcInv, LinkTypes
<1>2. before[o] \in Buffer
  BY <1>1 DEF RpcInv, ClientTypes
<1>3. QED
  BY <1>1, <1>2 DEF RpcInv, ChainsAreTrue, Chain

\* Handler z of object o is the next that is due.
LEMMA OneChainStep ==
  ASSUME RpcInv, NEW o \in 1..Len(chain), NEW z \in Chain, chain' = [chain EXCEPT ![o] = z],
         before' \in Seq(Buffer), Len(before') = Len(before),
         \A n \in 1..Len(chain) : /\ before'[n].wait = before[n].wait
                                  /\ before'[n].copy = before[n].copy
                                  /\ n # o => before'[n].ready = before[n].ready,
         sess' \in Seq(Session), Len(sess) <= Len(sess'),
         \A k \in 1..Len(sess) : /\ SessionFrom(sess[k], sess'[k])
                                 /\ sess[k].peer = "good" => sess'[k].peer = "good",
         \A k \in 1..Len(sess') :
           k \in 1..Len(sess) \/ (sess'[k].up = <<>> /\ sess'[k].down = <<>>),
         UNCHANGED <<conn, cur, user, asker, heard, evicted, raced, belated, secure, ended,
                     server, lost>>,
         chain[o].s # 0 => z.s = chain[o].s, z.s \in 0..Len(sess'),
         chain[o].at # "writing", z.at # "writing",
         z.at \in {"resolving", "connecting"} => z.s = 0,
         z.at \in {"securing", "shaking", "splicing", "sending", "reading"} => z.s # 0,
         before'[o].ready => z.s # 0,
         z.at = "sending" <=> before[o].copy # <<>>
  PROVE  RpcInv'
<1>1. chain \in Seq(Chain) /\ Len(chain) = Len(conn) /\ Len(chain) \in Nat /\ Len(sess) \in Nat
  BY DEF RpcInv, LinkTypes
<1>2. /\ chain' \in Seq(Chain) /\ Len(chain') = Len(chain) /\ chain'[o] = z
      /\ \A n \in 1..Len(chain) : n # o => chain'[n] = chain[n]
  BY <1>1, Changed
<1>3. LinksKeep
  <2>1. secure \in BOOLEAN /\ ended \in BOOLEAN
    BY DEF RpcInv, LinkTypes
  <2>2. \A n \in 1..Len(conn) : /\ chain[n].s # 0 => chain'[n].s = chain[n].s
                                /\ chain[n].at = "writing" <=> chain'[n].at = "writing"
    BY <1>1, <1>2
  <2>3. QED
    BY <1>1, <1>2, <2>1, <2>2 DEF LinksKeep, SessionFrom
<1>4. ChainsAreTrue'
  <2> SUFFICES ASSUME NEW n \in 1..Len(conn) PROVE ChainIsTrue(n)'
    BY DEF ChainsAreTrue
  <2>1. CASE n = o
    BY <1>2, <2>1 DEF ChainIsTrue
  <2>2. CASE n # o
    <3>1. chain'[n] = chain[n] /\ ChainIsTrue(n) /\ n \in 1..Len(chain)
      BY <1>1, <1>2, <2>2 DEF RpcInv, ChainsAreTrue
    <3>2. chain[n].s \in 0..Len(sess')
      <4>1. Len(sess') \in Nat /\ chain[n].s \in 0..Len(sess)
        BY <3>1 DEF ChainIsTrue
      <4>2. QED
        BY <1>1, <4>1
    <3>3. QED
      BY <2>2, <3>1, <3>2 DEF ChainIsTrue
  <2>3. QED
    BY <2>1, <2>2
<1>5. Grows /\ ClientTypes' /\ LinkTypes' /\ ClientsInv'
  BY <1>3, <1>4, LinksStep
<1>6. SessionsAreTrue'
  <2> SUFFICES ASSUME NEW k \in 1..Len(sess') PROVE SessionIsTrue(k)'
    BY DEF SessionsAreTrue
  <2>1. CASE k \in 1..Len(sess)
    BY <1>5, <2>1, SessionsLast
  <2>2. CASE sess'[k].up = <<>> /\ sess'[k].down = <<>>
    BY <2>2 DEF SessionIsTrue
  <2>3. QED
    BY <2>1, <2>2
<1>7. ServerTypes' /\ ServersAreTrue'
  <2>1. Len(sess') \in Nat /\ lost' \subseteq Id /\ lost \subseteq lost'
    BY DEF RpcInv, ServerTypes
  <2>2. QED
    BY <1>5, <2>1, ServersLast
<1>8. QED
  BY <1>4, <1>5, <1>6, <1>7 DEF RpcInv

\* The handler of object o is at another stage, or fails.
LEMMA StageStep ==
  ASSUME RpcInv, NEW o \in 1..Len(chain), NEW at \in ChainAt,
         chain' = [chain EXCEPT ![o].at = at],
         before' = before \/ before' = [before EXCEPT ![o].ready = FALSE]
           \/ (before' = [before EXCEPT ![o].ready = TRUE] /\ chain[o].s # 0),
         UNCHANGED <<conn, cur, user, asker, heard, evicted, raced, belated, secure, ended,
                     server, lost, sess>>,
         chain[o].at \notin {"sending", "writing"}, at \notin {"sending", "writing", "resolving"},
         at = "connecting" => chain[o].s = 0,
         at \in {"securing", "shaking", "splicing", "reading"} => chain[o].s # 0
  PROVE  RpcInv'
<1>1. /\ o \in 1..Len(conn) /\ chain[o] \in Chain /\ ChainIsTrue(o)
      /\ before[o] \in Buffer /\ chain[o].s \in Nat
  BY Chains
<1>2. PICK z : z = [chain[o] EXCEPT !.at = at]
  OBVIOUS
<1>3. z \in Chain /\ z.s = chain[o].s /\ z.at = at
  BY <1>1, <1>2 DEF Chain
<1>4. chain' = [chain EXCEPT ![o] = z]
  BY <1>2
<1>5. before[o].copy = <<>>
  BY <1>1 DEF ChainIsTrue
<1>6. before \in Seq(Buffer) /\ Len(before) = Len(conn) /\ Len(chain) = Len(conn)
  BY DEF RpcInv, ClientTypes, LinkTypes
<1> DEFINE SameBuffers ==
             /\ before' \in Seq(Buffer) /\ Len(before') = Len(before)
             /\ \A n \in 1..Len(chain) : /\ before'[n].wait = before[n].wait
                                         /\ before'[n].copy = before[n].copy
                                         /\ n # o => before'[n].ready = before[n].ready
             /\ before'[o].ready => before[o].ready \/ chain[o].s # 0
<1>7. SameBuffers
  <2>1. CASE before' = before
    BY <1>6, <2>1
  <2>2. ASSUME NEW b \in BOOLEAN, before' = [before EXCEPT ![o].ready = b], b => chain[o].s # 0
        PROVE  SameBuffers
    <3>1. PICK x : x = [before[o] EXCEPT !.ready = b]
      OBVIOUS
    <3>2. x \in Buffer /\ x.wait = before[o].wait /\ x.copy = before[o].copy /\ x.ready = b
      BY <1>1, <2>2, <3>1 DEF Buffer
    <3>3. before' = [before EXCEPT ![o] = x] /\ o \in 1..Len(before)
      BY <1>1, <1>6, <2>2, <3>1
    <3>4. /\ before' \in Seq(Buffer) /\ Len(before') = Len(before) /\ before'[o] = x
          /\ \A n \in 1..Len(before) : n # o => before'[n] = before[n]
      BY <1>6, <3>2, <3>3, Changed
    <3>5. QED
      BY <1>6, <2>2, <3>2, <3>4
  <2>3. QED
    BY <2>1, <2>2
<1>8. before'[o].ready => chain[o].s # 0
  BY <1>1, <1>7 DEF ChainIsTrue
<1>9. /\ sess' \in Seq(Session) /\ Len(sess) <= Len(sess') /\ chain[o].s \in 0..Len(sess')
      /\ \A k \in 1..Len(sess) : SessionFrom(sess[k], sess'[k])
      /\ \A k \in 1..Len(sess') : k \in 1..Len(sess)
  <2>1. chain[o].s \in 0..Len(sess)
    BY <1>1 DEF ChainIsTrue
  <2>2. Len(sess) \in Nat /\ sess \in Seq(Session)
    BY DEF RpcInv, LinkTypes
  <2>3. QED
    BY <2>1, <2>2, Sessions
<1>10. \A k \in 1..Len(sess) : /\ SessionFrom(sess[k], sess'[k])
                              /\ sess[k].peer = "good" => sess'[k].peer = "good"
  BY <1>9
<1>11. \A k \in 1..Len(sess') :
         k \in 1..Len(sess) \/ (sess'[k].up = <<>> /\ sess'[k].down = <<>>)
  BY <1>9
<1>12. /\ chain[o].s # 0 => z.s = chain[o].s
       /\ z.s \in 0..Len(sess') /\ chain[o].at # "writing" /\ z.at # "writing"
       /\ z.at \in {"resolving", "connecting"} => z.s = 0
       /\ z.at \in {"securing", "shaking", "splicing", "sending", "reading"} => z.s # 0
       /\ z.at = "sending" <=> before[o].copy # <<>>
  BY <1>3, <1>5, <1>9
<1>13. before'[o].ready => z.s # 0
  BY <1>3, <1>8
<1>14. QED
  BY <1>3, <1>4, <1>7, <1>9, <1>10, <1>11, <1>12, <1>13, OneChainStep

LEMMA ResolveStep ==
  ASSUME RpcInv, NEW o \in 1..Len(chain), RpcClientOnResolve(o)
  PROVE  RpcInv'
<1>1. UNCHANGED <<conn, cur, user, asker, heard, evicted, raced, belated, secure, ended,
                  server, lost, sess>> /\ before' = before
  BY DEF RpcClientOnResolve, Resolves, callVars, clientVars, undefVars, webRpcVars
<1>2. chain[o].at = "resolving" /\ chain[o].s = 0
  BY Chains DEF RpcClientOnResolve, Resolves, Due, ChainIsTrue
<1>3. PICK at \in {"connecting", "failed"} : chain' = [chain EXCEPT ![o].at = at]
  BY DEF RpcClientOnResolve, Resolves, Turns
<1>4. /\ at \in ChainAt /\ at \notin {"sending", "writing", "resolving"}
      /\ at \notin {"securing", "shaking", "splicing", "reading"}
      /\ chain[o].at \notin {"sending", "writing"}
  BY <1>2 DEF ChainAt
<1>5. QED
  BY <1>1, <1>2, <1>3, <1>4, StageStep

\* The handler of object o fails.
LEMMA FailStep ==
  ASSUME RpcInv, NEW o \in 1..Len(chain), Turns(o, "failed"),
         before' = before \/ before' = [before EXCEPT ![o].ready = FALSE],
         chain[o].at \notin {"sending", "writing"},
         UNCHANGED <<conn, cur, user, asker, heard, evicted, raced, belated, secure, ended,
                     server, lost, sess>>
  PROVE  RpcInv'
<1>1. PICK at : at = "failed"
  OBVIOUS
<1>2. /\ at \in ChainAt /\ at \notin {"sending", "writing", "resolving"} /\ at # "connecting"
      /\ at \notin {"securing", "shaking", "splicing", "reading"}
  BY <1>1 DEF ChainAt
<1>3. chain' = [chain EXCEPT ![o].at = at]
  BY <1>1 DEF Turns
<1>4. QED
  BY <1>2, <1>3, StageStep

\* A TCP connection is made.
LEMMA ConnectStep ==
  ASSUME RpcInv, NEW o \in 1..Len(chain), RpcClientOnConnect(o)
  PROVE  RpcInv'
<1>1. UNCHANGED <<conn, cur, user, asker, heard, evicted, raced, belated, secure, ended,
                  server, lost>> /\ before' = before
  BY DEF RpcClientOnConnect, Connects, callVars, clientVars, undefVars, webRpcVars
<1>2. chain[o].at = "connecting" /\ chain[o].s = 0 /\ ChainIsTrue(o)
  BY Chains DEF RpcClientOnConnect, Connects, Due, ChainIsTrue
<1>3. CASE Turns(o, "failed") /\ sess' = sess
  BY <1>1, <1>2, <1>3, FailStep
<1>4. CASE /\ sess' = Append(sess, NewSess)
           /\ chain' = [chain EXCEPT ![o] = [at |-> IF secure THEN "securing" ELSE "shaking",
                                             s  |-> Len(sess) + 1]]
  <2>1. sess \in Seq(Session) /\ Len(sess) \in Nat /\ secure \in BOOLEAN
    BY DEF RpcInv, LinkTypes
  <2>2. PICK x : x = NewSess
    OBVIOUS
  <2>3. x \in Session /\ x.up = <<>> /\ x.down = <<>>
    <3>1. <<>> \in Seq(Id) /\ <<>> \in Seq(Reply)
      OBVIOUS
    <3>2. QED
      BY <2>1, <2>2, <3>1 DEF Session, NewSess, PeerAt
  <2>4. /\ sess' \in Seq(Session) /\ Len(sess') = Len(sess) + 1
        /\ \A k \in 1..Len(sess) : sess'[k] = sess[k]
        /\ sess'[Len(sess) + 1] = x
    BY <1>4, <2>1, <2>2, <2>3, Added
  <2>5. PICK z : z = [at |-> IF secure THEN "securing" ELSE "shaking", s |-> Len(sess) + 1]
    OBVIOUS
  <2>6. z \in Chain /\ z.s = Len(sess) + 1 /\ z.at \in {"securing", "shaking"} /\ z.s # 0
    BY <2>1, <2>5 DEF Chain, ChainAt
  <2>7. chain' = [chain EXCEPT ![o] = z]
    BY <1>4, <2>5
  <2>8. before' \in Seq(Buffer) /\ Len(before') = Len(before) /\ before[o].copy = <<>>
    BY <1>1, <1>2 DEF RpcInv, ClientTypes, ChainIsTrue
  <2>9. \A k \in 1..Len(sess) : /\ SessionFrom(sess[k], sess'[k])
                                /\ sess[k].peer = "good" => sess'[k].peer = "good"
    BY <2>4, Sessions
  <2>10. \A k \in 1..Len(sess') :
           k \in 1..Len(sess) \/ (sess'[k].up = <<>> /\ sess'[k].down = <<>>)
    <3>1. \A k \in 1..Len(sess') : k \in 1..Len(sess) \/ k = Len(sess) + 1
      BY <2>1, <2>4
    <3>2. QED
      BY <2>3, <2>4, <3>1
  <2>11. Len(sess) <= Len(sess') /\ z.s \in 0..Len(sess')
    BY <2>1, <2>4, <2>6
  <2>12. /\ z.at # "writing" /\ (z.at \in {"resolving", "connecting"} => z.s = 0)
         /\ z.at = "sending" <=> before[o].copy # <<>>
         /\ chain[o].at # "writing" /\ (chain[o].s # 0 => z.s = chain[o].s)
    BY <1>2, <2>6, <2>8
  <2>13. \A n \in 1..Len(chain) : /\ before'[n].wait = before[n].wait
                                  /\ before'[n].copy = before[n].copy
                                  /\ n # o => before'[n].ready = before[n].ready
    BY <1>1
  <2>14. QED
    BY <1>1, <2>4, <2>6, <2>7, <2>8, <2>9, <2>10, <2>11, <2>12, <2>13, OneChainStep
<1>5. QED
  BY <1>3, <1>4 DEF RpcClientOnConnect, Connects

\* The TLS handshake ends, and the request to upgrade is sent.
LEMMA SecureStep ==
  ASSUME RpcInv, NEW o \in 1..Len(chain), RpcClientOnSSLHandshake(o)
  PROVE  RpcInv'
<1>1. UNCHANGED <<conn, cur, user, asker, heard, evicted, raced, belated, secure, ended,
                  server, lost>> /\ before' = before
  BY DEF RpcClientOnSSLHandshake, Secures, callVars, clientVars, undefVars, webRpcVars
<1>2. chain[o].at = "securing" /\ chain[o].s # 0 /\ ChainIsTrue(o) /\ chain[o] \in Chain
  BY Chains DEF RpcClientOnSSLHandshake, Secures, Due, ChainIsTrue
<1>3. CASE Turns(o, "failed") /\ sess' = sess
  BY <1>1, <1>2, <1>3, FailStep
<1>4. CASE sess' = [sess EXCEPT ![chain[o].s].hello = TRUE] /\ Turns(o, "shaking")
  <2>1. sess \in Seq(Session) /\ Len(sess) \in Nat
    BY DEF RpcInv, LinkTypes
  <2>2. PICK k : k = chain[o].s
    OBVIOUS
  <2>3. k \in 1..Len(sess)
    BY <1>2, <2>1, <2>2 DEF ChainIsTrue
  <2>4. PICK x : x = [sess[k] EXCEPT !.hello = TRUE]
    OBVIOUS
  <2>5. sess[k] \in Session /\ SessionFrom(sess[k], sess[k])
    BY <2>3, Sessions
  <2>6. x \in Session /\ SessionFrom(sess[k], x) /\ x.peer = sess[k].peer
    <3>1. x \in Session
      BY <2>4, <2>5 DEF Session
    <3>2. x.cut = sess[k].cut /\ x.up = sess[k].up /\ x.down = sess[k].down
          /\ x.peer = sess[k].peer
      BY <2>4, <2>5 DEF Session
    <3>3. QED
      BY <2>5, <3>1, <3>2 DEF SessionFrom
  <2>7. sess' = [sess EXCEPT ![k] = x]
    BY <1>4, <2>2, <2>4
  <2>8. /\ SessionsFrom /\ sess'[k] = x
        /\ \A j \in 1..Len(sess) : j # k => sess'[j] = sess[j]
    BY <2>3, <2>6, <2>7, OneSession
  <2>9. PICK z : z = [chain[o] EXCEPT !.at = "shaking"]
    OBVIOUS
  <2>10. z \in Chain /\ z.s = k /\ z.at = "shaking" /\ k # 0
    BY <1>2, <2>2, <2>9 DEF Chain, ChainAt
  <2>11. chain' = [chain EXCEPT ![o] = z]
    BY <1>4, <2>9 DEF Turns
  <2>12. /\ sess' \in Seq(Session) /\ Len(sess) <= Len(sess') /\ z.s \in 0..Len(sess')
         /\ \A j \in 1..Len(sess') : j \in 1..Len(sess)
    BY <2>1, <2>3, <2>8, <2>10 DEF SessionsFrom
  <2>13. \A j \in 1..Len(sess) : /\ SessionFrom(sess[j], sess'[j])
                                 /\ sess[j].peer = "good" => sess'[j].peer = "good"
    BY <2>6, <2>8 DEF SessionsFrom
  <2>14. \A j \in 1..Len(sess') :
           j \in 1..Len(sess) \/ (sess'[j].up = <<>> /\ sess'[j].down = <<>>)
    BY <2>12
  <2>15. before' \in Seq(Buffer) /\ Len(before') = Len(before) /\ before[o].copy = <<>>
    BY <1>1, <1>2 DEF RpcInv, ClientTypes, ChainIsTrue
  <2>16. /\ z.at # "writing" /\ (z.at \in {"resolving", "connecting"} => z.s = 0)
         /\ z.at = "sending" <=> before[o].copy # <<>>
         /\ chain[o].at # "writing" /\ (chain[o].s # 0 => z.s = chain[o].s)
    BY <1>2, <2>2, <2>10, <2>15
  <2>17. \A n \in 1..Len(chain) : /\ before'[n].wait = before[n].wait
                                  /\ before'[n].copy = before[n].copy
                                  /\ n # o => before'[n].ready = before[n].ready
    BY <1>1
  <2>18. z.s # 0
    BY <2>10
  <2>19. QED
    BY <1>1, <2>10, <2>11, <2>12, <2>13, <2>14, <2>15, <2>16, <2>17, <2>18, OneChainStep
<1>5. QED
  BY <1>3, <1>4 DEF RpcClientOnSSLHandshake, Secures

\* The client's process ends with its connections.
LEMMA ClientFailsStep ==
  ASSUME RpcInv, NEW o \in 1..Len(chain), RpcClientFails(o)
  PROVE  RpcInv'
<1>1. UNCHANGED <<conn, user, asker, heard, evicted, raced, belated, before, secure>>
      /\ chain' = chain /\ cur' = 0 /\ ended' = TRUE /\ UNCHANGED <<server, lost>>
  BY DEF RpcClientFails, ClientEnds, undefVars, webRpcVars
<1>2. Len(sess) \in Nat /\ lost \subseteq Id
  BY DEF RpcInv, LinkTypes, ServerTypes
<1>3. sess' = AllBroken
  BY DEF RpcClientFails, ClientEnds
<1>4. Len(sess') = Len(sess)
  BY <1>2, <1>3 DEF AllBroken
<1>5. \A k \in 1..Len(sess) :
        /\ sess'[k] \in Session /\ SessionFrom(sess[k], sess'[k])
        /\ sess'[k].peer = sess[k].peer
  <2> SUFFICES ASSUME NEW k \in 1..Len(sess)
               PROVE  /\ sess'[k] \in Session /\ SessionFrom(sess[k], sess'[k])
                      /\ sess'[k].peer = sess[k].peer
    OBVIOUS
  <2>1. sess'[k] = Broken(sess[k])
    BY <1>3 DEF AllBroken
  <2>2. QED
    BY <2>1, BrokenIs, Sessions
<1>6. SessionsFrom
  <2>1. sess' \in Seq(Session)
    <3>1. AllBroken \in [1..Len(sess) -> Session]
      BY <1>3, <1>5 DEF AllBroken
    <3>2. QED
      BY <1>2, <1>3, <3>1
  <2>2. QED
    BY <1>4, <1>5, <2>1 DEF SessionsFrom
<1>7. Grows /\ CallersInv'
  BY <1>1, <1>6, SessionsStep
<1>8. ServerTypes' /\ ServersAreTrue'
  BY <1>1, <1>2, <1>4, <1>5, <1>7, ServersLast DEF CallersInv
<1>9. QED
  BY <1>7, <1>8 DEF CallersInv, RpcInv

-----------------------------------------------------------------------------
(* The callers.                                                            *)

\* What a caller does leaves the servers and the sessions alone.
LEMMA LinksLast ==
  ASSUME RpcInv, ClientTypes', Grows, UNCHANGED <<sess, server>>,
         lost \subseteq lost', lost' \subseteq Id
  PROVE  SessionsAreTrue' /\ ServerTypes' /\ ServersAreTrue'
<1>1. Len(sess') \in Nat /\ Len(sess) <= Len(sess')
  BY Sessions
<1>2. ServerTypes' /\ ServersAreTrue'
  BY <1>1, ServersLast
<1>3. SessionsAreTrue'
  <2>1. \A k \in 1..Len(sess) : SessionFrom(sess[k], sess'[k])
    BY Sessions
  <2>2. QED
    BY <2>1, SessionsLast DEF SessionsAreTrue
<1>4. QED
  BY <1>2, <1>3

LEMMA ChainsLast ==
  ASSUME RpcInv, UNCHANGED <<chain, sess>>, Len(conn') = Len(conn),
         \A o \in 1..Len(conn) : /\ before'[o].copy = before[o].copy
                                 /\ before'[o].ready => before[o].ready
  PROVE  ChainsAreTrue'
BY DEF RpcInv, ChainsAreTrue, ChainIsTrue

\* No client comes, and requests may.
LEMMA CallsGrowOn ==
  ASSUME RpcInv, sess' = sess, Len(conn') = Len(conn),
         \A o \in 1..Len(conn) : chain'[o].s = chain[o].s,
         \A o \in 1..Len(conn) : /\ conn'[o].counter = conn[o].counter
                                 /\ conn'[o].clients \subseteq conn[o].clients,
         Len(asker) <= Len(asker'), \A i \in 1..Len(asker) : asker'[i] = asker[i]
  PROVE  Grows
<1>1. Len(conn) <= Len(conn') /\ \A o \in 1..Len(conn) : conn[o].counter <= conn'[o].counter
  <2>1. Len(conn) \in Nat /\ \A o \in 1..Len(conn) : conn[o].counter \in Nat
    BY Counters DEF RpcInv
  <2>2. QED
    BY <2>1
<1>2. \A o \in 1..Len(conn) : Cut(o) => Cut(o)'
  BY DEF Cut
<1>3. QED
  BY <1>1, <1>2 DEF Grows

LEMMA CallsGrow ==
  ASSUME RpcInv, UNCHANGED <<chain, sess>>, Len(conn') = Len(conn),
         \A o \in 1..Len(conn) : /\ conn'[o].counter = conn[o].counter
                                 /\ conn'[o].clients \subseteq conn[o].clients,
         Len(asker) <= Len(asker'), \A i \in 1..Len(asker) : asker'[i] = asker[i]
  PROVE  Grows
<1>1. \A o \in 1..Len(conn) : chain'[o].s = chain[o].s
  OBVIOUS
<1>2. QED
  BY <1>1, CallsGrowOn

\* Caller c goes on with its requester.
Moves(c) ==
  /\ user' \in [Caller -> Using] /\ \A d \in Caller : d # c => user'[d] = user[d]
  /\ user'[c].o = user[c].o /\ user'[c].num = user[c].num /\ user'[c].left = user[c].left
  /\ Numbered(c) /\ Numbered(c)'

LEMMA Moving ==
  ASSUME RpcInv, NEW c \in Caller, NEW at, NEW id \in Nat, Numbered(c),
         at \in {"ready", "buffering", "sending", "writing", "failing"},
         user' = [user EXCEPT ![c].at = at, ![c].id = id]
  PROVE  Moves(c) /\ user'[c].at = at /\ user'[c].id = id
<1>1. user \in [Caller -> Using]
  BY DEF RpcInv, ClientTypes
<1>2. PICK u : u = [user[c] EXCEPT !.at = at, !.id = id]
  OBVIOUS
<1>3. /\ u \in Using /\ u.at = at /\ u.id = id /\ u.o = user[c].o /\ u.num = user[c].num
      /\ u.left = user[c].left
  BY <1>1, <1>2 DEF Using, WebUserAt
<1>4. user' = [user EXCEPT ![c] = u]
  BY <1>1, <1>2
<1>5. user' \in [Caller -> Using] /\ user'[c] = u /\ \A d \in Caller : d # c => user'[d] = user[d]
  BY <1>1, <1>3, <1>4
<1>6. QED
  BY <1>3, <1>5 DEF Moves, Numbered

\* The same with the request that it had.
LEMMA MovingOn ==
  ASSUME RpcInv, NEW c \in Caller, NEW at, Numbered(c),
         at \in {"ready", "buffering", "sending", "writing", "failing"},
         user' = [user EXCEPT ![c].at = at]
  PROVE  Moves(c) /\ user'[c].at = at /\ user'[c].id = user[c].id
<1>1. user \in [Caller -> Using]
  BY DEF RpcInv, ClientTypes
<1>2. PICK u : u = [user[c] EXCEPT !.at = at]
  OBVIOUS
<1>3. /\ u \in Using /\ u.at = at /\ u.id = user[c].id /\ u.o = user[c].o /\ u.num = user[c].num
      /\ u.left = user[c].left
  BY <1>1, <1>2 DEF Using, WebUserAt
<1>4. user' = [user EXCEPT ![c] = u]
  BY <1>1, <1>2
<1>5. user' \in [Caller -> Using] /\ user'[c] = u /\ \A d \in Caller : d # c => user'[d] = user[d]
  BY <1>1, <1>3, <1>4
<1>6. QED
  BY <1>3, <1>5 DEF Moves, Numbered

LEMMA MovesUsers ==
  ASSUME RpcInv, ClientTypes', Grows, NEW c \in Caller, Moves(c),
         Asks(c)' => user'[c].id \in 1..Len(asker') /\ asker'[user'[c].id] = AsCaller(c),
         user'[c].at \in {"writing", "failing"} => chain'[user[c].o].s # 0,
         user'[c].at = "failing" => Cut(user[c].o)'
  PROVE  UsersAreTrue'
<1>1. UserIsTrue(c) /\ ClientTypes
  BY DEF RpcInv, ClientsInv, UsersAreTrue
<1> DEFINE o == user[c].o
<1>2. /\ o \in 1..Len(conn) /\ user[c].num \in 1..conn[o].counter
      /\ \A q \in conn[o].clients : q[1] = user[c].num => q[2] = c
  BY <1>1 DEF UserIsTrue, Moves, Numbered
<1>3. o \in 1..Len(conn') /\ user[c].num \in 1..conn'[o].counter /\ conn[o].counter \in Nat
  BY <1>1, <1>2, Lasting, Counters
<1>4. ASSUME NEW q \in conn'[o].clients, q[1] = user[c].num PROVE q[2] = c
  <2>1. ~(conn[o].counter < q[1])
    BY <1>2, <1>3, <1>4
  <2>2. q \in conn[o].clients
    BY <1>2, <2>1 DEF Grows
  <2>3. QED
    BY <1>2, <1>4, <2>2
<1>5. AsCaller(c)' = AsCaller(c)
  BY DEF AsCaller, Moves
<1>6. Asks(c)' => user'[c].id \in 1..Len(asker') /\ asker'[user'[c].id] = AsCaller(c)'
  BY <1>5
<1>7. user'[c].at = "failing" => Cut(user[c].o)'
  OBVIOUS
<1>8. user'[c].o = o /\ user'[c].num = user[c].num
  BY DEF Moves
<1>9. Cut(user[c].o)' <=> Cut(o)'
  BY DEF Cut
<1>10. UserIsTrue(c)'
  BY <1>3, <1>4, <1>6, <1>7, <1>8, <1>9 DEF UserIsTrue
<1>11. QED
  BY <1>10, UsersLast DEF UsersAreTrue, Moves

\* Nobody comes or goes.
LEMMA PlacesStay ==
  ASSUME RpcInv, Grows, NEW c \in Caller, Moves(c), Len(conn') = Len(conn),
         \A o \in 1..Len(conn) : conn'[o].clients = conn[o].clients,
         cur' = cur, raced => raced', ended' = ended
  PROVE  PlacesAreTrue'
<1> SUFFICES ASSUME ~raced', ~ended'
             PROVE  /\ cur # 0 => \A q \in conn'[cur].clients : IsItself(q, cur)'
                    /\ \A o \in 1..Len(conn) : o # cur => Cut(o)' \/ Deserted(o)'
  BY DEF PlacesAreTrue, IsItself, Numbered
<1>1. /\ cur # 0 => \A q \in conn[cur].clients : IsItself(q, cur)
      /\ \A o \in 1..Len(conn) : o # cur => Cut(o) \/ Deserted(o)
  BY DEF RpcInv, ClientsInv, PlacesAreTrue
<1>2. ASSUME NEW q, NEW o, q[2] \in Caller, IsItself(q, o) PROVE IsItself(q, o)'
  BY <1>2 DEF IsItself, Numbered, Moves
<1>3. ASSUME NEW o \in 1..Len(conn), Deserted(o) PROVE Deserted(o)'
  <2>1. user[c].at # "adding" /\ user'[c].at # "adding"
    BY DEF Moves, Numbered
  <2>2. QED
    BY <1>3, <2>1 DEF Deserted, Moves
<1>4. cur # 0 => cur \in 1..Len(conn) /\ conn'[cur].clients = conn[cur].clients
                 /\ \A q \in conn[cur].clients : q[2] \in Caller
  <2>1. cur \in 0..Len(conn) /\ Len(conn) \in Nat
    BY DEF RpcInv, ClientTypes
  <2>2. cur # 0 => cur \in 1..Len(conn)
    BY <2>1
  <2>3. \A o \in 1..Len(conn) : conn[o].clients \subseteq Nat \X Caller
    BY Counters DEF RpcInv, Connection
  <2>4. QED
    BY <2>2, <2>3
<1>5. QED
  BY <1>1, <1>2, <1>3, <1>4 DEF Grows

\* The connections are as they were, and nothing is heard.
LEMMA StillTables ==
  ASSUME RpcInv, ClientTypes', Grows, conn' = conn, heard' = heard, raced => raced',
         belated => belated'
  PROVE  /\ ClientsAreTrue' /\ TablesAreTrue' /\ AllHeardIsTrue' /\ NothingEnters
<1>1. NothingEnters
  BY DEF NothingEnters
<1>2. ClientsAreTrue'
  BY DEF RpcInv, ClientsInv, ClientsAreTrue, ClientsOf
<1>3. TablesAreTrue'
  <2>1. ASSUME NEW o \in 1..Len(conn), NEW p \in conn[o].table
        PROVE  MadeOn(p[1], o)' /\ asker'[p[1]].num = p[2]
    <3>1. MadeOn(p[1], o) /\ asker[p[1]].num = p[2]
      BY <2>1 DEF RpcInv, ClientsInv, TablesAreTrue, TableIsTrue
    <3>2. PICK i : i = p[1]
      OBVIOUS
    <3>3. MadeOn(i, o)' /\ asker'[i] = asker[i]
      BY <3>1, <3>2, Lasting DEF RpcInv
    <3>4. QED
      BY <3>1, <3>2, <3>3
  <2>2. QED
    BY <2>1 DEF RpcInv, ClientsInv, TablesAreTrue, TableIsTrue
<1>4. AllHeardIsTrue'
  BY HeardLasts
<1>5. QED
  BY <1>1, <1>2, <1>3, <1>4

\* The request of another caller is another one.
LEMMA OwnRequest ==
  ASSUME RpcInv, NEW c \in Caller, Asks(c)
  PROVE  /\ user[c].id \in 1..Len(asker) /\ user[c].id \in Id /\ user[c].o \in 1..Len(conn)
         /\ asker[user[c].id] = AsCaller(c) /\ MadeOn(user[c].id, user[c].o)
         /\ IsOf(<<user[c].num, user[c].id>>, user[c].o)
         /\ \A d \in Caller : Asks(d) /\ user[d].id = user[c].id => d = c
<1>1. UserIsTrue(c) /\ Len(asker) \in Nat /\ Len(asker) <= MaxId /\ MaxId \in Nat
  BY RpcAssumption DEF RpcInv, ClientsInv, UsersAreTrue, ClientTypes
<1>2. user[c].id \in 1..Len(asker) /\ asker[user[c].id] = AsCaller(c) /\ user[c].o \in 1..Len(conn)
  BY <1>1 DEF UserIsTrue, Asks
<1>3. user[c].id \in Id
  BY <1>1, <1>2 DEF Id
<1>4. \A d \in Caller : Asks(d) => asker[user[d].id].by = d
  <2> SUFFICES ASSUME NEW d \in Caller, Asks(d) PROVE asker[user[d].id].by = d
    OBVIOUS
  <2>1. asker[user[d].id] = AsCaller(d)
    BY DEF RpcInv, ClientsInv, UsersAreTrue, UserIsTrue
  <2>2. QED
    BY <2>1 DEF AsCaller
<1>5. \A d \in Caller : Asks(d) /\ user[d].id = user[c].id => d = c
  <2>1. asker[user[c].id].by = c
    BY <1>4
  <2>2. QED
    BY <1>4, <2>1
<1>6. MadeOn(user[c].id, user[c].o) /\ IsOf(<<user[c].num, user[c].id>>, user[c].o)
  BY <1>2 DEF MadeOn, AsCaller, IsOf
<1>7. QED
  BY <1>2, <1>3, <1>5, <1>6

\* A request is made.
LEMMA SendRequestStep ==
  ASSUME RpcInv, NEW c \in Caller, WebSendRequest(c)
  PROVE  RpcInv'
<1> DEFINE i == Len(asker) + 1
           o == user[c].o
<1>1. UNCHANGED <<conn, cur, heard, evicted, raced, belated, before, secure, ended, chain, sess,
                  server, lost>>
  BY DEF WebSendRequest, undefVars, linkVars, webRpcVars
<1>2. /\ user[c].at = "ready" /\ Len(asker) < MaxId /\ Numbered(c)
      /\ Len(asker) \in Nat /\ MaxId \in Nat /\ user \in [Caller -> Using]
  BY RpcAssumption DEF WebSendRequest, Numbered, RpcInv, ClientTypes
<1>3. i \in Nat /\ i \in Id /\ i \notin 1..Len(asker) /\ i <= MaxId
  BY <1>2 DEF Id
<1>4. PICK at \in {"sending", "buffering"} : user' = [user EXCEPT ![c].at = at, ![c].id = i]
  BY DEF WebSendRequest
<1>5. Moves(c) /\ user'[c].at = at /\ user'[c].id = i
  <2> HIDE DEF i
  <2>1. QED
    BY <1>2, <1>3, <1>4, Moving
<1>6. AsCaller(c) \in Asking
  BY <1>2 DEF AsCaller, Asking, Using
<1>7. /\ asker' \in Seq(Asking) /\ Len(asker') = i /\ asker'[i] = AsCaller(c)
      /\ \A j \in 1..Len(asker) : asker'[j] = asker[j]
  <2>1. asker \in Seq(Asking) /\ asker' = Append(asker, AsCaller(c))
    BY DEF RpcInv, ClientTypes, WebSendRequest
  <2>2. QED
    BY <1>6, <2>1, Added
<1>8. ClientTypes'
  BY <1>1, <1>3, <1>5, <1>7 DEF RpcInv, ClientTypes, Moves
<1>9. Grows
  <2>1. Len(asker) <= Len(asker')
    BY <1>2, <1>7
  <2>2. QED
    BY <1>1, <1>7, <2>1, CallsGrow
<1>10. LinkTypes' /\ ChainsAreTrue'
  BY <1>1, ChainsLast DEF RpcInv, LinkTypes
<1>11. SessionsAreTrue' /\ ServerTypes' /\ ServersAreTrue'
  BY <1>1, <1>8, <1>9, LinksLast DEF RpcInv, ServerTypes
<1>12. ClientsAreTrue' /\ TablesAreTrue' /\ AllHeardIsTrue' /\ NothingEnters
  BY <1>1, <1>8, <1>9, StillTables
<1>13. PlacesAreTrue'
  BY <1>1, <1>5, <1>9, PlacesStay
<1>14. UsersAreTrue'
  <2>1. i \in 1..Len(asker')
    BY <1>2, <1>7
  <2>2. user'[c].at \notin {"writing", "failing"}
    BY <1>5
  <2> HIDE DEF i
  <2>3. QED
    BY <1>5, <1>7, <1>8, <1>9, <2>1, <2>2, MovesUsers
<1>15. AskersAreTrue'
  <2>1. ASSUME NEW j \in 1..Len(asker') PROVE AskerIsTrue(j)'
    <3>1. j \in 1..Len(asker) \/ j = i
      BY <1>2, <1>7
    <3>2. CASE j \in 1..Len(asker)
      BY <1>8, <1>9, <3>2, AskersLast
    <3>3. CASE j = i
      <4>1. asker'[j].by = c /\ asker'[j].o = o /\ asker'[j].num = user[c].num
        BY <1>7, <3>3 DEF AsCaller
      <4>2. /\ o \in 1..Len(conn) /\ user[c].num \in 1..conn[o].counter
            /\ \A q \in conn[o].clients : q[1] = user[c].num => q[2] = c
        BY <1>2 DEF RpcInv, ClientsInv, UsersAreTrue, UserIsTrue
      <4>3. QED
        BY <1>1, <4>1, <4>2 DEF AskerIsTrue
    <3>4. QED
      BY <3>1, <3>2, <3>3
  <2>2. QED
    BY <2>1 DEF AskersAreTrue
<1>16. \A j : NotEntered(j) => NotEntered(j)'
  BY <1>12, StillNotEntered
<1>17. BuffersAreTrue'
  <2>1. ASSUME NEW n \in 1..Len(conn) PROVE BufferIsTrue(n)'
    BY <1>1, <1>8, <1>9, <1>16, BufferLasts
  <2>2. QED
    BY <1>1, <2>1 DEF BuffersAreTrue
<1>18. CallersEnter'
  <2>1. ASSUME NEW d \in Caller, d # c PROVE CallerEnters(d)'
    <3>1. user'[d] = user[d]
      BY <1>5, <2>1 DEF Moves
    <3>2. WillEnter(d)' => WillEnter(d)
      BY <3>1 DEF WillEnter
    <3>3. QED
      BY <1>1, <1>16, <3>1, <3>2, CallerLasts
  <2>2. CallerEnters(c)'
    <3>1. heard[i] = <<>>
      BY <1>3 DEF RpcInv, ClientsInv, AllHeardIsTrue, HeardIsTrue
    <3>2. \A n \in 1..Len(conn) : \A p \in conn[n].table : p[1] # i
      BY <1>3 DEF RpcInv, ClientsInv, TablesAreTrue, TableIsTrue, MadeOn
    <3>3. /\ o \in 1..Len(conn)
          /\ \A k \in DOMAIN before[o].wait : before[o].wait[k][2] # i
          /\ \A k \in DOMAIN before[o].copy : before[o].copy[k][2] # i
      <4>1. o \in 1..Len(conn)
        BY <1>2 DEF RpcInv, ClientsInv, UsersAreTrue, UserIsTrue
      <4>2. /\ \A k \in DOMAIN before[o].wait : IsOf(before[o].wait[k], o)
            /\ \A k \in DOMAIN before[o].copy : IsOf(before[o].copy[k], o)
        BY <4>1 DEF RpcInv, ClientsInv, BuffersAreTrue, BufferIsTrue
      <4>3. QED
        BY <1>3, <4>1, <4>2 DEF IsOf, MadeOn
    <3>4. user'[c].o = o
      BY <1>5 DEF Moves
    <3> HIDE DEF i
    <3>5. NotEntered(user[c].id)'
      BY <1>1, <1>5, <3>1, <3>2 DEF NotEntered, LastHeard
    <3>6. QED
      BY <1>1, <1>5, <3>3, <3>4, <3>5 DEF CallerEnters
  <2>3. QED
    BY <2>1, <2>2 DEF CallersEnter
<1>19. QED
  BY <1>8, <1>10, <1>11, <1>12, <1>13, <1>14, <1>15, <1>17, <1>18 DEF RpcInv, ClientsInv

\* A caller moves on, and makes no request.
LEMMA MovingStep ==
  ASSUME RpcInv, NEW c \in Caller, Moves(c), ClientTypes',
         UNCHANGED <<conn, asker, heard, evicted, belated, chain, secure, ended, server>>,
         raced => raced', lost \subseteq lost', lost' \subseteq Id,
         Grows, SessionsAreTrue', LinkTypes', ServersAreTrue', ChainsAreTrue', PlacesAreTrue',
         UsersAreTrue', BuffersAreTrue', CallersEnter'
  PROVE  RpcInv'
<1>1. ClientsAreTrue' /\ TablesAreTrue' /\ AllHeardIsTrue'
  BY StillTables
<1>2. AskersAreTrue'
  BY AskersLast DEF AskersAreTrue
<1>3. ServerTypes'
  BY DEF RpcInv, ServerTypes
<1>4. QED
  BY <1>1, <1>2, <1>3 DEF RpcInv, ClientsInv

\* A request waits in the buffer.
LEMMA BufferStep ==
  ASSUME RpcInv, NEW c \in Caller, WebBuffer(c)
  PROVE  RpcInv'
<1>0. PICK o, i, w : o = user[c].o /\ i = user[c].id /\ w = <<user[c].num, i>>
  OBVIOUS
<1>1. UNCHANGED <<conn, cur, asker, heard, evicted, raced, belated, secure, ended, chain, sess,
                  server, lost>>
  BY DEF WebBuffer, undefVars, linkVars
<1>2. user[c].at = "buffering" /\ Numbered(c) /\ Asks(c) /\ WillEnter(c)
  BY DEF WebBuffer, Numbered, Asks, WillEnter
<1>3. Moves(c) /\ user'[c].at = "ready" /\ user'[c].id = i
  BY <1>0, <1>2, MovingOn DEF WebBuffer
<1>4. /\ i \in 1..Len(asker) /\ i \in Id /\ o \in 1..Len(conn) /\ IsOf(w, o)
      /\ \A d \in Caller : Asks(d) /\ user[d].id = i => d = c
  BY <1>0, <1>2, OwnRequest
<1>5. w \in Nat \X Id /\ user \in [Caller -> Using]
  BY <1>0, <1>4 DEF RpcInv, ClientTypes, Using
<1>6. before \in Seq(Buffer) /\ Len(before) = Len(conn) /\ before[o] \in Buffer
  BY <1>4 DEF RpcInv, ClientTypes
<1>7. PICK wait : wait = before[o].wait
  OBVIOUS
<1>8. wait \in Seq(Nat \X Id)
  BY <1>6, <1>7 DEF Buffer
<1>9. PICK more : more = Append(wait, w)
  OBVIOUS
<1>10. /\ more \in Seq(Nat \X Id)
       /\ \A k \in DOMAIN more : (k \in DOMAIN wait /\ more[k] = wait[k])
                                   \/ (k = Len(wait) + 1 /\ more[k] = w)
  <2>1. more \in Seq(Nat \X Id)
    BY <1>5, <1>8, <1>9, Added
  <2>2. \A k \in DOMAIN Append(wait, w) : \/ k \in DOMAIN wait /\ Append(wait, w)[k] = wait[k]
                                          \/ k = Len(wait) + 1 /\ Append(wait, w)[k] = w
    BY <1>5, <1>8, AddedOne
  <2>3. QED
    BY <1>9, <2>1, <2>2
<1>11. PICK x : x = [before[o] EXCEPT !.wait = more]
  OBVIOUS
<1>12. x \in Buffer /\ x.wait = more /\ x.copy = before[o].copy /\ x.ready = before[o].ready
  BY <1>6, <1>10, <1>11 DEF Buffer
<1>13. before' = [before EXCEPT ![o] = x]
  BY <1>0, <1>7, <1>9, <1>11 DEF WebBuffer
<1>14. /\ before' \in Seq(Buffer) /\ Len(before') = Len(before) /\ before'[o] = x
       /\ \A n \in 1..Len(before) : n # o => before'[n] = before[n]
  BY <1>4, <1>6, <1>12, <1>13, Changed
<1>15. ClientTypes'
  BY <1>1, <1>3, <1>6, <1>14 DEF RpcInv, ClientTypes, Moves
<1>16. Grows
  <2>1. Len(asker) \in Nat
    BY DEF RpcInv, ClientTypes
  <2>2. QED
    BY <1>1, <2>1, CallsGrow
<1>17. ChainsAreTrue'
  <2>1. \A n \in 1..Len(conn) : /\ before'[n].copy = before[n].copy
                                /\ before'[n].ready => before[n].ready
    BY <1>6, <1>12, <1>14
  <2>2. QED
    BY <1>1, <2>1, ChainsLast
<1>18. SessionsAreTrue' /\ ServersAreTrue'
  BY <1>1, <1>15, <1>16, LinksLast DEF RpcInv, ServerTypes
<1>19. PlacesAreTrue'
  BY <1>1, <1>3, <1>16, PlacesStay
<1>20. UsersAreTrue'
  <2>1. ~Asks(c)' /\ user'[c].at \notin {"writing", "failing"}
    BY <1>3 DEF Asks
  <2>2. QED
    BY <1>3, <1>15, <1>16, <2>1, MovesUsers
<1>21. NothingEnters /\ \A j : NotEntered(j) => NotEntered(j)'
  BY <1>1, StillNotEntered DEF NothingEnters
<1>22. /\ NotEntered(i)
       /\ \A k \in DOMAIN wait : wait[k][2] # i
       /\ \A k \in DOMAIN before[o].copy : before[o].copy[k][2] # i
  BY <1>0, <1>2, <1>7 DEF RpcInv, ClientsInv, CallersEnter, CallerEnters
<1>23. BuffersAreTrue'
  <2>1. ASSUME NEW n \in 1..Len(conn), n # o PROVE BufferIsTrue(n)'
    BY <1>1, <1>6, <1>14, <1>15, <1>16, <1>21, <2>1, BufferLasts
  <2>2. BufferIsTrue(o)'
    <3>1. /\ \A k \in DOMAIN wait : IsOf(wait[k], o) /\ NotEntered(wait[k][2])
          /\ \A k \in DOMAIN before[o].copy :
               /\ IsOf(before[o].copy[k], o)
               /\ Entering(o, k) \/ NotEntered(before[o].copy[k][2])
          /\ \A k, l \in DOMAIN wait : wait[k][2] = wait[l][2] => k = l
          /\ \A k, l \in DOMAIN before[o].copy :
               before[o].copy[k][2] = before[o].copy[l][2] => k = l
          /\ \A k \in DOMAIN wait, l \in DOMAIN before[o].copy :
               wait[k][2] # before[o].copy[l][2]
      BY <1>4, <1>7 DEF RpcInv, ClientsInv, BuffersAreTrue, BufferIsTrue
    <3>2. w[2] = i
      BY <1>0
    <3>3. \A k \in DOMAIN more : IsOf(more[k], o) /\ NotEntered(more[k][2])
      BY <1>4, <1>10, <1>22, <3>1, <3>2
    <3>4. \A k, l \in DOMAIN more : more[k][2] = more[l][2] => k = l
      BY <1>10, <1>22, <3>1, <3>2
    <3>5. \A k \in DOMAIN more, l \in DOMAIN before[o].copy : more[k][2] # before[o].copy[l][2]
      BY <1>10, <1>22, <3>1, <3>2
    <3>6. \A v : IsOf(v, o) => IsOf(v, o)'
      BY <1>1 DEF IsOf, MadeOn
    <3>7. \A k : Entering(o, k) => Entering(o, k)'
      BY <1>1 DEF Entering
    <3>8. /\ before'[o].wait = more /\ before'[o].copy = before[o].copy
      BY <1>12, <1>14
    <3>9. \A v, n : IsOf(v, n)' <=> IsOf(v, n)
      BY <1>1 DEF IsOf, MadeOn
    <3>10. \A k \in DOMAIN more : IsOf(more[k], o)' /\ NotEntered(more[k][2])'
      BY <1>21, <3>3, <3>6
    <3>11. \A k \in DOMAIN before[o].copy :
               /\ IsOf(before[o].copy[k], o)'
               /\ Entering(o, k)' \/ NotEntered(before[o].copy[k][2])'
      <4> SUFFICES ASSUME NEW k \in DOMAIN before[o].copy
                   PROVE  /\ IsOf(before[o].copy[k], o)'
                          /\ Entering(o, k)' \/ NotEntered(before[o].copy[k][2])'
        OBVIOUS
      <4>1. PICK v : v = before[o].copy[k]
        OBVIOUS
      <4>2. IsOf(v, o)' /\ (Entering(o, k)' \/ NotEntered(v[2])')
        BY <1>21, <3>1, <3>6, <3>7, <4>1
      <4>3. before'[o].copy[k] = v
        BY <3>8, <4>1
      <4>4. QED
        BY <4>2, <4>3, <3>8, <4>1, <1>3 DEF IsOf, MadeOn, NotEntered, LastHeard, Entering
    <3>12. QED
      BY <3>1, <3>4, <3>5, <3>8, <3>10, <3>11 DEF BufferIsTrue
  <2>3. QED
    BY <1>1, <2>1, <2>2 DEF BuffersAreTrue
<1>24. CallersEnter'
  <2>1. ASSUME NEW d \in Caller, d # c PROVE CallerEnters(d)'
    <3>1. user'[d] = user[d]
      BY <1>3, <2>1 DEF Moves
    <3>2. CASE ~WillEnter(d)
      <4>1. ~WillEnter(d)'
        BY <3>1, <3>2 DEF WillEnter
      <4>2. QED
        BY <4>1 DEF CallerEnters
    <3>3. CASE WillEnter(d)
      <4>1. /\ user[d].id # i /\ user[d].o \in 1..Len(conn)
            /\ NotEntered(user[d].id)
            /\ \A k \in DOMAIN before[user[d].o].wait : before[user[d].o].wait[k][2] # user[d].id
            /\ \A k \in DOMAIN before[user[d].o].copy : before[user[d].o].copy[k][2] # user[d].id
        <5>1. Asks(d) /\ CallerEnters(d)
          BY <3>3 DEF Asks, WillEnter, RpcInv, ClientsInv, CallersEnter
        <5>2. QED
          BY <1>4, <2>1, <3>3, <5>1, OwnRequest DEF CallerEnters
      <4>2. CASE user[d].o # o
        BY <1>6, <1>14, <1>21, <3>1, <3>3, <4>1, <4>2, CallerLasts
      <4>3. CASE user[d].o = o
        <5>1. PICK j : j = user[d].id
          OBVIOUS
        <5>2. \A k \in DOMAIN more : more[k][2] # j
          <6>1. w[2] = i
            BY <1>0
          <6>2. QED
            BY <1>7, <1>10, <4>1, <4>3, <5>1, <6>1
        <5>3. NotEntered(j)'
          BY <1>21, <4>1, <5>1
        <5>4. user'[d].id = j /\ user'[d].o = o
          BY <3>1, <4>3, <5>1
        <5>5. /\ before'[o].wait = more /\ before'[o].copy = before[o].copy
          BY <1>12, <1>14
        <5>6. NotEntered(user[d].id)'
          BY <5>3, <5>4 DEF NotEntered, LastHeard
        <5>7. QED
          BY <4>1, <4>3, <5>1, <5>2, <5>4, <5>5, <5>6 DEF CallerEnters
      <4>4. QED
        BY <4>2, <4>3
    <3>4. QED
      BY <3>2, <3>3
  <2>2. CallerEnters(c)'
    BY <1>3 DEF CallerEnters, WillEnter
  <2>3. QED
    BY <2>1, <2>2 DEF CallersEnter
<1>25. LinkTypes'
  BY <1>1 DEF RpcInv, LinkTypes
<1>26. lost' \subseteq Id /\ lost \subseteq lost' /\ (raced => raced')
  BY <1>1 DEF RpcInv, ServerTypes
<1>27. QED
  BY <1>1, <1>3, <1>15, <1>16, <1>17, <1>18, <1>19, <1>20, <1>23, <1>24, <1>25, <1>26, MovingStep

\* A caller that is about to enter its request, while requests move about in
\* its object's buffer.
LEMMA CallerWaits ==
  ASSUME RpcInv, NEW c \in Caller, WillEnter(c)' => WillEnter(c),
         user'[c].o = user[c].o, user'[c].id = user[c].id,
         WillEnter(c) =>
           /\ \A k \in DOMAIN before'[user[c].o].wait :
                InBuffer(before'[user[c].o].wait[k][2], user[c].o)
           /\ \A k \in DOMAIN before'[user[c].o].copy :
                InBuffer(before'[user[c].o].copy[k][2], user[c].o)
           /\ NotEntered(user[c].id) => NotEntered(user[c].id)'
  PROVE  CallerEnters(c)'
<1>1. CallerEnters(c)
  BY DEF RpcInv, ClientsInv, CallersEnter
<1> SUFFICES ASSUME WillEnter(c)'
             PROVE  /\ NotEntered(user[c].id)'
                    /\ \A k \in DOMAIN before'[user'[c].o].wait :
                         before'[user'[c].o].wait[k][2] # user'[c].id
                    /\ \A k \in DOMAIN before'[user'[c].o].copy :
                         before'[user'[c].o].copy[k][2] # user'[c].id
  BY DEF CallerEnters
<1>2. NotEntered(user[c].id) /\ ~InBuffer(user[c].id, user[c].o)
  BY <1>1 DEF CallerEnters, InBuffer
<1>3. PICK i, o : i = user[c].id /\ o = user[c].o
  OBVIOUS
<1>4. NotEntered(i)'
  BY <1>2, <1>3
<1>5. NotEntered(user[c].id)'
  BY <1>3, <1>4 DEF NotEntered, LastHeard
<1>6. /\ \A k \in DOMAIN before'[o].wait : before'[o].wait[k][2] # i
      /\ \A k \in DOMAIN before'[o].copy : before'[o].copy[k][2] # i
  BY <1>2, <1>3
<1>7. QED
  BY <1>3, <1>5, <1>6

\* A request is entered in the tables of its object.
LEMMA EnterGives ==
  ASSUME RpcInv, NEW o \in 1..Len(conn), NEW n \in Nat, NEW i \in Id, Entered(o, n, i),
         MadeOn(i, o), asker[i].num = n, NotEntered(i),
         UNCHANGED <<asker, heard, sess, raced>>, \A m \in 1..Len(conn) : chain'[m].s = chain[m].s
  PROVE  /\ conn' \in Seq(Connection) /\ Len(conn') = Len(conn) /\ belated' \in BOOLEAN
         /\ \A m \in 1..Len(conn) : conn'[m].clients = conn[m].clients
         /\ Grows /\ ClientsAreTrue' /\ TablesAreTrue'
         /\ \A j : j # i /\ NotEntered(j) => NotEntered(j)'
         /\ ClientTypes' => AllHeardIsTrue'
<1>1. /\ conn \in Seq(Connection) /\ conn[o] \in Connection /\ belated \in BOOLEAN
      /\ Len(asker) \in Nat /\ asker \in Seq(Asking)
  BY DEF RpcInv, ClientTypes
<1>2. PICK x : x = [conn[o] EXCEPT !.table = @ \cup {<<i, n>>}, !.index = @ \cup {<<n, i>>}]
  OBVIOUS
<1>3. /\ x \in Connection /\ x.clients = conn[o].clients /\ x.counter = conn[o].counter
      /\ x.alive = conn[o].alive
      /\ x.table = conn[o].table \cup {<<i, n>>} /\ x.index = conn[o].index \cup {<<n, i>>}
  <2>1. conn[o].table \in SUBSET (Id \X Nat) /\ conn[o].index \in SUBSET (Nat \X Id)
    BY <1>1 DEF Connection
  <2>2. /\ conn[o].table \cup {<<i, n>>} \in SUBSET (Id \X Nat)
        /\ conn[o].index \cup {<<n, i>>} \in SUBSET (Nat \X Id)
    BY <2>1
  <2>3. QED
    BY <1>1, <1>2, <2>2 DEF Connection
<1>4. conn' = [conn EXCEPT ![o] = x]
  BY <1>2 DEF Entered
<1>5. /\ conn' \in Seq(Connection) /\ Len(conn') = Len(conn) /\ conn'[o] = x
      /\ \A m \in 1..Len(conn) : m # o => conn'[m] = conn[m]
  BY <1>1, <1>3, <1>4, Changed
<1>6. \A m \in 1..Len(conn) : /\ conn'[m].clients = conn[m].clients
                              /\ conn'[m].counter = conn[m].counter
                              /\ conn'[m].alive = conn[m].alive
  BY <1>3, <1>5
<1>7. Grows
  BY <1>1, <1>5, <1>6, CallsGrowOn
<1>8. ClientsAreTrue'
  BY <1>5, <1>6 DEF RpcInv, ClientsInv, ClientsAreTrue, ClientsOf
<1>9. \A j, m : MadeOn(j, m) => MadeOn(j, m)'
  BY DEF MadeOn
<1>10. belated => belated'
  BY DEF Entered
<1>11. TablesAreTrue'
  <2> SUFFICES ASSUME NEW m \in 1..Len(conn) PROVE TableIsTrue(m)'
    BY <1>5 DEF TablesAreTrue
  <2>1. TableIsTrue(m)
    BY DEF RpcInv, ClientsInv, TablesAreTrue
  <2>2. CASE m # o
    <3>1. conn'[m] = conn[m]
      BY <1>5, <2>2
    <3>2. QED
      BY <1>9, <1>10, <2>1, <3>1 DEF TableIsTrue
  <2>3. CASE m = o
    <3>1. conn'[m].index = Mirror(conn'[m].table)
      <4>1. PICK T : T = conn[o].table
        OBVIOUS
      <4>2. conn[o].index = Mirror(T) /\ conn'[o].table = T \cup {<<i, n>>}
            /\ conn'[o].index = conn[o].index \cup {<<n, i>>}
        BY <1>3, <1>5, <2>1, <2>3, <4>1 DEF TableIsTrue
      <4>3. Mirror(T \cup {<<i, n>>}) = Mirror(T) \cup {<<n, i>>}
        BY MirrorAdded
      <4>4. QED
        BY <2>3, <4>2, <4>3
    <3>2. \A p \in conn'[m].table : p \in conn[m].table \/ p = <<i, n>>
      BY <1>3, <1>5, <2>3
    <3>3. ASSUME NEW p \in conn'[m].table
          PROVE  /\ MadeOn(p[1], m)' /\ asker'[p[1]].num = p[2]
                 /\ belated' \/ \E q \in conn'[m].clients : q[1] = p[2]
      <4>1. CASE p \in conn[m].table
        BY <1>6, <1>9, <1>10, <2>1, <4>1 DEF TableIsTrue
      <4>2. CASE p = <<i, n>>
        <5>1. p[1] = i /\ p[2] = n
          BY <4>2
        <5>2. belated' \/ \E q \in conn[o].clients : q[1] = n
          BY DEF Entered
        <5>3. QED
          BY <1>6, <1>9, <2>3, <5>1, <5>2
      <4>3. QED
        BY <3>2, <3>3, <4>1, <4>2
    <3>4. QED
      BY <3>1, <3>3 DEF TableIsTrue
  <2>4. QED
    BY <2>2, <2>3
<1>12. \A m \in 1..Len(conn') : \A p \in conn'[m].table : p \in conn[m].table \/ p[1] = i
  <2> SUFFICES ASSUME NEW m \in 1..Len(conn), NEW p \in conn'[m].table
               PROVE  p \in conn[m].table \/ p[1] = i
    BY <1>5
  <2>1. p \in conn[m].table \/ p = <<i, n>>
    BY <1>3, <1>5
  <2>2. QED
    BY <2>1
<1>13. \A j : j # i /\ NotEntered(j) => NotEntered(j)'
  BY <1>5, <1>12 DEF NotEntered, LastHeard
<1>14. ClientTypes' => AllHeardIsTrue'
  <2>1. ~LastHeard(i)
    BY DEF NotEntered
  <2>2. QED
    BY <1>5, <1>7, <1>12, <2>1, HeardLasts
<1>15. belated' \in BOOLEAN
  BY <1>1 DEF Entered
<1>16. QED
  BY <1>5, <1>6, <1>7, <1>8, <1>11, <1>13, <1>14, <1>15

\* What is in the buffers, while request i is entered by somebody else.
LEMMA BuffersWait ==
  ASSUME RpcInv, ClientTypes', Grows, Len(conn') = Len(conn), NEW i, before' = before,
         chain' = chain, \A j : j # i /\ NotEntered(j) => NotEntered(j)',
         \A o \in 1..Len(conn) : ~InBuffer(i, o)
  PROVE  BuffersAreTrue'
<1>1. ASSUME NEW o \in 1..Len(conn) PROVE BufferIsTrue(o)'
  <2>1. \A j : InBuffer(j, o) /\ NotEntered(j) => NotEntered(j)'
    OBVIOUS
  <2>2. QED
    BY <2>1, BufferLasts
<1>2. QED
  BY <1>1 DEF BuffersAreTrue

\* A request is in the buffer of its own object, if it is in one.
LEMMA OwnBuffer ==
  ASSUME RpcInv, NEW o, NEW i, MadeOn(i, o), NEW n \in 1..Len(conn), InBuffer(i, n)
  PROVE  n = o
<1>1. BufferIsTrue(n)
  BY DEF RpcInv, ClientsInv, BuffersAreTrue
<1>2. \A w : IsOf(w, n) /\ w[2] = i => MadeOn(i, n)
  BY DEF IsOf
<1>3. MadeOn(i, n)
  BY <1>1, <1>2 DEF BufferIsTrue, InBuffer
<1>4. QED
  BY <1>3 DEF MadeOn

\* The caller enters its request, or finds that the connection has failed.
LEMMA DoSendRequestStep ==
  ASSUME RpcInv, NEW c \in Caller, WebDoSendRequest(c)
  PROVE  RpcInv'
<1>0. PICK o, i, n : o = user[c].o /\ i = user[c].id /\ n = user[c].num
  OBVIOUS
<1>1. UNCHANGED <<cur, asker, heard, evicted, raced, before, secure, ended, chain, sess, server>>
  BY DEF WebDoSendRequest, linkVars, webRpcVars
<1>2. user[c].at = "sending" /\ Numbered(c) /\ Asks(c) /\ WillEnter(c)
  BY DEF WebDoSendRequest, Numbered, Asks, WillEnter
<1>3. /\ i \in 1..Len(asker) /\ i \in Id /\ o \in 1..Len(conn) /\ MadeOn(i, o)
      /\ asker[i] = AsCaller(c) /\ \A d \in Caller : Asks(d) /\ user[d].id = i => d = c
  BY <1>0, <1>2, OwnRequest
<1>4. /\ NotEntered(i) /\ ~InBuffer(i, o)
  BY <1>0, <1>2 DEF RpcInv, ClientsInv, CallersEnter, CallerEnters, InBuffer
<1>5. PICK at \in {"writing", "ready"} :
        /\ user' = [user EXCEPT ![c].at = at]
        /\ at = "writing" => before[o].ready /\ Entered(o, n, i) /\ lost' = lost
        /\ at = "ready" => UNCHANGED <<conn, belated>> /\ lost' = lost \cup {i}
  BY <1>0 DEF WebDoSendRequest
<1>6. Moves(c) /\ user'[c].at = at /\ user'[c].id = i
  BY <1>0, <1>2, <1>5, MovingOn
<1>7. /\ lost' \subseteq Id /\ lost \subseteq lost'
  BY <1>3, <1>5 DEF RpcInv, ServerTypes
<1>8. /\ conn' \in Seq(Connection) /\ Len(conn') = Len(conn) /\ belated' \in BOOLEAN
      /\ \A m \in 1..Len(conn) : conn'[m].clients = conn[m].clients
      /\ Grows /\ ClientTypes' /\ ClientsAreTrue' /\ TablesAreTrue' /\ AllHeardIsTrue'
      /\ \A j : j # i /\ NotEntered(j) => NotEntered(j)'
  <2>1. CASE at = "writing"
    <3>1. n \in Nat /\ asker[i].num = n
      BY <1>0, <1>2, <1>3 DEF RpcInv, ClientTypes, Using, AsCaller
    <3>2. /\ conn' \in Seq(Connection) /\ Len(conn') = Len(conn) /\ belated' \in BOOLEAN
          /\ \A m \in 1..Len(conn) : conn'[m].clients = conn[m].clients
          /\ Grows /\ ClientsAreTrue' /\ TablesAreTrue'
          /\ \A j : j # i /\ NotEntered(j) => NotEntered(j)'
          /\ ClientTypes' => AllHeardIsTrue'
      <4>1. \A m \in 1..Len(conn) : chain'[m].s = chain[m].s
        BY <1>1
      <4>2. Entered(o, n, i)
        BY <1>5, <2>1
      <4>3. QED
        BY <1>1, <1>3, <1>4, <3>1, <4>1, <4>2, EnterGives
    <3>3. ClientTypes'
      BY <1>1, <1>6, <3>2 DEF RpcInv, ClientTypes, Moves
    <3>4. QED
      BY <3>2, <3>3
  <2>2. CASE at = "ready"
    <3>1. UNCHANGED <<conn, belated>>
      BY <1>5, <2>2
    <3>2. ClientTypes'
      BY <1>1, <1>6, <3>1 DEF RpcInv, ClientTypes, Moves
    <3>3. Grows
      <4>1. Len(asker) \in Nat
        BY DEF RpcInv, ClientTypes
      <4>2. QED
        BY <1>1, <3>1, <4>1, CallsGrow
    <3>4. ClientsAreTrue' /\ TablesAreTrue' /\ AllHeardIsTrue' /\ NothingEnters
      BY <1>1, <3>1, <3>2, <3>3, StillTables
    <3>5. conn' \in Seq(Connection) /\ belated' \in BOOLEAN
      BY <3>2 DEF ClientTypes
    <3>6. QED
      BY <3>1, <3>2, <3>3, <3>4, <3>5, StillNotEntered
  <2>3. QED
    BY <2>1, <2>2
<1>9. LinkTypes' /\ ChainsAreTrue'
  BY <1>1, <1>8, ChainsLast DEF RpcInv, LinkTypes
<1>10. SessionsAreTrue' /\ ServerTypes' /\ ServersAreTrue'
  BY <1>1, <1>7, <1>8, LinksLast
<1>11. PlacesAreTrue'
  BY <1>1, <1>6, <1>8, PlacesStay
<1>12. UsersAreTrue'
  <2>1. Asks(c)' => user'[c].id \in 1..Len(asker') /\ asker'[user'[c].id] = AsCaller(c)
    BY <1>1, <1>3, <1>6
  <2>2. user'[c].at # "failing"
    BY <1>6
  <2>3. user'[c].at = "writing" => chain'[user[c].o].s # 0
    <3>1. before[o].ready => chain[o].s # 0
      BY <1>3 DEF RpcInv, ChainsAreTrue, ChainIsTrue
    <3>2. QED
      BY <1>0, <1>1, <1>5, <1>6, <3>1
  <2>4. QED
    BY <1>6, <1>8, <2>1, <2>2, <2>3, MovesUsers
<1>13. AskersAreTrue'
  BY <1>1, <1>8, AskersLast DEF AskersAreTrue
<1>14. \A m \in 1..Len(conn) : ~InBuffer(i, m)
  BY <1>3, <1>4, OwnBuffer
<1>15. BuffersAreTrue'
  BY <1>1, <1>8, <1>14, BuffersWait
<1>16. CallersEnter'
  <2>1. ASSUME NEW d \in Caller, d # c PROVE CallerEnters(d)'
    <3>1. user'[d] = user[d]
      BY <1>6, <2>1 DEF Moves
    <3>2. WillEnter(d)' => WillEnter(d)
      BY <3>1 DEF WillEnter
    <3>3. WillEnter(d) => user[d].id # i
      BY <1>3, <2>1 DEF WillEnter, Asks
    <3>4. WillEnter(d) /\ NotEntered(user[d].id) => NotEntered(user[d].id)'
      <4>1. PICK j : j = user[d].id
        OBVIOUS
      <4>2. j # i /\ NotEntered(j) => NotEntered(j)'
        BY <1>8
      <4>3. NotEntered(j)' <=> NotEntered(user[d].id)'
        BY <3>1, <4>1 DEF NotEntered, LastHeard
      <4>4. QED
        BY <3>3, <4>1, <4>2, <4>3
    <3>5. QED
      BY <1>1, <3>1, <3>2, <3>4, CallerLasts
  <2>2. CallerEnters(c)'
    BY <1>6 DEF CallerEnters, WillEnter
  <2>3. QED
    BY <2>1, <2>2 DEF CallersEnter
<1>17. QED
  BY <1>8, <1>9, <1>10, <1>11, <1>12, <1>13, <1>15, <1>16 DEF RpcInv, ClientsInv

\* A request is on its way, or was written in vain.
LEMMA WriteGives ==
  ASSUME RpcInv, NEW k \in 1..Len(sess), NEW i \in Id, Wrote(k, i) \/ WroteInVain(k, i)
  PROVE  /\ sess' \in Seq(Session) /\ Len(sess') = Len(sess)
         /\ lost \subseteq lost' /\ lost' \subseteq Id
         /\ \A j \in 1..Len(sess) :
              /\ sess'[j].cut = sess[j].cut /\ sess'[j].peer = sess[j].peer
              /\ sess'[j].down = sess[j].down
              /\ \A m \in DOMAIN sess'[j].up :
                   \/ \E l \in DOMAIN sess[j].up : sess'[j].up[m] = sess[j].up[l]
                   \/ j = k /\ sess'[j].up[m] = i
<1>1. sess \in Seq(Session) /\ sess[k] \in Session /\ lost \subseteq Id
  BY DEF RpcInv, LinkTypes, ServerTypes
<1>2. CASE WroteInVain(k, i)
  BY <1>1, <1>2 DEF WroteInVain
<1>3. CASE Wrote(k, i)
  <2>1. PICK up : up = sess[k].up
    OBVIOUS
  <2>2. up \in Seq(Id)
    BY <1>1, <2>1 DEF Session
  <2>3. PICK more : more = Append(up, i)
    OBVIOUS
  <2>4. more \in Seq(Id)
    BY <2>2, <2>3, Added
  <2>5. \A m \in DOMAIN more : (m \in DOMAIN up /\ more[m] = up[m]) \/ more[m] = i
    <3>1. \A m \in DOMAIN Append(up, i) : \/ m \in DOMAIN up /\ Append(up, i)[m] = up[m]
                                          \/ m = Len(up) + 1 /\ Append(up, i)[m] = i
      BY <2>2, AddedOne
    <3>2. QED
      BY <2>3, <3>1
  <2>6. PICK x : x = [sess[k] EXCEPT !.up = more]
    OBVIOUS
  <2>7. /\ x \in Session /\ x.up = more /\ x.cut = sess[k].cut /\ x.down = sess[k].down
        /\ x.peer = sess[k].peer
    BY <1>1, <2>4, <2>6 DEF Session
  <2>8. sess' = [sess EXCEPT ![k] = x]
    BY <1>3, <2>1, <2>3, <2>6 DEF Wrote
  <2>9. /\ sess' \in Seq(Session) /\ Len(sess') = Len(sess) /\ sess'[k] = x
        /\ \A j \in 1..Len(sess) : j # k => sess'[j] = sess[j]
    BY <1>1, <2>7, <2>8, Changed
  <2>10. \A j \in 1..Len(sess) :
           /\ sess'[j].cut = sess[j].cut /\ sess'[j].peer = sess[j].peer
           /\ sess'[j].down = sess[j].down
    BY <2>7, <2>9
  <2>11. \A m \in DOMAIN sess'[k].up :
           (\E l \in DOMAIN sess[k].up : sess'[k].up[m] = sess[k].up[l]) \/ sess'[k].up[m] = i
    BY <2>1, <2>5, <2>7, <2>9
  <2>12. \A j \in 1..Len(sess) : \A m \in DOMAIN sess'[j].up :
           \/ \E l \in DOMAIN sess[j].up : sess'[j].up[m] = sess[j].up[l]
           \/ j = k /\ sess'[j].up[m] = i
    BY <2>9, <2>11
  <2>13. QED
    BY <1>1, <1>3, <2>9, <2>10, <2>12 DEF Wrote
<1>4. QED
  BY <1>2, <1>3

LEMMA WriteGrows ==
  ASSUME RpcInv, UNCHANGED <<conn, asker>>,
         \A o \in 1..Len(conn) : chain[o].s # 0 => chain'[o].s = chain[o].s,
         \A k \in 1..Len(sess) : sess[k].cut => sess'[k].cut
  PROVE  Grows
<1>1. Len(conn) \in Nat /\ Len(asker) \in Nat /\ \A o \in 1..Len(conn) : conn[o].counter \in Nat
  BY Counters DEF RpcInv, ClientTypes
<1>2. ASSUME NEW o \in 1..Len(conn), Cut(o) PROVE Cut(o)'
  <2>1. chain[o].s \in 0..Len(sess) /\ chain[o].s # 0 /\ sess[chain[o].s].cut
    BY <1>2 DEF Cut, RpcInv, ChainsAreTrue, ChainIsTrue
  <2>2. chain[o].s \in 1..Len(sess) /\ chain'[o].s = chain[o].s
    <3>1. Len(sess) \in Nat
      BY DEF RpcInv, LinkTypes
    <3>2. QED
      BY <1>2, <2>1, <3>1
  <2>3. QED
    BY <2>1, <2>2 DEF Cut
<1>3. Len(conn) <= Len(conn') /\ Len(asker) <= Len(asker')
  BY <1>1
<1>4. \A o \in 1..Len(conn) : conn[o].counter <= conn'[o].counter
  BY <1>1
<1>5. QED
  BY <1>2, <1>3, <1>4 DEF Grows

\* A session has the requests of its object, and the new one is its object's.
LEMMA WrittenSessions ==
  ASSUME RpcInv, ClientTypes', Grows, server' = server, NEW k \in 1..Len(sess), NEW i \in Id,
         MadeVia(i, k), Wrote(k, i) \/ WroteInVain(k, i)
  PROVE  SessionsAreTrue' /\ ServerTypes' /\ ServersAreTrue'
<1>1. /\ sess' \in Seq(Session) /\ Len(sess') = Len(sess)
      /\ lost \subseteq lost' /\ lost' \subseteq Id
      /\ \A j \in 1..Len(sess) :
           /\ sess'[j].cut = sess[j].cut /\ sess'[j].peer = sess[j].peer
           /\ sess'[j].down = sess[j].down
           /\ \A m \in DOMAIN sess'[j].up :
                \/ \E l \in DOMAIN sess[j].up : sess'[j].up[m] = sess[j].up[l]
                \/ j = k /\ sess'[j].up[m] = i
  BY WriteGives
<1>2. Len(sess') \in Nat /\ Len(sess) <= Len(sess')
  BY <1>1
<1>3. ServerTypes' /\ ServersAreTrue'
  BY <1>1, <1>2, ServersLast
<1>4. ASSUME NEW j \in 1..Len(sess) PROVE SessionIsTrue(j)'
  <2>1. SessionIsTrue(j)
    BY DEF RpcInv, SessionsAreTrue
  <2>2. ASSUME NEW m \in DOMAIN sess'[j].up PROVE MadeVia(sess[j].up[m], j)'
    <3>1. PICK r : r = sess'[j].up[m]
      OBVIOUS
    <3>2. MadeVia(r, j)
      BY <1>1, <2>1, <2>2, <3>1 DEF SessionIsTrue
    <3>3. MadeVia(r, j)'
      BY <3>2, WaysLast
    <3>4. QED
      BY <3>1, <3>3 DEF MadeVia
  <2>3. sess'[j].cut => sess'[j].down = <<>>
    BY <1>1, <2>1 DEF SessionIsTrue
  <2>4. QED
    BY <2>2, <2>3 DEF SessionIsTrue
<1>5. QED
  BY <1>1, <1>3, <1>4 DEF SessionsAreTrue

\* The caller's request is written.
LEMMA WriteStep ==
  ASSUME RpcInv, NEW c \in Caller, WebWrite(c)
  PROVE  RpcInv'
<1>0. PICK o, i, k : o = user[c].o /\ i = user[c].id /\ k = chain[o].s
  OBVIOUS
<1>1. UNCHANGED <<conn, cur, asker, heard, evicted, raced, belated, secure, ended, server>>
      /\ chain' = chain
  BY DEF WebWrite, undefVars
<1>2. user[c].at = "writing" /\ Numbered(c) /\ Asks(c) /\ ~WillEnter(c)
  BY DEF WebWrite, Numbered, Asks, WillEnter
<1>3. /\ i \in 1..Len(asker) /\ i \in Id /\ o \in 1..Len(conn) /\ MadeOn(i, o)
  BY <1>0, <1>2, OwnRequest
<1>4. k \in 1..Len(sess)
  <2>1. k \in 0..Len(sess) /\ k # 0 /\ Len(sess) \in Nat
    BY <1>0, <1>2, <1>3 DEF RpcInv, ChainsAreTrue, ChainIsTrue, ClientsInv, UsersAreTrue,
                            UserIsTrue, LinkTypes
  <2>2. QED
    BY <2>1
<1>5. MadeVia(i, k)
  BY <1>0, <1>3 DEF MadeOn, MadeVia
<1>6. PICK at \in {"ready", "failing"} :
        /\ user' = [user EXCEPT ![c].at = at]
        /\ Wrote(k, i) \/ WroteInVain(k, i)
        /\ before' = before \/ before' = [before EXCEPT ![o].ready = FALSE]
        /\ at = "failing" => WroteInVain(k, i)
  BY <1>0 DEF WebWrite
<1>7. Moves(c) /\ user'[c].at = at /\ user'[c].id = i
  BY <1>0, <1>2, <1>6, MovingOn
<1>8. /\ before' \in Seq(Buffer) /\ Len(before') = Len(before)
      /\ \A n \in 1..Len(conn) :
           /\ before'[n].wait = before[n].wait /\ before'[n].copy = before[n].copy
           /\ before'[n].ready => before[n].ready
  <2>1. before \in Seq(Buffer) /\ Len(before) = Len(conn) /\ before[o] \in Buffer
    BY <1>3 DEF RpcInv, ClientTypes
  <2>2. CASE before' = before
    BY <2>1, <2>2
  <2>3. CASE before' = [before EXCEPT ![o].ready = FALSE]
    <3>1. PICK x : x = [before[o] EXCEPT !.ready = FALSE]
      OBVIOUS
    <3>2. x \in Buffer /\ x.wait = before[o].wait /\ x.copy = before[o].copy /\ ~x.ready
      BY <2>1, <3>1 DEF Buffer
    <3>3. before' = [before EXCEPT ![o] = x] /\ o \in 1..Len(before)
      BY <1>3, <2>1, <2>3, <3>1
    <3>4. /\ before' \in Seq(Buffer) /\ Len(before') = Len(before) /\ before'[o] = x
          /\ \A n \in 1..Len(before) : n # o => before'[n] = before[n]
      BY <2>1, <3>2, <3>3, Changed
    <3>5. QED
      BY <2>1, <3>2, <3>4
  <2>4. QED
    BY <1>6, <2>2, <2>3
<1>9. /\ sess' \in Seq(Session) /\ Len(sess') = Len(sess)
      /\ \A j \in 1..Len(sess) : sess'[j].cut = sess[j].cut
      /\ lost \subseteq lost' /\ lost' \subseteq Id
  BY <1>3, <1>4, <1>6, WriteGives
<1>10. Grows
  BY <1>1, <1>9, WriteGrows
<1>11. ClientTypes'
  BY <1>1, <1>7, <1>8 DEF RpcInv, ClientTypes, Moves
<1>12. SessionsAreTrue' /\ ServerTypes' /\ ServersAreTrue'
  BY <1>1, <1>3, <1>4, <1>5, <1>6, <1>10, <1>11, WrittenSessions
<1>13. LinkTypes'
  BY <1>1, <1>9 DEF RpcInv, LinkTypes
<1>14. ChainsAreTrue'
  BY <1>1, <1>8, <1>9 DEF RpcInv, ChainsAreTrue, ChainIsTrue
<1>15. PlacesAreTrue'
  BY <1>1, <1>7, <1>10, PlacesStay
<1>16. UsersAreTrue'
  <2>1. ~Asks(c)'
    BY <1>7 DEF Asks
  <2>2. chain'[user[c].o].s # 0
    BY <1>0, <1>1, <1>4
  <2>3. user'[c].at = "failing" => Cut(user[c].o)'
    <3>1. user'[c].at = "failing" => sess'[k].cut
      BY <1>4, <1>6, <1>7, <1>9 DEF WroteInVain
    <3>2. user'[c].o = o /\ chain'[o].s = k /\ k # 0
      BY <1>0, <1>1, <1>4, <1>7 DEF Moves
    <3>3. QED
      BY <3>1, <3>2 DEF Cut
  <2>4. QED
    BY <1>7, <1>10, <1>11, <2>1, <2>2, <2>3, MovesUsers
<1>17. NothingEnters /\ \A j : NotEntered(j) => NotEntered(j)'
  BY <1>1, StillNotEntered DEF NothingEnters
<1>18. BuffersAreTrue'
  <2>1. ASSUME NEW n \in 1..Len(conn) PROVE BufferIsTrue(n)'
    BY <1>1, <1>8, <1>10, <1>11, <1>17, BufferLasts
  <2>2. QED
    BY <1>1, <2>1 DEF BuffersAreTrue
<1>19. CallersEnter'
  <2>1. ASSUME NEW d \in Caller, d # c PROVE CallerEnters(d)'
    <3>1. user'[d] = user[d]
      BY <1>7, <2>1 DEF Moves
    <3>2. WillEnter(d)' => WillEnter(d)
      BY <3>1 DEF WillEnter
    <3>3. WillEnter(d) => user[d].o \in 1..Len(conn)
      BY DEF WillEnter, RpcInv, ClientsInv, UsersAreTrue, UserIsTrue
    <3>4. QED
      BY <1>8, <1>17, <3>1, <3>2, <3>3, CallerLasts
  <2>2. CallerEnters(c)'
    BY <1>7 DEF CallerEnters, WillEnter
  <2>3. QED
    BY <2>1, <2>2 DEF CallersEnter
<1>20. QED
  BY <1>1, <1>7, <1>9, <1>10, <1>11, <1>12, <1>13, <1>14, <1>15, <1>16, <1>18, <1>19, MovingStep

\* The buffers are as they were, and nothing is entered.
LEMMA BuffersLast ==
  ASSUME RpcInv, ClientTypes', Grows, NothingEnters,
         \A o \in 1..Len(conn) : before'[o] = before[o] /\ chain'[o] = chain[o]
  PROVE  \A o \in 1..Len(conn) : BufferIsTrue(o)'
<1>1. \A j : NotEntered(j) => NotEntered(j)'
  BY StillNotEntered
<1>2. ASSUME NEW o \in 1..Len(conn) PROVE BufferIsTrue(o)'
  BY <1>1, BufferLasts
<1>3. QED
  BY <1>2

LEMMA CallersLast ==
  ASSUME RpcInv, NothingEnters, NEW c \in Caller,
         \A d \in Caller : d # c => user'[d] = user[d],
         \A o \in 1..Len(conn) : before'[o] = before[o],
         WillEnter(c)' => WillEnter(c) /\ user'[c].o = user[c].o /\ user'[c].id = user[c].id
  PROVE  CallersEnter'
<1>1. \A j : NotEntered(j) => NotEntered(j)'
  BY StillNotEntered
<1>2. ASSUME NEW d \in Caller,
             WillEnter(d)' => WillEnter(d) /\ user'[d].o = user[d].o /\ user'[d].id = user[d].id
      PROVE  CallerEnters(d)'
  <2>1. CASE ~WillEnter(d)'
    BY <2>1 DEF CallerEnters
  <2>2. CASE WillEnter(d)'
    <3>1. user[d].o \in 1..Len(conn)
      BY <1>2, <2>2 DEF WillEnter, RpcInv, ClientsInv, UsersAreTrue, UserIsTrue
    <3>2. PICK j : j = user[d].id
      OBVIOUS
    <3>3. NotEntered(j) => NotEntered(j)'
      BY <1>1
    <3>4. user'[d].id = j
      BY <1>2, <2>2, <3>2
    <3>5. NotEntered(user[d].id) => NotEntered(user[d].id)'
      BY <3>2, <3>3, <3>4 DEF NotEntered, LastHeard
    <3>6. QED
      BY <1>2, <2>2, <3>1, <3>5, CallerLasts
  <2>3. QED
    BY <2>1, <2>2
<1>3. ASSUME NEW d \in Caller, d # c PROVE CallerEnters(d)'
  <2>1. user'[d] = user[d]
    BY <1>3
  <2>2. WillEnter(d)' => WillEnter(d)
    BY <2>1 DEF WillEnter
  <2>3. QED
    BY <1>2, <2>1, <2>2
<1>4. QED
  BY <1>2, <1>3 DEF CallersEnter

\* The locator's object is let go after a write that failed.
LEMMA WriteFailedStep ==
  ASSUME RpcInv, NEW c \in Caller, WebWriteFailed(c)
  PROVE  RpcInv'
<1>1. UNCHANGED <<conn, asker, heard, evicted, belated, before, secure, ended, chain, sess, server,
                  lost>>
  BY DEF WebWriteFailed, linkVars, webRpcVars
<1>2. /\ user[c].at = "failing" /\ Numbered(c) /\ ~ended /\ cur' = 0
      /\ raced' = (raced \/ (cur # 0 /\ cur # user[c].o))
  BY DEF WebWriteFailed, Numbered, ErasesLocator
<1>3. Moves(c) /\ user'[c].at = "ready" /\ user'[c].id = user[c].id
  BY <1>2, MovingOn DEF WebWriteFailed
<1>4. /\ Len(conn) \in Nat /\ Len(asker) \in Nat /\ raced \in BOOLEAN /\ cur \in 0..Len(conn)
      /\ lost \subseteq Id
  BY DEF RpcInv, ClientTypes, ServerTypes
<1>5. ClientTypes'
  <2>1. cur' \in 0..Len(conn) /\ raced' \in BOOLEAN
    BY <1>2, <1>4
  <2>2. QED
    BY <1>1, <1>3, <2>1 DEF RpcInv, ClientTypes, Moves
<1>6. Grows
  BY <1>1, <1>4, CallsGrow
<1>7. SessionsAreTrue' /\ ServerTypes' /\ ServersAreTrue'
  BY <1>1, <1>4, <1>5, <1>6, LinksLast
<1>8. LinkTypes' /\ ChainsAreTrue'
  BY <1>1, ChainsLast DEF RpcInv, LinkTypes
<1>9. UsersAreTrue'
  <2>1. ~Asks(c)' /\ user'[c].at \notin {"writing", "failing"}
    BY <1>3 DEF Asks
  <2>2. QED
    BY <1>3, <1>5, <1>6, <2>1, MovesUsers
<1>10. PlacesAreTrue'
  <2> SUFFICES ASSUME ~raced', NEW o \in 1..Len(conn) PROVE Cut(o)' \/ Deserted(o)'
    BY <1>1, <1>2 DEF PlacesAreTrue
  <2>1. ~raced /\ (cur = 0 \/ cur = user[c].o)
    BY <1>2, <1>4
  <2>2. o # cur => Cut(o) \/ Deserted(o)
    BY <1>2, <2>1 DEF RpcInv, ClientsInv, PlacesAreTrue
  <2>3. Cut(user[c].o)
    BY <1>2 DEF RpcInv, ClientsInv, UsersAreTrue, UserIsTrue
  <2>4. Cut(o) => Cut(o)'
    BY <1>1 DEF Cut
  <2>5. Deserted(o) => Deserted(o)'
    BY <1>1, <1>3 DEF Deserted, Moves
  <2>6. CASE o = cur
    <3>1. user[c].o = o
      BY <1>4, <2>1, <2>6
    <3>2. QED
      BY <2>3, <2>4, <3>1
  <2>7. QED
    BY <2>2, <2>4, <2>5, <2>6
<1>11. NothingEnters
  BY <1>1 DEF NothingEnters
<1>12. BuffersAreTrue'
  BY <1>1, <1>5, <1>6, <1>11, BuffersLast DEF BuffersAreTrue
<1>13. CallersEnter'
  <2>1. ~WillEnter(c)'
    BY <1>3 DEF WillEnter
  <2>2. QED
    BY <1>1, <1>3, <1>11, <2>1, CallersLast DEF Moves
<1>14. raced => raced'
  BY <1>2
<1>15. QED
  BY <1>1, <1>3, <1>4, <1>5, <1>6, <1>7, <1>8, <1>9, <1>10, <1>12, <1>13, <1>14, MovingStep

\* A caller that has left goes, or one is refused.
LEMMA GoingStep ==
  ASSUME RpcInv, NEW c \in Caller, NEW u \in Using, user' = [user EXCEPT ![c] = u],
         u.at \in {"out", "refused"},
         user[c].at = "out" \/ (user[c].at = "ready" /\ user[c].left),
         UNCHANGED <<conn, cur, asker, heard, evicted, raced, belated, before, secure, ended, chain,
                     sess, server, lost>>
  PROVE  RpcInv'
<1>1. /\ user' \in [Caller -> Using] /\ user'[c] = u
      /\ \A d \in Caller : d # c => user'[d] = user[d]
  <2>1. user \in [Caller -> Using]
    BY DEF RpcInv, ClientTypes
  <2>2. QED
    BY <2>1
<1>2. ClientTypes'
  BY <1>1 DEF RpcInv, ClientTypes
<1>3. Grows
  <2>1. Len(asker) \in Nat
    BY DEF RpcInv, ClientTypes
  <2>2. QED
    BY <2>1, CallsGrow
<1>4. SessionsAreTrue' /\ ServerTypes' /\ ServersAreTrue'
  BY <1>2, <1>3, LinksLast DEF RpcInv, ServerTypes
<1>5. LinkTypes' /\ ChainsAreTrue'
  BY ChainsLast DEF RpcInv, LinkTypes
<1>6. ~Numbered(c)' /\ ~Asks(c)' /\ ~WillEnter(c)' /\ user'[c].at # "adding"
  BY <1>1 DEF Numbered, Asks, WillEnter
<1>7. UsersAreTrue'
  <2>1. UserIsTrue(c)'
    BY <1>1, <1>6 DEF UserIsTrue
  <2>2. QED
    BY <1>1, <1>2, <1>3, <2>1, UsersLast DEF UsersAreTrue
<1>8. ClientsAreTrue' /\ TablesAreTrue' /\ AllHeardIsTrue' /\ NothingEnters
  BY <1>2, <1>3, StillTables
<1>9. AskersAreTrue'
  BY <1>2, <1>3, AskersLast DEF AskersAreTrue
<1>10. PlacesAreTrue'
  <2>1. ASSUME NEW q, NEW o, q[2] \in Caller, IsItself(q, o) PROVE IsItself(q, o)'
    <3>1. q[2] # c
      BY <2>1 DEF IsItself, Numbered
    <3>2. QED
      BY <1>1, <2>1, <3>1 DEF IsItself, Numbered
  <2>2. \A o : Deserted(o) => Deserted(o)'
    BY <1>1, <1>6 DEF Deserted
  <2>3. \A o : Cut(o) => Cut(o)'
    BY DEF Cut
  <2>4. cur # 0 => \A q \in conn[cur].clients : q[2] \in Caller
    <3>1. cur # 0 => cur \in 1..Len(conn)
      BY DEF RpcInv, ClientTypes
    <3>2. \A o \in 1..Len(conn) : conn[o].clients \subseteq Nat \X Caller
      BY Counters DEF RpcInv, Connection
    <3>3. QED
      BY <3>1, <3>2
  <2> SUFFICES ASSUME ~raced, ~ended
               PROVE  /\ cur # 0 => \A q \in conn[cur].clients : IsItself(q, cur)'
                      /\ \A o \in 1..Len(conn) : o # cur => Cut(o)' \/ Deserted(o)'
    BY DEF PlacesAreTrue, IsItself, Numbered
  <2>5. /\ cur # 0 => \A q \in conn[cur].clients : IsItself(q, cur)
        /\ \A o \in 1..Len(conn) : o # cur => Cut(o) \/ Deserted(o)
    BY DEF RpcInv, ClientsInv, PlacesAreTrue
  <2>6. QED
    BY <2>1, <2>2, <2>3, <2>4, <2>5
<1>11. BuffersAreTrue'
  BY <1>2, <1>3, <1>8, BuffersLast DEF BuffersAreTrue
<1>12. CallersEnter'
  BY <1>1, <1>6, <1>8, CallersLast
<1>13. QED
  BY <1>2, <1>4, <1>5, <1>7, <1>8, <1>9, <1>10, <1>11, <1>12 DEF RpcInv, ClientsInv

LEMMA LeavesStep ==
  ASSUME RpcInv, NEW c \in Caller, Leaves(c)
  PROVE  RpcInv'
<1>1. UNCHANGED <<conn, cur, asker, heard, evicted, raced, belated, before, secure, ended, chain,
                  sess, server, lost>>
  BY DEF Leaves, undefVars, linkVars, webRpcVars
<1>2. PICK u : u = [user[c] EXCEPT !.at = "out", !.o = 0]
  OBVIOUS
<1>3. user \in [Caller -> Using]
  BY DEF RpcInv, ClientTypes
<1>4. u \in Using /\ u.at = "out"
  BY <1>2, <1>3 DEF Using, WebUserAt
<1>5. user' = [user EXCEPT ![c] = u]
  BY <1>2, <1>3 DEF Leaves
<1>6. user[c].at = "ready" /\ user[c].left
  BY DEF Leaves
<1>7. QED
  BY <1>1, <1>4, <1>5, <1>6, GoingStep

\* A caller finds the locator's object.
LEMMA FoundStep ==
  ASSUME RpcInv, NEW c \in Caller, cur # 0, user[c].at = "out", NEW u \in Using,
         user' = [user EXCEPT ![c] = u], u.at = "adding", u.o = cur,
         UNCHANGED <<conn, cur, asker, heard, evicted, raced, belated, before, secure, ended, chain,
                     sess, server, lost>>
  PROVE  RpcInv'
<1>1. /\ user' \in [Caller -> Using] /\ user'[c] = u
      /\ \A d \in Caller : d # c => user'[d] = user[d]
  <2>1. user \in [Caller -> Using]
    BY DEF RpcInv, ClientTypes
  <2>2. QED
    BY <2>1
<1>2. ClientTypes'
  BY <1>1 DEF RpcInv, ClientTypes
<1>3. Grows
  <2>1. Len(asker) \in Nat
    BY DEF RpcInv, ClientTypes
  <2>2. QED
    BY <2>1, CallsGrow
<1>4. SessionsAreTrue' /\ ServerTypes' /\ ServersAreTrue'
  BY <1>2, <1>3, LinksLast DEF RpcInv, ServerTypes
<1>5. LinkTypes' /\ ChainsAreTrue'
  BY ChainsLast DEF RpcInv, LinkTypes
<1>6. ~Numbered(c)' /\ ~Asks(c)' /\ ~WillEnter(c)' /\ user'[c].at = "adding" /\ user'[c].o = cur
  BY <1>1 DEF Numbered, Asks, WillEnter
<1>7. UsersAreTrue'
  <2>1. cur \in 1..Len(conn)
    BY DEF RpcInv, ClientTypes
  <2>2. UserIsTrue(c)'
    BY <1>6, <2>1 DEF UserIsTrue
  <2>3. QED
    BY <1>1, <1>2, <1>3, <2>2, UsersLast DEF UsersAreTrue
<1>8. ClientsAreTrue' /\ TablesAreTrue' /\ AllHeardIsTrue' /\ NothingEnters
  BY <1>2, <1>3, StillTables
<1>9. AskersAreTrue'
  BY <1>2, <1>3, AskersLast DEF AskersAreTrue
<1>10. PlacesAreTrue'
  <2>1. ASSUME NEW q, NEW o, q[2] \in Caller, IsItself(q, o) PROVE IsItself(q, o)'
    <3>1. q[2] # c
      BY <2>1 DEF IsItself, Numbered
    <3>2. QED
      BY <1>1, <2>1, <3>1 DEF IsItself, Numbered
  <2>2. \A o : o # cur /\ Deserted(o) => Deserted(o)'
    BY <1>1, <1>6 DEF Deserted
  <2>3. \A o : Cut(o) => Cut(o)'
    BY DEF Cut
  <2>4. \A q \in conn[cur].clients : q[2] \in Caller
    <3>1. cur \in 1..Len(conn)
      BY DEF RpcInv, ClientTypes
    <3>2. \A o \in 1..Len(conn) : conn[o].clients \subseteq Nat \X Caller
      BY Counters DEF RpcInv, Connection
    <3>3. QED
      BY <3>1, <3>2
  <2> SUFFICES ASSUME ~raced, ~ended
               PROVE  /\ \A q \in conn[cur].clients : IsItself(q, cur)'
                      /\ \A o \in 1..Len(conn) : o # cur => Cut(o)' \/ Deserted(o)'
    BY DEF PlacesAreTrue, IsItself, Numbered
  <2>5. /\ \A q \in conn[cur].clients : IsItself(q, cur)
        /\ \A o \in 1..Len(conn) : o # cur => Cut(o) \/ Deserted(o)
    BY DEF RpcInv, ClientsInv, PlacesAreTrue
  <2>6. QED
    BY <2>1, <2>2, <2>3, <2>4, <2>5
<1>11. BuffersAreTrue'
  BY <1>2, <1>3, <1>8, BuffersLast DEF BuffersAreTrue
<1>12. CallersEnter'
  BY <1>1, <1>6, <1>8, CallersLast
<1>13. QED
  BY <1>2, <1>4, <1>5, <1>7, <1>8, <1>9, <1>10, <1>11, <1>12 DEF RpcInv, ClientsInv

LEMMA NewOnes ==
  /\ NewConnection("up") \in Connection /\ Resolving \in Chain /\ NewBefore \in Buffer
  /\ NewConnection("up").counter = 0 /\ NewConnection("up").clients = {}
  /\ NewConnection("up").table = {} /\ NewConnection("up").index = {}
  /\ NewConnection("up").alive /\ Resolving.s = 0 /\ Resolving.at = "resolving"
  /\ ~NewBefore.ready /\ NewBefore.wait = <<>> /\ NewBefore.copy = <<>>
<1>1. <<>> \in Seq(Reply) /\ <<>> \in Seq(Nat \X Id)
  OBVIOUS
<1>2. NewConnection("up") \in Connection
  BY <1>1 DEF NewConnection, Connection
<1>3. Resolving \in Chain /\ NewBefore \in Buffer
  BY <1>1 DEF Resolving, Chain, ChainAt, NewBefore, Buffer
<1>4. QED
  BY <1>2, <1>3 DEF NewConnection, Resolving, NewBefore

\* A caller makes the locator's object.
LEMMA MadeStep ==
  ASSUME RpcInv, NEW c \in Caller, cur = 0, user[c].at = "out", NEW u \in Using,
         user' = [user EXCEPT ![c] = u], u.at = "adding", u.o = Len(conn) + 1,
         conn' = Append(conn, NewConnection("up")), chain' = Append(chain, Resolving),
         before' = Append(before, NewBefore), cur' = Len(conn) + 1,
         UNCHANGED <<asker, heard, evicted, raced, belated, secure, ended, sess, server, lost>>
  PROVE  RpcInv'
<1>0. PICK z : z = Len(conn) + 1
  OBVIOUS
<1>1. /\ user' \in [Caller -> Using] /\ user'[c] = u
      /\ \A d \in Caller : d # c => user'[d] = user[d]
  <2>1. user \in [Caller -> Using]
    BY DEF RpcInv, ClientTypes
  <2>2. QED
    BY <2>1
<1>2. /\ conn \in Seq(Connection) /\ chain \in Seq(Chain) /\ before \in Seq(Buffer)
      /\ Len(conn) \in Nat /\ Len(chain) = Len(conn) /\ Len(before) = Len(conn)
      /\ Len(asker) \in Nat /\ Len(sess) \in Nat
  BY DEF RpcInv, ClientTypes, LinkTypes
<1>3. /\ conn' \in Seq(Connection) /\ Len(conn') = z
      /\ conn'[z] = NewConnection("up") /\ \A o \in 1..Len(conn) : conn'[o] = conn[o]
  BY <1>0, <1>2, NewOnes, Added
<1>4. /\ chain' \in Seq(Chain) /\ Len(chain') = z
      /\ chain'[z] = Resolving /\ \A o \in 1..Len(conn) : chain'[o] = chain[o]
  BY <1>0, <1>2, NewOnes, Added
<1>5. /\ before' \in Seq(Buffer) /\ Len(before') = z
      /\ before'[z] = NewBefore /\ \A o \in 1..Len(conn) : before'[o] = before[o]
  BY <1>0, <1>2, NewOnes, Added
<1>6. /\ \A o \in 1..Len(conn') : o \in 1..Len(conn) \/ o = z
      /\ z \in 1..Len(conn') /\ z \in Nat /\ z # 0 /\ z \notin 1..Len(conn)
      /\ \A o \in 1..Len(conn) : o # z /\ o \in 1..Len(conn')
  BY <1>0, <1>2, <1>3
<1>7. ClientTypes'
  <2>1. cur' \in 0..Len(conn')
    BY <1>0, <1>6, <1>3
  <2>2. QED
    BY <1>1, <1>3, <1>5, <2>1 DEF RpcInv, ClientTypes
<1>8. LinkTypes'
  BY <1>3, <1>4 DEF RpcInv, LinkTypes
<1>9. Grows
  <2>1. Len(conn) <= Len(conn') /\ Len(asker) <= Len(asker')
    BY <1>0, <1>2, <1>3
  <2>2. \A o \in 1..Len(conn) : conn[o].counter <= conn'[o].counter
    <3>1. \A o \in 1..Len(conn) : conn[o].counter \in Nat
      BY Counters DEF RpcInv
    <3>2. QED
      BY <1>3, <3>1
  <2>3. \A o \in 1..Len(conn) : Cut(o) => Cut(o)'
    BY <1>4 DEF Cut
  <2>4. QED
    BY <1>3, <1>4, <2>1, <2>2, <2>3 DEF Grows
<1>10. ChainsAreTrue'
  <2>1. ASSUME NEW o \in 1..Len(conn) PROVE ChainIsTrue(o)'
    BY <1>4, <1>5 DEF RpcInv, ChainsAreTrue, ChainIsTrue
  <2>2. ChainIsTrue(z)'
    BY <1>2, <1>4, <1>5, NewOnes DEF ChainIsTrue
  <2>3. QED
    BY <1>6, <2>1, <2>2 DEF ChainsAreTrue
<1>11. SessionsAreTrue' /\ ServerTypes' /\ ServersAreTrue'
  BY <1>7, <1>9, LinksLast DEF RpcInv, ServerTypes
<1>12. ~Numbered(c)' /\ ~Asks(c)' /\ ~WillEnter(c)' /\ user'[c].at = "adding" /\ user'[c].o = z
  BY <1>0, <1>1 DEF Numbered, Asks, WillEnter
<1>13. UsersAreTrue'
  <2>1. UserIsTrue(c)'
    BY <1>6, <1>12 DEF UserIsTrue
  <2>2. QED
    BY <1>1, <1>7, <1>9, <2>1, UsersLast DEF UsersAreTrue
<1>14. ClientsAreTrue'
  <2>1. \A o \in 1..Len(conn) : ClientsOf(o)'
    BY <1>3 DEF RpcInv, ClientsInv, ClientsAreTrue, ClientsOf
  <2>2. ClientsOf(z)'
    BY <1>3, NewOnes DEF ClientsOf
  <2>3. QED
    BY <1>6, <2>1, <2>2 DEF ClientsAreTrue
<1>15. AskersAreTrue'
  BY <1>7, <1>9, AskersLast DEF AskersAreTrue
<1>16. TablesAreTrue'
  <2>1. ASSUME NEW o \in 1..Len(conn) PROVE TableIsTrue(o)'
    <3>1. conn'[o] = conn[o] /\ TableIsTrue(o)
      BY <1>3 DEF RpcInv, ClientsInv, TablesAreTrue
    <3>2. \A j, m : MadeOn(j, m) => MadeOn(j, m)'
      BY DEF MadeOn
    <3>3. QED
      BY <3>1, <3>2 DEF TableIsTrue
  <2>2. TableIsTrue(z)'
    BY <1>3, NewOnes DEF TableIsTrue, Mirror
  <2>3. QED
    BY <1>6, <2>1, <2>2 DEF TablesAreTrue
<1>17. NothingEnters
  BY <1>3, <1>6, NewOnes DEF NothingEnters
<1>18. AllHeardIsTrue'
  BY <1>7, <1>9, <1>17, HeardLasts DEF NothingEnters
<1>19. BuffersAreTrue'
  <2>1. \A o \in 1..Len(conn) : BufferIsTrue(o)'
    BY <1>4, <1>5, <1>7, <1>9, <1>17, BuffersLast
  <2>2. BufferIsTrue(z)'
    BY <1>5, NewOnes DEF BufferIsTrue
  <2>3. QED
    BY <1>6, <2>1, <2>2 DEF BuffersAreTrue
<1>20. CallersEnter'
  BY <1>1, <1>5, <1>12, <1>17, CallersLast
<1>21. PlacesAreTrue'
  <2> SUFFICES ASSUME ~raced, ~ended
               PROVE  /\ \A q \in conn'[z].clients : IsItself(q, z)'
                      /\ \A o \in 1..Len(conn') : o # z => Cut(o)' \/ Deserted(o)'
    BY <1>0 DEF PlacesAreTrue, IsItself, Numbered
  <2>1. conn'[z].clients = {}
    BY <1>3, NewOnes
  <2>2. ASSUME NEW o \in 1..Len(conn') , o # z PROVE Cut(o)' \/ Deserted(o)'
    <3>1. o \in 1..Len(conn)
      BY <1>6, <2>2
    <3>2. o # cur
      BY <1>2, <3>1
    <3>3. Cut(o) \/ Deserted(o)
      BY <3>1, <3>2 DEF RpcInv, ClientsInv, PlacesAreTrue
    <3>4. Deserted(o) => Deserted(o)'
      BY <1>1, <1>3, <1>12, <2>2, <3>1 DEF Deserted
    <3>5. QED
      BY <1>9, <3>1, <3>3, <3>4 DEF Grows
  <2>3. QED
    BY <2>1, <2>2
<1>22. QED
  BY <1>7, <1>8, <1>10, <1>11, <1>13, <1>14, <1>15, <1>16, <1>18, <1>19, <1>20, <1>21
     DEF RpcInv, ClientsInv

\* The object of the locator is found or made, or there can be none.
LEMMA SetRpcClientStep ==
  ASSUME RpcInv, NEW c \in Caller, WebSetRpcClient(c)
  PROVE  RpcInv'
<1>1. UNCHANGED <<asker, heard, evicted, raced, belated, secure, ended, sess, server, lost>>
  BY DEF WebSetRpcClient, undefVars
<1>2. user \in [Caller -> Using] /\ user[c].at = "out" /\ cur \in Nat /\ Len(conn) \in Nat
  BY DEF RpcInv, ClientTypes, WebSetRpcClient
<1>3. CASE cur # 0 /\ user' = [user EXCEPT ![c].at = "adding", ![c].o = cur]
           /\ UNCHANGED <<conn, cur, chain, before, faults>>
  <2>1. PICK u : u = [user[c] EXCEPT !.at = "adding", !.o = cur]
    OBVIOUS
  <2>2. u \in Using /\ u.at = "adding" /\ u.o = cur
    BY <1>2, <2>1 DEF Using, WebUserAt
  <2>3. user' = [user EXCEPT ![c] = u]
    BY <1>2, <1>3, <2>1
  <2>4. QED
    BY <1>1, <1>2, <1>3, <2>2, <2>3, FoundStep
<1>4. CASE /\ cur = 0
           /\ conn' = Append(conn, NewConnection("up")) /\ chain' = Append(chain, Resolving)
           /\ before' = Append(before, NewBefore) /\ cur' = Len(conn) + 1
           /\ user' = [user EXCEPT ![c].at = "adding", ![c].o = cur']
  <2>0. PICK z \in Nat : z = Len(conn) + 1
    BY <1>2
  <2>1. PICK u : u = [user[c] EXCEPT !.at = "adding", !.o = z]
    OBVIOUS
  <2>2. u \in Using /\ u.at = "adding" /\ u.o = z
    BY <1>2, <2>1 DEF Using, WebUserAt
  <2>3. user' = [user EXCEPT ![c] = u]
    BY <1>2, <1>4, <2>0, <2>1
  <2>4. u.o = Len(conn) + 1 /\ u.at = "adding" /\ user[c].at = "out" /\ cur = 0
        /\ cur' = Len(conn) + 1
    BY <1>2, <1>4, <2>0, <2>2
  <2>5. /\ conn' = Append(conn, NewConnection("up")) /\ chain' = Append(chain, Resolving)
        /\ before' = Append(before, NewBefore)
    BY <1>4
  <2>6. QED
    BY <1>1, <2>2, <2>3, <2>4, <2>5, MadeStep
<1>5. CASE user' = [user EXCEPT ![c].at = "refused"] /\ UNCHANGED <<conn, cur, chain, before>>
  <2>1. PICK u : u = [user[c] EXCEPT !.at = "refused"]
    OBVIOUS
  <2>2. u \in Using /\ u.at = "refused"
    BY <1>2, <2>1 DEF Using, WebUserAt
  <2>3. user' = [user EXCEPT ![c] = u]
    BY <1>2, <1>5, <2>1
  <2>4. QED
    BY <1>1, <1>2, <1>5, <2>2, <2>3, GoingStep
<1>6. QED
  BY <1>3, <1>4, <1>5 DEF WebSetRpcClient

\* The client has a number of the object that its caller points to.
LEMMA AddRpcClientStep ==
  ASSUME RpcInv, NEW c \in Caller, WebAddRpcClient(c)
  PROVE  RpcInv'
<1>0. PICK o, n : o = user[c].o /\ n = conn[o].counter + 1
  OBVIOUS
<1>1. /\ user \in [Caller -> Using] /\ user[c].at = "adding" /\ UserIsTrue(c)
      /\ conn \in Seq(Connection) /\ Len(conn) \in Nat /\ Len(asker) \in Nat
  BY DEF RpcInv, ClientTypes, ClientsInv, UsersAreTrue, WebAddRpcClient, TakeNumber
<1>2. o \in 1..Len(conn) /\ conn[o] \in Connection /\ conn[o].counter \in Nat /\ ClientsOf(o)
  <2>1. o \in 1..Len(conn)
    BY <1>0, <1>1 DEF UserIsTrue
  <2>2. QED
    BY <2>1, Counters DEF RpcInv, ClientsInv, ClientsAreTrue
<1>3. n \in Nat /\ n \in 1..n /\ conn[o].counter < n /\ conn[o].counter <= n
      /\ \A m \in 1..conn[o].counter : m # n /\ m \in 1..n
  BY <1>0, <1>2
<1>4. /\ conn' = [conn EXCEPT ![o].counter = n, ![o].clients = @ \cup {<<n, c>>}]
      /\ user' = [user EXCEPT ![c].at = "ready", ![c].num = n, ![c].left = FALSE]
      /\ UNCHANGED <<cur, asker, heard, evicted, raced, belated, before, secure, ended, chain, sess,
                     server, lost>>
  BY <1>0, <1>2 DEF WebAddRpcClient, TakeNumber, ClientsOf, undefVars, linkVars, webRpcVars
<1>5. PICK u : u = [user[c] EXCEPT !.at = "ready", !.num = n, !.left = FALSE]
  OBVIOUS
<1>6. u \in Using /\ u.at = "ready" /\ u.num = n /\ ~u.left /\ u.o = o
  BY <1>0, <1>1, <1>3, <1>5 DEF Using, WebUserAt
<1>7. /\ user' \in [Caller -> Using] /\ user'[c] = u
      /\ \A d \in Caller : d # c => user'[d] = user[d]
  <2>1. user' = [user EXCEPT ![c] = u]
    BY <1>1, <1>4, <1>5
  <2>2. QED
    BY <1>1, <1>6, <2>1
<1>8. PICK x : x = [conn[o] EXCEPT !.counter = n, !.clients = @ \cup {<<n, c>>}]
  OBVIOUS
<1>9. /\ x \in Connection /\ x.counter = n /\ x.clients = conn[o].clients \cup {<<n, c>>}
      /\ x.alive = conn[o].alive /\ x.table = conn[o].table /\ x.index = conn[o].index
  <2>1. conn[o].clients \cup {<<n, c>>} \in SUBSET (Nat \X Caller)
    BY <1>2, <1>3 DEF Connection
  <2>2. QED
    BY <1>2, <1>3, <1>8, <2>1 DEF Connection
<1>10. conn' = [conn EXCEPT ![o] = x]
  BY <1>4, <1>8
<1>11. /\ conn' \in Seq(Connection) /\ Len(conn') = Len(conn) /\ conn'[o] = x
       /\ \A m \in 1..Len(conn) : m # o => conn'[m] = conn[m]
  BY <1>1, <1>2, <1>9, <1>10, Changed
<1>12. /\ conn'[o].clients = conn[o].clients \cup {<<n, c>>} /\ conn'[o].counter = n
       /\ \A m \in 1..Len(conn) : /\ conn'[m].alive = conn[m].alive
                                  /\ conn'[m].table = conn[m].table
                                  /\ conn'[m].index = conn[m].index
                                  /\ m # o => /\ conn'[m].clients = conn[m].clients
                                              /\ conn'[m].counter = conn[m].counter
                                  /\ conn[m].clients \subseteq conn'[m].clients
  BY <1>9, <1>11
<1>13. \A q \in conn'[o].clients : q \in conn[o].clients \/ (q[1] = n /\ q[2] = c)
  BY <1>12
<1>14. ClientTypes'
  BY <1>4, <1>7, <1>11 DEF RpcInv, ClientTypes
<1>15. Grows
  <2>1. Len(conn) <= Len(conn') /\ Len(asker) <= Len(asker')
    BY <1>1, <1>4, <1>11
  <2>2. ASSUME NEW m \in 1..Len(conn)
        PROVE  /\ conn[m].counter <= conn'[m].counter
               /\ \A q \in conn'[m].clients : q \in conn[m].clients \/ conn[m].counter < q[1]
    <3>1. conn[m].counter \in Nat
      BY Counters DEF RpcInv
    <3>2. CASE m = o
      BY <1>3, <1>12, <1>13, <3>2
    <3>3. CASE m # o
      BY <1>12, <3>1, <3>3
    <3>4. QED
      BY <3>2, <3>3
  <2>3. \A m : Cut(m) => Cut(m)'
    BY <1>4 DEF Cut
  <2>4. QED
    BY <1>4, <2>1, <2>2, <2>3 DEF Grows
<1>16. LinkTypes' /\ ChainsAreTrue'
  BY <1>4, <1>11, ChainsLast DEF RpcInv, LinkTypes
<1>17. SessionsAreTrue' /\ ServerTypes' /\ ServersAreTrue'
  BY <1>4, <1>14, <1>15, LinksLast DEF RpcInv, ServerTypes
<1>18. user'[c].at = "ready" /\ user'[c].num = n /\ user'[c].o = o /\ ~user'[c].left
  BY <1>6, <1>7
<1>19. UsersAreTrue'
  <2>1. \A q \in conn[o].clients : q[1] # n
    BY <1>2, <1>3 DEF ClientsOf
  <2>2. UserIsTrue(c)'
    BY <1>2, <1>3, <1>11, <1>12, <1>13, <1>18, <2>1 DEF UserIsTrue, Asks
  <2>3. QED
    BY <1>7, <1>14, <1>15, <2>2, UsersLast DEF UsersAreTrue
<1>20. ClientsAreTrue'
  <2>1. ASSUME NEW m \in 1..Len(conn) PROVE ClientsOf(m)'
    <3>1. ClientsOf(m)
      BY DEF RpcInv, ClientsInv, ClientsAreTrue
    <3>2. CASE m # o
      BY <1>12, <3>1, <3>2 DEF ClientsOf
    <3>3. CASE m = o
      <4>1. \A q \in conn'[o].clients : q \in conn[o].clients \/ q = <<n, c>>
        BY <1>12
      <4>2. \A q \in conn[o].clients : q[1] # n /\ q[1] \in 1..n
        BY <1>2, <1>3 DEF ClientsOf
      <4>3. \A q \in conn'[o].clients : q[1] \in 1..n
        BY <1>3, <1>13, <4>2
      <4>4. \A p, q \in conn'[o].clients : p[1] = q[1] => p = q
        <5>1. <<n, c>>[1] = n
          OBVIOUS
        <5>2. QED
          BY <1>2, <4>1, <4>2, <5>1 DEF ClientsOf
      <4>5. QED
        BY <1>12, <3>1, <3>3, <4>3, <4>4 DEF ClientsOf
    <3>4. QED
      BY <3>2, <3>3
  <2>2. QED
    BY <1>11, <2>1 DEF ClientsAreTrue
<1>21. AskersAreTrue'
  BY <1>4, <1>14, <1>15, AskersLast DEF AskersAreTrue
<1>22. TablesAreTrue'
  <2>1. ASSUME NEW m \in 1..Len(conn) PROVE TableIsTrue(m)'
    <3>1. TableIsTrue(m)
      BY DEF RpcInv, ClientsInv, TablesAreTrue
    <3>2. \A j : MadeOn(j, m) => MadeOn(j, m)'
      BY <1>4 DEF MadeOn
    <3>3. QED
      BY <1>4, <1>12, <3>1, <3>2 DEF TableIsTrue
  <2>2. QED
    BY <1>11, <2>1 DEF TablesAreTrue
<1>23. NothingEnters
  BY <1>4, <1>11, <1>12 DEF NothingEnters
<1>24. AllHeardIsTrue'
  BY <1>4, <1>14, <1>15, <1>23, HeardLasts DEF NothingEnters
<1>25. BuffersAreTrue'
  BY <1>4, <1>11, <1>14, <1>15, <1>23, BuffersLast DEF BuffersAreTrue
<1>26. CallersEnter'
  <2>1. ~WillEnter(c)'
    BY <1>18 DEF WillEnter
  <2>2. QED
    BY <1>4, <1>7, <1>23, <2>1, CallersLast
<1>27. PlacesAreTrue'
  <2>1. ASSUME NEW q, NEW m, q[2] \in Caller, IsItself(q, m) PROVE IsItself(q, m)'
    <3>1. q[2] # c
      BY <1>1, <2>1 DEF IsItself, Numbered
    <3>2. QED
      BY <1>7, <2>1, <3>1 DEF IsItself, Numbered
  <2>2. ASSUME NEW m \in 1..Len(conn), Deserted(m) PROVE Deserted(m)'
    <3>1. m # o
      BY <1>0, <1>1, <2>2 DEF Deserted
    <3>2. QED
      BY <1>7, <1>12, <1>18, <2>2, <3>1 DEF Deserted
  <2>3. \A m : Cut(m) => Cut(m)'
    BY <1>4 DEF Cut
  <2>4. \A m \in 1..Len(conn) : \A q \in conn[m].clients : q[2] \in Caller
    <3>1. \A m \in 1..Len(conn) : conn[m].clients \subseteq Nat \X Caller
      BY Counters DEF RpcInv, Connection
    <3>2. QED
      BY <3>1
  <2> SUFFICES ASSUME ~raced, ~ended
               PROVE  /\ cur # 0 => \A q \in conn'[cur].clients : IsItself(q, cur)'
                      /\ \A m \in 1..Len(conn) : m # cur => Cut(m)' \/ Deserted(m)'
    BY <1>4, <1>11 DEF PlacesAreTrue, IsItself, Numbered
  <2>5. /\ cur # 0 => \A q \in conn[cur].clients : IsItself(q, cur)
        /\ \A m \in 1..Len(conn) : m # cur => Cut(m) \/ Deserted(m)
    BY DEF RpcInv, ClientsInv, PlacesAreTrue
  <2>6. ASSUME cur # 0, NEW q \in conn'[cur].clients PROVE IsItself(q, cur)'
    <3>1. cur \in 1..Len(conn)
      BY <2>6 DEF RpcInv, ClientTypes
    <3>2. CASE q \in conn[cur].clients
      <4>1. PICK m : m = cur
        OBVIOUS
      <4>2. q[2] \in Caller /\ IsItself(q, m)
        BY <2>4, <2>5, <2>6, <3>1, <3>2, <4>1
      <4>3. IsItself(q, m)'
        BY <2>1, <4>2
      <4>4. cur' = m
        BY <1>4, <4>1
      <4>5. QED
        BY <4>3, <4>4, <4>1 DEF IsItself, Numbered
    <3>3. CASE q \notin conn[cur].clients
      <4>1. cur = o
        BY <1>12, <2>6, <3>1, <3>3
      <4>2. q[1] = n /\ q[2] = c
        BY <1>13, <2>6, <3>3, <4>1
      <4>3. Numbered(q[2])' /\ ~user'[q[2]].left /\ user'[q[2]].o = o /\ user'[q[2]].num = q[1]
        BY <1>18, <4>2 DEF Numbered
      <4>4. QED
        BY <1>4, <4>1, <4>3 DEF IsItself
    <3>4. QED
      BY <3>2, <3>3
  <2>7. QED
    BY <2>2, <2>3, <2>5, <2>6
<1>28. QED
  BY <1>14, <1>16, <1>17, <1>19, <1>20, <1>21, <1>22, <1>24, <1>25, <1>26, <1>27
     DEF RpcInv, ClientsInv

\* Object y is x without client n.
LeftBy(x, y, n) ==
  /\ y \in Connection /\ y.counter = x.counter /\ y.alive = x.alive
  /\ y.clients = {p \in x.clients : p[1] # n} /\ y.index = Mirror(y.table)
  /\ \A p \in y.table : p \in x.table /\ p[2] # n

\* What WithoutClient leaves of an object.
LEMMA WithoutGives ==
  ASSUME NEW x \in Connection, NEW n, NEW v, x.index = Mirror(x.table), OneNumber(x.table, v),
         NEW y, y = WithoutClient(x, n)
  PROVE  LeftBy(x, y, n)
<1>1. PICK T, D, U : T = x.table /\ D = x.index /\ U = TableWithout(T, D, n)
  OBVIOUS
<1>2. (\A p \in T : p \in U <=> p[2] # n) /\ Dropped(D, n) = Mirror(U)
  BY <1>1, MirrorWithout
<1>3. PICK clients, index : clients = {p \in x.clients : p[1] # n} /\ index = Dropped(D, n)
  OBVIOUS
<1>4. /\ clients \in SUBSET (Nat \X Caller) /\ index \in SUBSET (Nat \X Id)
      /\ U \in SUBSET (Id \X Nat) /\ \A p \in U : p \in T
  BY <1>1, <1>3 DEF Connection, TableWithout, Dropped
<1>5. y = [x EXCEPT !.clients = clients, !.table = U, !.index = index]
  BY <1>1, <1>3 DEF WithoutClient, TableWithout, Dropped
<1>6. /\ y \in Connection /\ y.counter = x.counter /\ y.alive = x.alive /\ y.clients = clients
      /\ y.index = index /\ y.table = U
  BY <1>4, <1>5 DEF Connection
<1>7. QED
  BY <1>1, <1>2, <1>3, <1>4, <1>6 DEF LeftBy

\* A client is removed, and the requests it waits for.
LEMMA RemoveRpcClientStep ==
  ASSUME RpcInv, NEW c \in Caller, WebRemoveRpcClient(c)
  PROVE  RpcInv'
<1>0. PICK n, z : n = user[c].num /\ z = cur
  OBVIOUS
<1>1. /\ user \in [Caller -> Using] /\ Numbered(c) /\ ~ended
      /\ conn \in Seq(Connection) /\ Len(conn) \in Nat /\ Len(asker) \in Nat
      /\ z \in 0..Len(conn) /\ raced \in BOOLEAN
  BY <1>0 DEF RpcInv, ClientTypes, WebRemoveRpcClient, Numbered
<1>2. UNCHANGED <<asker, heard, belated, before, secure, ended, chain, sess, server, lost>>
  BY DEF WebRemoveRpcClient, linkVars, webRpcVars
<1>3. PICK u : u = [user[c] EXCEPT !.left = TRUE]
  OBVIOUS
<1>4. /\ u \in Using /\ u.left /\ u.at = user[c].at /\ u.o = user[c].o /\ u.num = user[c].num
      /\ u.id = user[c].id
  BY <1>1, <1>3 DEF Using
<1>5. /\ user' \in [Caller -> Using] /\ user'[c] = u
      /\ \A d \in Caller : d # c => user'[d] = user[d]
  <2>1. user' = [user EXCEPT ![c] = u]
    BY <1>1, <1>3 DEF WebRemoveRpcClient
  <2>2. QED
    BY <1>1, <1>4, <2>1
<1>6. /\ conn' \in Seq(Connection) /\ Len(conn') = Len(conn)
      /\ \A m \in 1..Len(conn) :
           /\ conn'[m].counter = conn[m].counter /\ conn'[m].alive = conn[m].alive
           /\ conn'[m].clients = {q \in conn[m].clients : m # z \/ q[1] # n}
           /\ conn'[m].index = Mirror(conn'[m].table)
           /\ \A p \in conn'[m].table : p \in conn[m].table /\ (m # z \/ p[2] # n)
  <2>1. \A m \in 1..Len(conn) : conn[m] \in Connection /\ conn[m].index = Mirror(conn[m].table)
    BY Counters DEF RpcInv, ClientsInv, TablesAreTrue, TableIsTrue
  <2>2. CASE z = 0
    <3>1. conn' = conn
      BY <1>0, <2>2 DEF WebRemoveRpcClient
    <3>2. QED
      BY <1>1, <2>1, <2>2, <3>1
  <2>3. CASE z # 0
    <3>1. z \in 1..Len(conn)
      BY <1>1, <2>3
    <3>2. PICK y : y = WithoutClient(conn[z], n)
      OBVIOUS
    <3>3. conn' = [conn EXCEPT ![z] = y]
      BY <1>0, <2>3, <3>2 DEF WebRemoveRpcClient
    <3>4. OneNumber(conn[z].table, asker)
      BY <3>1 DEF OneNumber, RpcInv, ClientsInv, TablesAreTrue, TableIsTrue
    <3>5. /\ y \in Connection /\ y.counter = conn[z].counter /\ y.alive = conn[z].alive
          /\ y.clients = {p \in conn[z].clients : p[1] # n} /\ y.index = Mirror(y.table)
          /\ \A p \in y.table : p \in conn[z].table /\ p[2] # n
      <4>1. PICK x : x = conn[z]
        OBVIOUS
      <4>2. x \in Connection /\ x.index = Mirror(x.table)
        BY <2>1, <3>1, <4>1
      <4>3. OneNumber(x.table, asker)
        BY <3>4, <4>1
      <4>4. y = WithoutClient(x, n)
        BY <3>2, <4>1
      <4>5. PICK v : v = asker
        OBVIOUS
      <4>6. OneNumber(x.table, v)
        BY <4>3, <4>5
      <4>7. /\ y \in Connection /\ y.counter = x.counter /\ y.alive = x.alive
            /\ y.clients = {p \in x.clients : p[1] # n} /\ y.index = Mirror(y.table)
            /\ \A p \in y.table : p \in x.table /\ p[2] # n
        <5>1. LeftBy(x, y, n)
          BY <4>2, <4>4, <4>6, WithoutGives
        <5>2. QED
          BY <5>1 DEF LeftBy
      <4>8. QED
        BY <4>1, <4>7
    <3>6. /\ conn' \in Seq(Connection) /\ Len(conn') = Len(conn) /\ conn'[z] = y
          /\ \A m \in 1..Len(conn) : m # z => conn'[m] = conn[m]
      BY <1>1, <3>1, <3>3, <3>5, Changed
    <3>7. QED
      BY <2>1, <3>5, <3>6
  <2>4. QED
    BY <2>2, <2>3
<1>7. /\ cur' \in 0..Len(conn) /\ evicted' \subseteq Caller /\ raced' \in BOOLEAN
      /\ raced => raced'
      /\ z = 0 => cur' = 0
      /\ z # 0 => cur' = IF conn'[z].clients = {} THEN 0 ELSE z
      /\ z # 0 /\ conn'[z].clients = {} /\ ~raced' =>
           \A d \in Caller : ~(user[d].at = "adding" /\ user[d].o = z)
  <2>1. CASE z = 0
    BY <1>0, <1>1, <2>1 DEF WebRemoveRpcClient, RpcInv, ClientTypes
  <2>2. CASE z # 0
    <3>1. z \in 1..Len(conn)
      BY <1>1, <2>2
    <3>2. PICK y : y = WithoutClient(conn[z], n)
      OBVIOUS
    <3>3. /\ conn' = [conn EXCEPT ![z] = y]
          /\ raced' = (raced \/ (/\ y.clients = {}
                                 /\ \E d \in Caller : user[d].at = "adding" /\ user[d].o = z))
          /\ cur' = IF y.clients = {} THEN 0 ELSE z
          /\ evicted' = evicted \cup {d \in Caller \ {c} : <<n, d>> \in conn[z].clients}
      BY <1>0, <2>2, <3>2 DEF WebRemoveRpcClient
    <3>4. conn'[z] = y
      BY <1>1, <3>1, <3>3
    <3>5. evicted' \subseteq Caller
      BY <3>3 DEF RpcInv, ClientTypes
    <3>6. cur' \in 0..Len(conn)
      BY <1>1, <3>3
    <3>7. QED
      BY <1>1, <2>2, <3>3, <3>4, <3>5, <3>6
  <2>3. QED
    BY <2>1, <2>2
<1>8. ClientTypes'
  BY <1>2, <1>5, <1>6, <1>7 DEF RpcInv, ClientTypes
<1>9. Grows
  BY <1>1, <1>2, <1>6, CallsGrow
<1>10. LinkTypes' /\ ChainsAreTrue'
  BY <1>2, <1>6, ChainsLast DEF RpcInv, LinkTypes
<1>11. SessionsAreTrue' /\ ServerTypes' /\ ServersAreTrue'
  BY <1>2, <1>8, <1>9, LinksLast DEF RpcInv, ServerTypes
<1>12. UsersAreTrue'
  <2>1. UserIsTrue(c)
    BY DEF RpcInv, ClientsInv, UsersAreTrue
  <2>2. UserIsTrue(c)'
    <3>1. user[c].o \in 1..Len(conn)
      BY <1>1, <2>1 DEF UserIsTrue, Numbered
    <3>2. AsCaller(c)' = AsCaller(c) /\ (Asks(c)' <=> Asks(c)) /\ (Numbered(c)' <=> Numbered(c))
      BY <1>4, <1>5 DEF AsCaller, Asks, Numbered
    <3>3. Cut(user[c].o)' <=> Cut(user[c].o)
      BY <1>2, <1>4, <1>5 DEF Cut
    <3>4. \A q \in conn'[user[c].o].clients : q \in conn[user[c].o].clients
      BY <1>6, <3>1
    <3>5. conn'[user[c].o].counter = conn[user[c].o].counter
      BY <1>6, <3>1
    <3>6. /\ user'[c].at = user[c].at /\ user'[c].o = user[c].o /\ user'[c].num = user[c].num
          /\ user'[c].id = user[c].id
      BY <1>4, <1>5
    <3>7. QED
      BY <1>2, <1>6, <2>1, <3>1, <3>2, <3>3, <3>4, <3>5, <3>6 DEF UserIsTrue
  <2>3. QED
    BY <1>5, <1>8, <1>9, <2>2, UsersLast DEF UsersAreTrue
<1>13. ClientsAreTrue'
  <2>1. ASSUME NEW m \in 1..Len(conn) PROVE ClientsOf(m)'
    <3>1. ClientsOf(m)
      BY DEF RpcInv, ClientsInv, ClientsAreTrue
    <3>2. \A q \in conn'[m].clients : q \in conn[m].clients
      BY <1>6
    <3>3. QED
      BY <1>6, <3>1, <3>2 DEF ClientsOf
  <2>2. QED
    BY <1>6, <2>1 DEF ClientsAreTrue
<1>14. AskersAreTrue'
  BY <1>2, <1>8, <1>9, AskersLast DEF AskersAreTrue
<1>15. TablesAreTrue'
  <2>1. ASSUME NEW m \in 1..Len(conn) PROVE TableIsTrue(m)'
    <3>1. TableIsTrue(m)
      BY DEF RpcInv, ClientsInv, TablesAreTrue
    <3>2. \A j : MadeOn(j, m) => MadeOn(j, m)'
      BY <1>2 DEF MadeOn
    <3>3. ASSUME NEW p \in conn'[m].table
          PROVE  belated \/ \E q \in conn'[m].clients : q[1] = p[2]
      <4>1. p \in conn[m].table /\ (m # z \/ p[2] # n)
        BY <1>6
      <4>2. belated \/ \E q \in conn[m].clients : q[1] = p[2]
        BY <3>1, <4>1 DEF TableIsTrue
      <4>3. \A q \in conn[m].clients : q[1] = p[2] => q \in conn'[m].clients
        BY <1>6, <4>1
      <4>4. QED
        BY <4>2, <4>3
    <3>4. \A p \in conn'[m].table : p \in conn[m].table
      BY <1>6
    <3>5. conn'[m].index = Mirror(conn'[m].table)
      BY <1>6
    <3>6. QED
      BY <1>2, <3>1, <3>2, <3>3, <3>4, <3>5 DEF TableIsTrue
  <2>2. QED
    BY <1>6, <2>1 DEF TablesAreTrue
<1>16. NothingEnters
  BY <1>2, <1>6 DEF NothingEnters
<1>17. AllHeardIsTrue'
  BY <1>2, <1>7, <1>8, <1>9, <1>16, HeardLasts DEF NothingEnters
<1>18. BuffersAreTrue'
  BY <1>2, <1>6, <1>8, <1>9, <1>16, BuffersLast DEF BuffersAreTrue
<1>19. CallersEnter'
  <2>1. WillEnter(c)' => WillEnter(c) /\ user'[c].o = user[c].o /\ user'[c].id = user[c].id
    BY <1>4, <1>5 DEF WillEnter
  <2>2. QED
    BY <1>2, <1>5, <1>16, <2>1, CallersLast
<1>20. PlacesAreTrue'
  <2> SUFFICES ASSUME ~raced', ~ended, ~raced
               PROVE  /\ cur' # 0 => \A q \in conn'[cur'].clients : IsItself(q, cur)'
                      /\ \A m \in 1..Len(conn) : m # cur' => Cut(m)' \/ Deserted(m)'
    BY <1>1, <1>2, <1>6, <1>7 DEF PlacesAreTrue, IsItself, Numbered
  <2>1. /\ z # 0 => \A q \in conn[z].clients : IsItself(q, z)
        /\ \A m \in 1..Len(conn) : m # z => Cut(m) \/ Deserted(m)
    BY <1>0 DEF RpcInv, ClientsInv, PlacesAreTrue, IsItself
  <2>2. \A m : Cut(m) => Cut(m)'
    BY <1>2 DEF Cut
  <2>3. user[c].at # "adding" /\ user'[c].at # "adding"
    BY <1>1, <1>4, <1>5 DEF Numbered
  <2>4. ASSUME NEW m \in 1..Len(conn), Deserted(m) PROVE Deserted(m)'
    BY <1>5, <1>6, <2>3, <2>4 DEF Deserted
  <2>5. ASSUME cur' # 0, NEW q \in conn'[cur'].clients PROVE IsItself(q, cur)'
    <3>1. z \in 1..Len(conn) /\ cur' = z
      BY <1>1, <1>7, <2>5
    <3>2. q \in conn[z].clients /\ q[1] # n
      BY <1>6, <2>5, <3>1
    <3>3. q[2] \in Caller /\ IsItself(q, z)
      <4>1. conn[z].clients \subseteq Nat \X Caller
        BY <3>1, Counters DEF RpcInv, Connection
      <4>2. QED
        BY <2>1, <3>1, <3>2, <4>1
    <3>4. q[2] # c
      BY <1>0, <3>2, <3>3 DEF IsItself
    <3>5. user'[q[2]] = user[q[2]]
      BY <1>5, <3>3, <3>4
    <3>6. QED
      BY <3>1, <3>3, <3>5 DEF IsItself, Numbered
  <2>6. ASSUME NEW m \in 1..Len(conn), m # cur' PROVE Cut(m)' \/ Deserted(m)'
    <3>1. CASE m # z
      BY <2>1, <2>2, <2>4, <3>1
    <3>2. CASE m = z
      <4>1. z # 0 /\ conn'[z].clients = {}
        BY <1>1, <1>7, <2>6, <3>2
      <4>2. \A d \in Caller : ~(user[d].at = "adding" /\ user[d].o = z)
        BY <1>7, <4>1
      <4>3. \A d \in Caller : ~(user'[d].at = "adding" /\ user'[d].o = z)
        BY <1>5, <2>3, <4>2
      <4>4. QED
        BY <3>2, <4>1, <4>3 DEF Deserted
    <3>3. QED
      BY <3>1, <3>2
  <2>7. QED
    BY <2>5, <2>6
<1>21. QED
  BY <1>8, <1>10, <1>11, <1>12, <1>13, <1>14, <1>15, <1>17, <1>18, <1>19, <1>20
     DEF RpcInv, ClientsInv

LEMMA CallerStepsStep ==
  ASSUME RpcInv, NEW c \in Caller, CallerSteps(c)
  PROVE  RpcInv'
BY SetRpcClientStep, SendRequestStep, RemoveRpcClientStep, LeavesStep, AddRpcClientStep,
   BufferStep, DoSendRequestStep, WriteStep, WriteFailedStep DEF CallerSteps, CallStep

-----------------------------------------------------------------------------
(* The handlers that end the handshake and empty the buffer.               *)

\* A handler's step leaves the callers where they are.
LEMMA TurnStep ==
  ASSUME RpcInv, UNCHANGED <<user, asker>>, ClientTypes', LinkTypes', ServerTypes', Grows,
         SessionsAreTrue', ServersAreTrue', ChainsAreTrue', ClientsAreTrue', PlacesAreTrue',
         TablesAreTrue', AllHeardIsTrue', BuffersAreTrue', CallersEnter'
  PROVE  RpcInv'
<1>1. UsersAreTrue'
  BY UsersLast DEF UsersAreTrue
<1>2. AskersAreTrue'
  BY AskersLast DEF AskersAreTrue
<1>3. QED
  BY <1>1, <1>2 DEF RpcInv, ClientsInv

LEMMA PlacesRemain ==
  ASSUME RpcInv, Grows, user' = user, Len(conn') = Len(conn),
         \A o \in 1..Len(conn) : conn'[o].clients = conn[o].clients,
         cur' = cur, raced => raced', ended' = ended
  PROVE  PlacesAreTrue'
<1> SUFFICES ASSUME ~raced', ~ended'
             PROVE  /\ cur # 0 => \A q \in conn'[cur].clients : IsItself(q, cur)'
                    /\ \A o \in 1..Len(conn) : o # cur => Cut(o)' \/ Deserted(o)'
  BY DEF PlacesAreTrue, IsItself, Numbered
<1>1. /\ cur # 0 => \A q \in conn[cur].clients : IsItself(q, cur)
      /\ \A o \in 1..Len(conn) : o # cur => Cut(o) \/ Deserted(o)
  BY DEF RpcInv, ClientsInv, PlacesAreTrue
<1>2. \A q, o : IsItself(q, o) => IsItself(q, o)'
  BY DEF IsItself, Numbered
<1>3. \A o \in 1..Len(conn) : Deserted(o) => Deserted(o)'
  BY DEF Deserted
<1>4. cur # 0 => cur \in 1..Len(conn)
  BY DEF RpcInv, ClientTypes
<1>5. QED
  BY <1>1, <1>2, <1>3, <1>4 DEF Grows

LEMMA Turned ==
  ASSUME RpcInv, NEW o \in 1..Len(chain), NEW at \in ChainAt, Turns(o, at)
  PROVE  /\ chain' \in Seq(Chain) /\ Len(chain') = Len(chain)
         /\ chain'[o].at = at /\ chain'[o].s = chain[o].s
         /\ \A n \in 1..Len(chain) : n # o => chain'[n] = chain[n]
<1>1. chain \in Seq(Chain) /\ chain[o] \in Chain
  BY DEF RpcInv, LinkTypes
<1>2. PICK z : z = [chain[o] EXCEPT !.at = at]
  OBVIOUS
<1>3. z \in Chain /\ z.at = at /\ z.s = chain[o].s
  BY <1>1, <1>2 DEF Chain
<1>4. chain' = [chain EXCEPT ![o] = z]
  BY <1>2 DEF Turns
<1>5. QED
  BY <1>1, <1>3, <1>4, Changed

\* Buffer b has some of what object o's had, and none of it was entered.
Waiting(o, b) ==
  /\ \A k \in DOMAIN b.wait :
       IsOf(b.wait[k], o) /\ NotEntered(b.wait[k][2]) /\ InBuffer(b.wait[k][2], o)
  /\ \A k \in DOMAIN b.copy :
       IsOf(b.copy[k], o) /\ NotEntered(b.copy[k][2]) /\ InBuffer(b.copy[k][2], o)
  /\ \A k, l \in DOMAIN b.wait : b.wait[k][2] = b.wait[l][2] => k = l
  /\ \A k, l \in DOMAIN b.copy : b.copy[k][2] = b.copy[l][2] => k = l
  /\ \A k \in DOMAIN b.wait, l \in DOMAIN b.copy : b.wait[k][2] # b.copy[l][2]

\* The buffer is emptied into the copy, of which nothing is left by then.
LEMMA Spliced ==
  ASSUME RpcInv, NEW o \in 1..Len(conn), NEW b \in Buffer, b.wait = <<>>,
         b.copy = before[o].wait
  PROVE  Waiting(o, b)
<1>1. PICK wait : wait = before[o].wait
  OBVIOUS
<1>2. /\ \A k \in DOMAIN wait : IsOf(wait[k], o) /\ NotEntered(wait[k][2])
      /\ \A k, l \in DOMAIN wait : wait[k][2] = wait[l][2] => k = l
  BY <1>1 DEF RpcInv, ClientsInv, BuffersAreTrue, BufferIsTrue
<1>3. \A k \in DOMAIN wait : InBuffer(wait[k][2], o)
  BY <1>1 DEF InBuffer
<1>4. b.wait = <<>> /\ b.copy = wait
  BY <1>1
<1>5. DOMAIN b.wait = {}
  BY <1>4
<1>6. QED
  BY <1>2, <1>3, <1>4, <1>5 DEF Waiting

\* The first of the copy has been seen to.
LEMMA OneLess ==
  ASSUME RpcInv, NEW o \in 1..Len(conn), NEW b \in Buffer, b.wait = before[o].wait,
         before[o].copy # <<>>, b.copy = Tail(before[o].copy)
  PROVE  Waiting(o, b)
<1>1. PICK wait, copy, rest : wait = before[o].wait /\ copy = before[o].copy /\ rest = Tail(copy)
  OBVIOUS
<1>2. copy \in Seq(Nat \X Id) /\ copy # <<>>
  <2>1. before[o] \in Buffer
    BY DEF RpcInv, ClientTypes
  <2>2. QED
    BY <1>1, <2>1 DEF Buffer
<1>3. \A k \in DOMAIN rest : k \in Nat /\ k + 1 \in DOMAIN copy /\ rest[k] = copy[k + 1]
  BY <1>1, <1>2, Taken
<1>4. /\ \A k \in DOMAIN wait : IsOf(wait[k], o) /\ NotEntered(wait[k][2])
      /\ \A k \in DOMAIN copy : IsOf(copy[k], o) /\ (Entering(o, k) \/ NotEntered(copy[k][2]))
      /\ \A k, l \in DOMAIN wait : wait[k][2] = wait[l][2] => k = l
      /\ \A k, l \in DOMAIN copy : copy[k][2] = copy[l][2] => k = l
      /\ \A k \in DOMAIN wait, l \in DOMAIN copy : wait[k][2] # copy[l][2]
  BY <1>1 DEF RpcInv, ClientsInv, BuffersAreTrue, BufferIsTrue
<1>5. /\ \A k \in DOMAIN wait : InBuffer(wait[k][2], o)
      /\ \A k \in DOMAIN copy : InBuffer(copy[k][2], o)
  BY <1>1 DEF InBuffer
<1>6. \A k \in DOMAIN rest : ~Entering(o, k + 1)
  <2>1. \A k \in DOMAIN rest : k \in 1..(Len(copy) - 1) /\ Len(copy) \in Nat
    BY <1>1, <1>2, Taken
  <2>2. \A k \in DOMAIN rest : k + 1 # 1
    BY <2>1
  <2>3. QED
    BY <2>2 DEF Entering
<1>7. \A k \in DOMAIN rest : IsOf(rest[k], o) /\ NotEntered(rest[k][2]) /\ InBuffer(rest[k][2], o)
  BY <1>3, <1>4, <1>5, <1>6
<1>8. ASSUME NEW k \in DOMAIN rest, NEW l \in DOMAIN rest, rest[k][2] = rest[l][2]
      PROVE  k = l
  <2>1. k + 1 = l + 1
    BY <1>3, <1>4, <1>8
  <2>2. QED
    BY <1>3, <2>1
<1>9. \A k \in DOMAIN wait, l \in DOMAIN rest : wait[k][2] # rest[l][2]
  BY <1>3, <1>4
<1>10. b.wait = wait /\ b.copy = rest
  BY <1>1
<1>11. QED
  BY <1>4, <1>5, <1>7, <1>8, <1>9, <1>10 DEF Waiting

\* The handler of object o turns to the next of its copy, or to its reads.
LEMMA CopyStep ==
  ASSUME RpcInv, NEW o \in 1..Len(chain), NEW b \in Buffer, Turns(o, AfterCopy(b.copy)),
         before' = [before EXCEPT ![o] = b], b.ready => before[o].ready, chain[o].s # 0,
         Waiting(o, b),
         UNCHANGED <<conn, user, asker, heard, evicted, belated, secure, ended, server>>,
         sess' \in Seq(Session), Len(sess') = Len(sess),
         \A j \in 1..Len(sess) : sess[j].cut => sess'[j].cut,
         raced' \in BOOLEAN, raced => raced', cur' \in 0..Len(conn),
         Grows => PlacesAreTrue',
         Grows /\ ClientTypes' => SessionsAreTrue' /\ ServerTypes' /\ ServersAreTrue'
  PROVE  RpcInv'
<1>1. /\ o \in 1..Len(conn) /\ Len(chain) = Len(conn) /\ Len(sess) \in Nat
      /\ before \in Seq(Buffer) /\ Len(before) = Len(conn)
  BY DEF RpcInv, LinkTypes, ClientTypes
<1>2. PICK at \in {"sending", "reading"} : at = AfterCopy(b.copy)
  BY DEF AfterCopy
<1>3. at \in ChainAt /\ Turns(o, at) /\ (at = "sending" <=> b.copy # <<>>)
  BY <1>2 DEF ChainAt, AfterCopy
<1>4. /\ chain' \in Seq(Chain) /\ Len(chain') = Len(chain)
      /\ chain'[o].at = at /\ chain'[o].s = chain[o].s
      /\ \A n \in 1..Len(chain) : n # o => chain'[n] = chain[n]
  BY <1>3, Turned
<1>5. /\ before' \in Seq(Buffer) /\ Len(before') = Len(before) /\ before'[o] = b
      /\ \A n \in 1..Len(before) : n # o => before'[n] = before[n]
  BY <1>1, Changed
<1>6. Grows
  <2>1. \A n \in 1..Len(conn) : chain[n].s # 0 => chain'[n].s = chain[n].s
    BY <1>1, <1>4
  <2>2. QED
    BY <2>1, WriteGrows
<1>7. ClientTypes'
  BY <1>1, <1>5 DEF RpcInv, ClientTypes
<1>8. LinkTypes'
  BY <1>4 DEF RpcInv, LinkTypes
<1>9. ChainsAreTrue'
  <2> SUFFICES ASSUME NEW n \in 1..Len(conn) PROVE ChainIsTrue(n)'
    BY DEF ChainsAreTrue
  <2>1. ChainIsTrue(n)
    BY DEF RpcInv, ChainsAreTrue
  <2>2. CASE n = o
    BY <1>2, <1>3, <1>4, <1>5, <2>1, <2>2 DEF ChainIsTrue
  <2>3. CASE n # o
    BY <1>1, <1>4, <1>5, <2>1, <2>3 DEF ChainIsTrue
  <2>4. QED
    BY <2>2, <2>3
<1>10. ClientsAreTrue' /\ TablesAreTrue' /\ AllHeardIsTrue' /\ NothingEnters
  BY <1>6, <1>7, StillTables
<1>11. \A j : NotEntered(j) => NotEntered(j)'
  BY <1>10, StillNotEntered
<1>12. BuffersAreTrue'
  <2>1. ASSUME NEW n \in 1..Len(conn), n # o PROVE BufferIsTrue(n)'
    <3>1. before'[n] = before[n] /\ chain'[n] = chain[n]
      BY <1>1, <1>4, <1>5, <2>1
    <3>2. QED
      BY <1>6, <1>7, <1>11, <3>1, BufferLasts
  <2>2. BufferIsTrue(o)'
    <3>1. \A w : IsOf(w, o) => IsOf(w, o)'
      BY DEF IsOf, MadeOn
    <3>2. /\ \A k \in DOMAIN b.wait : IsOf(b.wait[k], o)' /\ NotEntered(b.wait[k][2])'
          /\ \A k \in DOMAIN b.copy : IsOf(b.copy[k], o)' /\ NotEntered(b.copy[k][2])'
      BY <1>11, <3>1 DEF Waiting
    <3>3. QED
      BY <1>5, <3>2 DEF BufferIsTrue, Waiting
  <2>3. QED
    BY <2>1, <2>2 DEF BuffersAreTrue
<1>13. CallersEnter'
  <2>1. ASSUME NEW c \in Caller PROVE CallerEnters(c)'
    <3>1. WillEnter(c)' <=> WillEnter(c)
      BY DEF WillEnter
    <3>2. PICK n, i : n = user[c].o /\ i = user[c].id
      OBVIOUS
    <3>3. WillEnter(c) => n \in 1..Len(conn)
      BY <3>2 DEF WillEnter, RpcInv, ClientsInv, UsersAreTrue, UserIsTrue
    <3>4. n \in 1..Len(conn) =>
            /\ \A k \in DOMAIN before'[n].wait : InBuffer(before'[n].wait[k][2], n)
            /\ \A k \in DOMAIN before'[n].copy : InBuffer(before'[n].copy[k][2], n)
      <4>1. CASE n = o
        BY <1>5, <4>1 DEF Waiting
      <4>2. CASE n # o
        BY <1>1, <1>5, <4>2 DEF InBuffer
      <4>3. QED
        BY <4>1, <4>2
    <3>5. NotEntered(i) => NotEntered(i)'
      BY <1>11
    <3>6. NotEntered(user[c].id) => NotEntered(user[c].id)'
      BY <3>2, <3>5 DEF NotEntered, LastHeard
    <3>7. QED
      BY <3>1, <3>2, <3>3, <3>4, <3>6, CallerWaits
  <2>2. QED
    BY <2>1 DEF CallersEnter
<1>14. PlacesAreTrue' /\ SessionsAreTrue' /\ ServerTypes' /\ ServersAreTrue'
  BY <1>6, <1>7
<1>15. QED
  BY <1>6, <1>7, <1>8, <1>9, <1>10, <1>12, <1>13, <1>14, TurnStep

\* What a handler that empties the buffer finds.
LEMMA Copying ==
  ASSUME RpcInv, NEW o \in 1..Len(chain), chain[o].at \in {"sending", "writing"}
  PROVE  /\ before[o].copy # <<>> /\ Head(before[o].copy) \in Nat \X Id
         /\ IsOf(Head(before[o].copy), o)
         /\ chain[o].at = "sending" => NotEntered(Head(before[o].copy)[2])
         /\ Tail(before[o].copy) \in Seq(Nat \X Id)
         /\ chain[o].s \in 1..Len(sess)
<1>1. /\ o \in 1..Len(conn) /\ ChainIsTrue(o) /\ before[o] \in Buffer /\ BufferIsTrue(o)
      /\ Len(sess) \in Nat
  BY Chains DEF RpcInv, ClientsInv, BuffersAreTrue, LinkTypes
<1>2. PICK copy : copy = before[o].copy
  OBVIOUS
<1>3. copy \in Seq(Nat \X Id) /\ copy # <<>>
  BY <1>1, <1>2 DEF Buffer, ChainIsTrue
<1>4. /\ Head(copy) \in Nat \X Id /\ Tail(copy) \in Seq(Nat \X Id)
      /\ 1 \in DOMAIN copy /\ copy[1] = Head(copy)
  BY <1>3, Taken
<1>5. IsOf(copy[1], o) /\ (Entering(o, 1) \/ NotEntered(copy[1][2]))
  BY <1>1, <1>2, <1>4 DEF BufferIsTrue
<1>6. chain[o].at = "sending" => ~Entering(o, 1)
  BY DEF Entering
<1>7. chain[o].s \in 1..Len(sess)
  <2>1. chain[o].s \in 0..Len(sess) /\ chain[o].s # 0
    BY <1>1 DEF ChainIsTrue
  <2>2. QED
    BY <1>1, <2>1
<1>8. QED
  BY <1>2, <1>3, <1>4, <1>5, <1>6, <1>7

\* What waited is taken out of the buffer.
LEMMA SplicesStep ==
  ASSUME RpcInv, NEW o \in 1..Len(chain), Splices(o),
         UNCHANGED <<conn, cur, user, asker, heard, evicted, raced, belated, secure, ended,
                     server, lost, sess>>
  PROVE  RpcInv'
<1>1. /\ o \in 1..Len(conn) /\ before[o] \in Buffer /\ ChainIsTrue(o)
      /\ chain[o].at = "splicing" /\ chain[o].s # 0
  BY Chains DEF Splices, Due, ChainIsTrue
<1>2. PICK b : b = [before[o] EXCEPT !.copy = before[o].wait, !.wait = <<>>]
  OBVIOUS
<1>3. b \in Buffer /\ b.wait = <<>> /\ b.copy = before[o].wait /\ b.ready = before[o].ready
  <2>1. PICK wait, none : wait = before[o].wait /\ none = <<>>
    OBVIOUS
  <2>2. wait \in Seq(Nat \X Id) /\ none \in Seq(Nat \X Id)
    BY <1>1, <2>1 DEF Buffer
  <2>3. b = [before[o] EXCEPT !.copy = wait, !.wait = none]
    BY <1>2, <2>1
  <2>4. b \in Buffer /\ b.wait = none /\ b.copy = wait /\ b.ready = before[o].ready
    BY <1>1, <2>2, <2>3 DEF Buffer
  <2>5. QED
    BY <2>1, <2>4
<1>4. before' = [before EXCEPT ![o] = b]
  BY <1>2 DEF Splices
<1>5. Turns(o, AfterCopy(b.copy))
  BY <1>3 DEF Splices
<1>6. Waiting(o, b)
  BY <1>1, <1>3, Spliced
<1>7. /\ sess' \in Seq(Session) /\ Len(sess') = Len(sess)
      /\ \A j \in 1..Len(sess) : sess[j].cut => sess'[j].cut
      /\ raced' \in BOOLEAN /\ cur' \in 0..Len(conn) /\ lost \subseteq lost' /\ lost' \subseteq Id
  BY DEF RpcInv, LinkTypes, ClientTypes, ServerTypes
<1>8. Grows => PlacesAreTrue'
  BY PlacesRemain
<1>9. Grows /\ ClientTypes' => SessionsAreTrue' /\ ServerTypes' /\ ServersAreTrue'
  BY <1>7, LinksLast
<1>10. (b.ready => before[o].ready) /\ (raced => raced')
  BY <1>3
<1>11. QED
  BY <1>1, <1>3, <1>4, <1>5, <1>6, <1>7, <1>8, <1>9, <1>10, CopyStep

\* The first of the copy is entered, or finds that the connection has failed.
LEMMA SendsCopyStep ==
  ASSUME RpcInv, NEW o \in 1..Len(chain), SendsCopy(o),
         UNCHANGED <<cur, user, asker, heard, evicted, raced, secure, ended, server, sess>>
  PROVE  RpcInv'
<1>1. /\ o \in 1..Len(conn) /\ before[o] \in Buffer /\ ChainIsTrue(o)
      /\ chain[o].at = "sending" /\ chain[o].s # 0
  BY Chains DEF SendsCopy, Due, ChainIsTrue
<1>2. PICK w, n, i : w = Head(before[o].copy) /\ n = w[1] /\ i = w[2]
  OBVIOUS
<1>3. /\ before[o].copy # <<>> /\ n \in Nat /\ i \in Id /\ IsOf(w, o) /\ NotEntered(i)
      /\ Tail(before[o].copy) \in Seq(Nat \X Id)
  <2>1. /\ before[o].copy # <<>> /\ w \in Nat \X Id /\ IsOf(w, o) /\ NotEntered(w[2])
        /\ Tail(before[o].copy) \in Seq(Nat \X Id)
    BY <1>1, <1>2, Copying
  <2>2. QED
    BY <1>2, <2>1
<1>4. lost \subseteq Id
  BY DEF RpcInv, ServerTypes
<1>5. CASE ~before[o].ready
  <2>1. PICK b : b = [before[o] EXCEPT !.copy = Tail(@)]
    OBVIOUS
  <2>2. /\ b \in Buffer /\ b.wait = before[o].wait /\ b.copy = Tail(before[o].copy)
        /\ b.ready = before[o].ready
    BY <1>1, <1>3, <2>1 DEF Buffer
  <2>3. before' = [before EXCEPT ![o] = b]
    BY <1>5, <2>1 DEF SendsCopy
  <2>4. /\ Turns(o, AfterCopy(b.copy)) /\ lost' = lost \cup {i} /\ UNCHANGED <<conn, belated>>
    BY <1>2, <1>5, <2>2 DEF SendsCopy
  <2>5. Waiting(o, b)
    BY <1>1, <1>3, <2>2, OneLess
  <2>6. /\ sess' \in Seq(Session) /\ Len(sess') = Len(sess)
        /\ \A j \in 1..Len(sess) : sess[j].cut => sess'[j].cut
        /\ raced' \in BOOLEAN /\ cur' \in 0..Len(conn)
    BY DEF RpcInv, LinkTypes, ClientTypes
  <2>7. lost \subseteq lost' /\ lost' \subseteq Id
    BY <1>3, <1>4, <2>4
  <2>8. Grows => PlacesAreTrue'
    BY <2>4, PlacesRemain
  <2>9. Grows /\ ClientTypes' => SessionsAreTrue' /\ ServerTypes' /\ ServersAreTrue'
    BY <2>7, LinksLast
  <2>10. (b.ready => before[o].ready) /\ (raced => raced')
    BY <2>2
  <2>11. QED
    BY <1>1, <2>2, <2>3, <2>4, <2>5, <2>6, <2>8, <2>9, <2>10, CopyStep
<1>6. CASE before[o].ready
  <2>1. Entered(o, n, i) /\ Turns(o, "writing") /\ UNCHANGED <<before, lost>>
    BY <1>2, <1>6 DEF SendsCopy
  <2>2. PICK at : at = "writing"
    OBVIOUS
  <2>3. at \in ChainAt /\ Turns(o, at)
    BY <2>1, <2>2 DEF ChainAt
  <2>4. /\ chain' \in Seq(Chain) /\ Len(chain') = Len(chain)
        /\ chain'[o].at = "writing" /\ chain'[o].s = chain[o].s
        /\ \A m \in 1..Len(chain) : m # o => chain'[m] = chain[m]
    BY <2>2, <2>3, Turned
  <2>5. Len(chain) = Len(conn) /\ \A m \in 1..Len(conn) : chain'[m].s = chain[m].s
    BY <2>4 DEF RpcInv, LinkTypes
  <2>6. MadeOn(i, o) /\ asker[i].num = n
    BY <1>2, <1>3 DEF IsOf
  <2>7. /\ conn' \in Seq(Connection) /\ Len(conn') = Len(conn) /\ belated' \in BOOLEAN
        /\ \A m \in 1..Len(conn) : conn'[m].clients = conn[m].clients
        /\ Grows /\ ClientsAreTrue' /\ TablesAreTrue'
        /\ \A j : j # i /\ NotEntered(j) => NotEntered(j)'
        /\ ClientTypes' => AllHeardIsTrue'
    BY <1>1, <1>3, <2>1, <2>5, <2>6, EnterGives
  <2>8. ClientTypes'
    BY <2>1, <2>7 DEF RpcInv, ClientTypes
  <2>9. LinkTypes'
    BY <2>4, <2>7 DEF RpcInv, LinkTypes
  <2>10. ChainsAreTrue'
    <3> SUFFICES ASSUME NEW m \in 1..Len(conn) PROVE ChainIsTrue(m)'
      BY <2>7 DEF ChainsAreTrue
    <3>1. ChainIsTrue(m)
      BY DEF RpcInv, ChainsAreTrue
    <3>2. CASE m = o
      BY <1>1, <1>3, <2>1, <2>4, <3>1, <3>2 DEF ChainIsTrue
    <3>3. CASE m # o
      BY <2>1, <2>4, <2>5, <3>1, <3>3 DEF ChainIsTrue
    <3>4. QED
      BY <3>2, <3>3
  <2>11. SessionsAreTrue' /\ ServerTypes' /\ ServersAreTrue'
    BY <1>4, <2>1, <2>7, <2>8, LinksLast
  <2>12. PlacesAreTrue'
    BY <2>7, PlacesRemain
  <2>13. InBuffer(i, o)
    <3>1. PICK copy : copy = before[o].copy
      OBVIOUS
    <3>2. copy \in Seq(Nat \X Id) /\ copy # <<>>
      BY <1>1, <1>3, <3>1 DEF Buffer
    <3>3. 1 \in DOMAIN copy /\ copy[1] = Head(copy)
      BY <3>2, Taken
    <3>4. QED
      BY <1>2, <3>1, <3>3 DEF InBuffer
  <2>14. BuffersAreTrue'
    <3>1. ASSUME NEW m \in 1..Len(conn), m # o PROVE BufferIsTrue(m)'
      <4>1. ~InBuffer(i, m)
        BY <2>6, <3>1, OwnBuffer
      <4>2. \A j : InBuffer(j, m) /\ NotEntered(j) => NotEntered(j)'
        BY <2>7, <4>1
      <4>3. before'[m] = before[m] /\ chain'[m] = chain[m]
        BY <2>1, <2>4, <2>5, <3>1
      <4>4. QED
        BY <2>7, <2>8, <4>2, <4>3, BufferLasts
    <3>2. BufferIsTrue(o)'
      <4>1. PICK wait, copy : wait = before[o].wait /\ copy = before[o].copy
        OBVIOUS
      <4>2. copy \in Seq(Nat \X Id) /\ copy # <<>>
        BY <1>1, <1>3, <4>1 DEF Buffer
      <4>3. 1 \in DOMAIN copy /\ copy[1][2] = i
        BY <1>2, <4>1, <4>2, Taken
      <4>4. /\ \A k \in DOMAIN wait : IsOf(wait[k], o) /\ NotEntered(wait[k][2])
            /\ \A k \in DOMAIN copy :
                 IsOf(copy[k], o) /\ (Entering(o, k) \/ NotEntered(copy[k][2]))
            /\ \A k, l \in DOMAIN wait : wait[k][2] = wait[l][2] => k = l
            /\ \A k, l \in DOMAIN copy : copy[k][2] = copy[l][2] => k = l
            /\ \A k \in DOMAIN wait, l \in DOMAIN copy : wait[k][2] # copy[l][2]
        BY <1>1, <4>1 DEF RpcInv, ClientsInv, BuffersAreTrue, BufferIsTrue
      <4>5. \A v : IsOf(v, o) => IsOf(v, o)'
        BY DEF IsOf, MadeOn
      <4>6. \A k \in DOMAIN wait : IsOf(wait[k], o)' /\ NotEntered(wait[k][2])'
        BY <2>7, <4>3, <4>4, <4>5
      <4>7. \A k : ~Entering(o, k)
        BY <1>1 DEF Entering
      <4>8. \A k \in DOMAIN copy : IsOf(copy[k], o)' /\ (k = 1 \/ NotEntered(copy[k][2])')
        BY <2>7, <4>3, <4>4, <4>5, <4>7
      <4>9. Entering(o, 1)'
        BY <2>4 DEF Entering
      <4>10. before'[o].wait = wait /\ before'[o].copy = copy
        BY <2>1, <4>1
      <4>11. \A k \in DOMAIN copy :
               IsOf(copy[k], o)' /\ (Entering(o, k)' \/ NotEntered(copy[k][2])')
        BY <4>8, <4>9
      <4>12. QED
        BY <4>4, <4>6, <4>10, <4>11 DEF BufferIsTrue
    <3>3. QED
      BY <2>7, <3>1, <3>2 DEF BuffersAreTrue
  <2>15. CallersEnter'
    <3>1. ASSUME NEW c \in Caller PROVE CallerEnters(c)'
      <4>1. PICK j : j = user[c].id
        OBVIOUS
      <4>2. WillEnter(c) => j # i
        <5>1. WillEnter(c) => MadeOn(j, user[c].o)
          BY <4>1, OwnRequest DEF WillEnter, Asks
        <5>2. WillEnter(c) => ~InBuffer(j, user[c].o)
          BY <4>1 DEF RpcInv, ClientsInv, CallersEnter, CallerEnters, InBuffer
        <5>3. MadeOn(i, user[c].o) => user[c].o = o
          BY <2>6 DEF MadeOn
        <5>4. QED
          BY <2>13, <5>1, <5>2, <5>3
      <4>3. WillEnter(c) /\ NotEntered(j) => NotEntered(j)'
        BY <2>7, <4>2
      <4>4. WillEnter(c) /\ NotEntered(user[c].id) => NotEntered(user[c].id)'
        BY <4>1, <4>3 DEF NotEntered, LastHeard
      <4>5. WillEnter(c)' <=> WillEnter(c)
        BY DEF WillEnter
      <4>6. QED
        BY <2>1, <4>4, <4>5, CallerLasts
    <3>2. QED
      BY <3>1 DEF CallersEnter
  <2>16. QED
    BY <2>7, <2>8, <2>9, <2>10, <2>11, <2>12, <2>14, <2>15, TurnStep
<1>7. QED
  BY <1>5, <1>6

\* The first of the copy is written; a write that fails lets the locator's
\* object go.
LEMMA WritesCopyStep ==
  ASSUME RpcInv, NEW o \in 1..Len(chain), WritesCopy(o),
         UNCHANGED <<conn, user, asker, heard, evicted, belated, secure, ended, server>>
  PROVE  RpcInv'
<1>1. /\ o \in 1..Len(conn) /\ before[o] \in Buffer /\ ChainIsTrue(o) /\ ~ended
      /\ chain[o].at = "writing" /\ chain[o].s # 0 /\ Len(chain) = Len(conn)
  BY Chains DEF WritesCopy, Due, ChainIsTrue, RpcInv, LinkTypes
<1>2. PICK w, i, k : w = Head(before[o].copy) /\ i = w[2] /\ k = chain[o].s
  OBVIOUS
<1>3. /\ before[o].copy # <<>> /\ i \in Id /\ MadeOn(i, o) /\ k \in 1..Len(sess)
      /\ Tail(before[o].copy) \in Seq(Nat \X Id)
  <2>1. /\ before[o].copy # <<>> /\ w \in Nat \X Id /\ IsOf(w, o)
        /\ Tail(before[o].copy) \in Seq(Nat \X Id) /\ k \in 1..Len(sess)
    BY <1>1, <1>2, Copying
  <2>2. QED
    BY <1>2, <2>1 DEF IsOf
<1>4. MadeVia(i, k)
  BY <1>2, <1>3 DEF MadeOn, MadeVia
<1>5. PICK ready \in BOOLEAN :
        /\ before' = [before EXCEPT ![o].copy = Tail(before[o].copy), ![o].ready = ready]
        /\ ready => before[o].ready
        /\ Wrote(k, i) \/ WroteInVain(k, i)
        /\ \/ UNCHANGED <<cur, raced>>
           \/ WroteInVain(k, i) /\ ErasesLocator(o)
  <2>1. CASE /\ Wrote(k, i) \/ WroteInVain(k, i)
             /\ before' = [before EXCEPT ![o].copy = Tail(before[o].copy)]
             /\ UNCHANGED <<cur, raced>>
    <3>1. PICK r : r = before[o].ready
      OBVIOUS
    <3>2. r \in BOOLEAN /\ before[o] = [before[o] EXCEPT !.ready = r]
      BY <1>1, <3>1 DEF Buffer
    <3>3. [before[o] EXCEPT !.copy = Tail(before[o].copy)]
            = [before[o] EXCEPT !.copy = Tail(before[o].copy), !.ready = r]
      BY <1>1, <3>1 DEF Buffer
    <3>4. before' = [before EXCEPT ![o].copy = Tail(before[o].copy), ![o].ready = r]
      BY <2>1, <3>3
    <3>5. QED
      BY <2>1, <3>1, <3>2, <3>4
  <2>2. CASE /\ WroteInVain(k, i)
             /\ before' = [before EXCEPT ![o].copy = Tail(before[o].copy), ![o].ready = FALSE]
             /\ ErasesLocator(o)
    BY <2>2
  <2>3. QED
    BY <1>2, <2>1, <2>2 DEF WritesCopy
<1>6. PICK rest, b : /\ rest = Tail(before[o].copy)
                     /\ b = [before[o] EXCEPT !.copy = rest, !.ready = ready]
  OBVIOUS
<1>7. /\ b \in Buffer /\ b.wait = before[o].wait /\ b.copy = rest /\ b.ready = ready
  BY <1>1, <1>3, <1>6 DEF Buffer
<1>8. before' = [before EXCEPT ![o] = b]
  BY <1>5, <1>6
<1>9. Turns(o, AfterCopy(b.copy))
  BY <1>6, <1>7 DEF WritesCopy
<1>10. Waiting(o, b)
  BY <1>1, <1>3, <1>6, <1>7, OneLess
<1>11. /\ sess' \in Seq(Session) /\ Len(sess') = Len(sess)
       /\ \A j \in 1..Len(sess) : sess'[j].cut = sess[j].cut
       /\ lost \subseteq lost' /\ lost' \subseteq Id
  BY <1>3, <1>5, WriteGives
<1>12. Grows /\ ClientTypes' => SessionsAreTrue' /\ ServerTypes' /\ ServersAreTrue'
  BY <1>3, <1>4, <1>5, WrittenSessions
<1>13. /\ raced \in BOOLEAN /\ cur \in 0..Len(conn) /\ Len(conn) \in Nat
  BY DEF RpcInv, ClientTypes
<1>14. /\ raced' \in BOOLEAN /\ (raced => raced') /\ cur' \in 0..Len(conn)
  <2>1. CASE UNCHANGED <<cur, raced>>
    BY <1>13, <2>1
  <2>2. CASE ErasesLocator(o)
    <3>1. cur' = 0 /\ raced' = (raced \/ (cur # 0 /\ cur # o))
      BY <2>2 DEF ErasesLocator
    <3>2. cur' \in 0..Len(conn)
      BY <1>13, <3>1
    <3>3. raced' \in BOOLEAN /\ (raced => raced')
      BY <1>13, <3>1, Zenon
    <3>4. QED
      BY <3>2, <3>3
  <2>3. QED
    BY <1>5, <2>1, <2>2
<1>15. Grows => PlacesAreTrue'
  <2>1. CASE UNCHANGED <<cur, raced>>
    BY <2>1, PlacesRemain
  <2>2. CASE WroteInVain(k, i) /\ ErasesLocator(o)
    <3> SUFFICES ASSUME Grows, ~raced', NEW m \in 1..Len(conn) PROVE Cut(m)' \/ Deserted(m)'
      BY <2>2 DEF ErasesLocator, PlacesAreTrue
    <3>1. ~raced /\ (cur = 0 \/ cur = o)
      BY <1>13, <2>2 DEF ErasesLocator
    <3>2. m # cur => Cut(m) \/ Deserted(m)
      BY <1>1, <3>1 DEF RpcInv, ClientsInv, PlacesAreTrue
    <3>3. Cut(o)
      BY <1>1, <1>2, <2>2 DEF WroteInVain, Cut
    <3>4. Cut(m) => Cut(m)'
      BY DEF Grows
    <3>5. Deserted(m) => Deserted(m)'
      BY DEF Deserted
    <3>6. m = cur => m = o
      BY <1>13, <3>1
    <3>7. QED
      BY <3>2, <3>3, <3>4, <3>5, <3>6
  <2>3. QED
    BY <1>5, <2>1, <2>2
<1>16. b.ready => before[o].ready
  BY <1>5, <1>7
<1>17. QED
  BY <1>1, <1>7, <1>8, <1>9, <1>10, <1>11, <1>12, <1>14, <1>15, <1>16, CopyStep

\* The web socket's handshake is over, or has failed; then the buffer.
LEMMA HandshakeStep ==
  ASSUME RpcInv, NEW o \in 1..Len(chain), RpcClientOnWebSocketHandshake(o)
  PROVE  RpcInv'
<1>1. UNCHANGED <<user, asker, heard, evicted, secure, ended, server>>
  BY DEF RpcClientOnWebSocketHandshake
<1>2. CASE Splices(o) /\ UNCHANGED <<conn, cur, belated, raced, lost, sess>>
  BY <1>1, <1>2, SplicesStep
<1>3. CASE SendsCopy(o) /\ UNCHANGED <<cur, raced, sess>>
  BY <1>1, <1>3, SendsCopyStep
<1>4. CASE WritesCopy(o) /\ UNCHANGED <<conn, belated>>
  BY <1>1, <1>4, WritesCopyStep
<1>5. CASE FailsToRead(o, "shaking") /\ UNCHANGED <<conn, cur, belated, raced, lost, before>>
  <2>1. chain[o].at \notin {"sending", "writing"} /\ Turns(o, "failed") /\ sess' = sess
    BY <1>5 DEF FailsToRead, Due
  <2>2. QED
    BY <1>1, <1>5, <2>1, FailStep
<1>6. CASE /\ Due(o, "shaking") /\ Answered(o)
           /\ before' = [before EXCEPT ![o].ready = TRUE]
           /\ Turns(o, "splicing")
           /\ UNCHANGED <<conn, cur, belated, raced, lost, sess>>
  <2>1. PICK at : at = "splicing"
    OBVIOUS
  <2>2. /\ at \in ChainAt /\ at \notin {"sending", "writing", "resolving"} /\ at # "connecting"
    BY <2>1 DEF ChainAt
  <2>3. chain' = [chain EXCEPT ![o].at = at]
    BY <1>6, <2>1 DEF Turns
  <2>4. chain[o].at = "shaking" /\ chain[o].s # 0
    BY <1>6, Chains DEF Due, ChainIsTrue
  <2>5. QED
    BY <1>1, <1>6, <2>2, <2>3, <2>4, StageStep
<1>7. QED
  BY <1>2, <1>3, <1>4, <1>5, <1>6 DEF RpcClientOnWebSocketHandshake

-----------------------------------------------------------------------------
(* A client reads a reply.                                                 *)

\* SetToSeq of no element, and of one.
LEMMA SeqOfOne ==
  ASSUME NEW x
  PROVE  SetToSeq({}) = <<>> /\ SetToSeq({x}) = <<x>>
<1>1. SetToSeq({}) = <<>>
  <2>1. Cardinality({}) = 0
    BY FS_EmptySet
  <2>2. 1..0 = {} /\ <<>> \in [1..0 -> {}]
    OBVIOUS
  <2>3. ASSUME NEW f \in [1..0 -> {}]
        PROVE  f = <<>>
    <3>1. f \in [1..0 -> Nat]
      BY <2>2
    <3>2. f \in Seq(Nat) /\ Len(f) = 0
      BY <3>1
    <3>3. QED
      BY <3>2
  <2>4. IsInjective(<<>>)
    BY DEF IsInjective
  <2>5. QED
    BY <2>1, <2>2, <2>3, <2>4 DEF SetToSeq
<1>2. SetToSeq({x}) = <<x>>
  <2>1. Cardinality({x}) = 1
    BY FS_Singleton
  <2>2. \A f : f \in [1..1 -> {x}] <=> f = <<x>>
    OBVIOUS
  <2>3. IsInjective(<<x>>)
    BY DEF IsInjective
  <2>4. QED
    BY <2>1, <2>2, <2>3 DEF SetToSeq
<1>3. QED
  BY <1>1, <1>2

\* What a reply does to its connection: the last one ends the request.
DispatchedIs(x, r, y) ==
  /\ y \in Connection /\ y.alive = x.alive /\ y.counter = x.counter
  /\ y.clients = x.clients /\ y.gone = x.gone /\ y.inbox = x.inbox /\ y.hand = <<>>
  /\ y.table = IF r.final THEN {p \in x.table : p[1] # r.id} ELSE x.table
  /\ y.index = Mirror(y.table)

LEMMA DispatchedKeeps ==
  ASSUME NEW x \in Connection, NEW r \in Reply, x.index = Mirror(x.table),
         NEW y, y = Dispatched(x, r)
  PROVE  DispatchedIs(x, r, y)
<1>1. PICK T : T = IF r.final THEN {p \in x.table : p[1] # r.id} ELSE x.table
  OBVIOUS
<1>2. PICK D : D = IF r.final THEN {p \in x.index : <<r.id, p[1]>> \notin x.table \/ p[2] # r.id}
                   ELSE x.index
  OBVIOUS
<1>3. x.table \in SUBSET (Id \X Nat) /\ x.index \in SUBSET (Nat \X Id)
  BY DEF Connection
<1>4. T \in SUBSET (Id \X Nat) /\ D \in SUBSET (Nat \X Id) /\ <<>> \in Seq(Reply)
  BY <1>1, <1>2, <1>3
<1>5. y = [x EXCEPT !.hand = <<>>, !.table = T, !.index = D]
  BY <1>1, <1>2 DEF Dispatched
<1>6. /\ y \in Connection /\ y.alive = x.alive /\ y.counter = x.counter
      /\ y.clients = x.clients /\ y.gone = x.gone /\ y.inbox = x.inbox /\ y.hand = <<>>
      /\ y.table = T /\ y.index = D
  BY <1>4, <1>5 DEF Connection
<1>7. ASSUME r.final PROVE D = Mirror(T)
  <2>1. ASSUME NEW e \in D PROVE e \in Mirror(T)
    <3>1. e \in x.index /\ (<<r.id, e[1]>> \notin x.table \/ e[2] # r.id)
      BY <1>2, <1>7, <2>1
    <3>2. PICK p \in x.table : e = <<p[2], p[1]>>
      BY <3>1 DEF Mirror
    <3>3. p = <<p[1], p[2]>> /\ e[1] = p[2] /\ e[2] = p[1]
      BY <1>3, <3>2
    <3>4. p[1] # r.id
      BY <3>1, <3>3
    <3>5. QED
      BY <1>1, <1>7, <3>2, <3>4 DEF Mirror
  <2>2. ASSUME NEW e \in Mirror(T) PROVE e \in D
    <3>1. PICK p \in T : e = <<p[2], p[1]>>
      BY <2>2 DEF Mirror
    <3>2. p \in x.table /\ p[1] # r.id
      BY <1>1, <1>7, <3>1
    <3>3. e \in x.index /\ e[2] # r.id
      BY <3>1, <3>2 DEF Mirror
    <3>4. QED
      BY <1>2, <1>7, <3>3
  <2>3. QED
    BY <2>1, <2>2, <1>4 DEF Mirror
<1>8. ASSUME ~r.final PROVE D = Mirror(T)
  <2>1. D = x.index /\ T = x.table
    BY <1>1, <1>2, <1>8
  <2>2. QED
    BY <2>1
<1>9. y.index = Mirror(y.table)
  <2>1. D = Mirror(T)
    BY <1>7, <1>8
  <2>2. QED
    BY <1>6, <2>1
<1>10. QED
  BY <1>1, <1>6, <1>9 DEF DispatchedIs

\* The calls made about a reply that is read: none, or one, of whose request
\* it is; a late one only if an object was lost with its clients.
LEMMA CallsAreTrue ==
  ASSUME RpcInv, NEW o \in 1..Len(conn), ~ended, ~Cut(o), NEW r \in Reply
  PROVE  \/ CallsOf(o, r) = {}
         \/ /\ \E late \in BOOLEAN :
                 /\ CallsOf(o, r) = {[by |-> asker[r.id].by, final |-> r.final, late |-> late]}
                 /\ late => raced
            /\ ~NotEntered(r.id) /\ ~LastHeard(r.id) /\ MadeOn(r.id, o)
<1>1. /\ ClientsOf(o) /\ TableIsTrue(o) /\ r.id \in Id /\ HeardIsTrue(r.id)
      /\ \A i \in 1..Len(asker) : AskerIsTrue(i)
  BY DEF RpcInv, ClientsInv, ClientsAreTrue, TablesAreTrue, AllHeardIsTrue, AskersAreTrue, Reply
<1>2. ASSUME NEW q \in conn[o].clients, <<r.id, q[1]>> \in conn[o].table
      PROVE  /\ q[1] = asker[r.id].num /\ q[2] = asker[r.id].by /\ MadeOn(r.id, o)
             /\ ~LastHeard(r.id) /\ ~NotEntered(r.id)
             /\ Late(o, q[1], q[2]) => raced
  <2>1. PICK p : p = <<r.id, q[1]>>
    OBVIOUS
  <2>2. p \in conn[o].table /\ p[1] = r.id /\ p[2] = q[1]
    BY <1>2, <2>1
  <2>3. MadeOn(p[1], o) /\ asker[p[1]].num = p[2]
    BY <1>1, <2>2 DEF TableIsTrue
  <2>4. MadeOn(r.id, o) /\ q[1] = asker[r.id].num
    BY <2>2, <2>3
  <2>5. q[2] = asker[r.id].by
    <3>1. AskerIsTrue(r.id) /\ asker[r.id].o = o
      BY <1>1, <2>4 DEF MadeOn
    <3>2. QED
      BY <1>2, <2>4, <3>1 DEF AskerIsTrue
  <2>6. ~LastHeard(r.id)
    BY <1>1, <2>2 DEF HeardIsTrue
  <2>7. ~NotEntered(r.id)
    BY <2>2 DEF NotEntered
  <2>8. Late(o, q[1], q[2]) => raced
    <3> SUFFICES ASSUME ~raced PROVE ~Late(o, q[1], q[2])
      BY DEF RpcInv, ClientTypes
    <3>1. ~Deserted(o)
      BY <1>2 DEF Deserted
    <3>2. o = cur /\ cur # 0
      <4>1. o # cur => Cut(o) \/ Deserted(o)
        BY DEF RpcInv, ClientsInv, PlacesAreTrue
      <4>2. o # 0
        BY DEF RpcInv, ClientTypes
      <4>3. QED
        BY <3>1, <4>1, <4>2
    <3>3. IsItself(q, o)
      BY <1>2, <3>2 DEF RpcInv, ClientsInv, PlacesAreTrue
    <3>4. QED
      BY <3>3 DEF IsItself, Late
  <2>9. QED
    BY <2>4, <2>5, <2>6, <2>7, <2>8
<1>3. CASE \A q \in conn[o].clients : <<r.id, q[1]>> \notin conn[o].table
  BY <1>3 DEF CallsOf
<1>4. ASSUME NEW q \in conn[o].clients, <<r.id, q[1]>> \in conn[o].table
      PROVE  /\ \E late \in BOOLEAN :
                  /\ CallsOf(o, r) = {[by |-> asker[r.id].by, final |-> r.final, late |-> late]}
                  /\ late => raced
             /\ ~NotEntered(r.id) /\ ~LastHeard(r.id) /\ MadeOn(r.id, o)
  <2>1. PICK late : late = Late(o, q[1], q[2])
    OBVIOUS
  <2>2. late \in BOOLEAN /\ (late => raced)
    BY <1>2, <1>4, <2>1 DEF Late
  <2>3. \A p \in conn[o].clients : <<r.id, p[1]>> \in conn[o].table => p = q
    BY <1>1, <1>2, <1>4 DEF ClientsOf
  <2>4. CallsOf(o, r) = {[by |-> q[2], final |-> r.final, late |-> Late(o, q[1], q[2])]}
    BY <1>4, <2>3 DEF CallsOf
  <2>5. CallsOf(o, r) = {[by |-> asker[r.id].by, final |-> r.final, late |-> late]}
    BY <1>2, <1>4, <2>1, <2>4
  <2>6. QED
    BY <1>2, <1>4, <2>2, <2>5
<1>5. QED
  BY <1>3, <1>4

\* What is heard of request i: nothing more, or one call.
HearsOf(i, final) ==
  \/ heard' = heard
  \/ /\ \E late \in BOOLEAN :
          /\ heard' = [heard EXCEPT ![i] =
                         Append(@, [by |-> asker[i].by, final |-> final, late |-> late])]
          /\ late => raced
     /\ ~NotEntered(i) /\ ~LastHeard(i)

LEMMA HearsIt ==
  ASSUME RpcInv, NEW i \in 1..Len(asker), i \in Id, NEW final \in BOOLEAN, NEW late \in BOOLEAN,
         ~LastHeard(i), late => raced, raced' = raced, asker' = asker,
         heard' = [heard EXCEPT ![i] =
                     Append(@, [by |-> asker[i].by, final |-> final, late |-> late])]
  PROVE  /\ heard' \in [Id -> Seq(Call)]
         /\ \A j \in Id : j # i => heard'[j] = heard[j]
         /\ \A k \in DOMAIN heard'[i] : /\ heard'[i][k].final => k = Len(heard'[i])
                                        /\ heard'[i][k].late => raced'
                                        /\ heard'[i][k].by = asker'[i].by
         /\ LastHeard(i)' => final
<1>1. asker[i].by \in Caller
  <2>1. asker[i] \in Asking
    BY DEF RpcInv, ClientTypes
  <2>2. QED
    BY <2>1 DEF Asking
<1>2. PICK x : x = [by |-> asker[i].by, final |-> final, late |-> late]
  OBVIOUS
<1>3. x \in Call /\ x.by = asker[i].by /\ x.final = final /\ x.late = late
  BY <1>1, <1>2 DEF Call
<1>4. heard \in [Id -> Seq(Call)]
  BY DEF RpcInv, ClientTypes
<1>5. PICK h : h = heard[i]
  OBVIOUS
<1>6. h \in Seq(Call)
  BY <1>4, <1>5
<1>7. PICK more : more = Append(h, x)
  OBVIOUS
<1>8. more \in Seq(Call) /\ Len(more) = Len(h) + 1 /\ Len(h) \in Nat
  BY <1>3, <1>6, <1>7, Added
<1>9. \A k \in DOMAIN more : \/ k \in DOMAIN h /\ more[k] = h[k]
                             \/ k = Len(h) + 1 /\ more[k] = x
  BY <1>3, <1>6, <1>7, AddedOne
<1>10. heard' = [heard EXCEPT ![i] = more]
  BY <1>2, <1>5, <1>7
<1>11. /\ heard' \in [Id -> Seq(Call)] /\ heard'[i] = more
       /\ \A j \in Id : j # i => heard'[j] = heard[j]
  BY <1>4, <1>8, <1>10
<1>12. \A k \in DOMAIN h : ~h[k].final /\ (h[k].late => raced) /\ h[k].by = asker[i].by
  BY <1>5 DEF LastHeard, RpcInv, ClientsInv, AllHeardIsTrue, HeardIsTrue
<1>13. \A k \in DOMAIN more : /\ more[k].final => k = Len(more) /\ final
                              /\ more[k].late => raced
                              /\ more[k].by = asker[i].by
  BY <1>3, <1>8, <1>9, <1>12
<1>14. QED
  BY <1>11, <1>13 DEF LastHeard

LEMMA ReadGrows ==
  ASSUME RpcInv, UNCHANGED <<chain, asker>>, SessionsFrom, Len(conn') = Len(conn),
         \A o \in 1..Len(conn) : /\ conn'[o].counter = conn[o].counter
                                 /\ conn'[o].clients = conn[o].clients
  PROVE  Grows
<1>1. Len(conn) \in Nat /\ Len(asker) \in Nat /\ \A o \in 1..Len(conn) : conn[o].counter \in Nat
  BY Counters DEF RpcInv, ClientTypes
<1>2. ASSUME NEW o \in 1..Len(conn), Cut(o) PROVE Cut(o)'
  <2>1. chain[o].s \in 0..Len(sess) /\ chain[o].s # 0 /\ sess[chain[o].s].cut /\ Len(sess) \in Nat
    BY <1>2 DEF Cut, RpcInv, ChainsAreTrue, ChainIsTrue, LinkTypes
  <2>2. chain[o].s \in 1..Len(sess)
    BY <2>1
  <2>3. QED
    BY <2>1, <2>2 DEF Cut, SessionsFrom, SessionFrom
<1>3. Len(conn) <= Len(conn') /\ Len(asker) <= Len(asker')
  BY <1>1
<1>4. \A o \in 1..Len(conn) : conn[o].counter <= conn'[o].counter
  BY <1>1
<1>5. QED
  BY <1>2, <1>3, <1>4 DEF Grows

\* Object o reads a reply r, which ends the request if it is the last one.
LEMMA DispatchStep ==
  ASSUME RpcInv, NEW o \in 1..Len(conn), NEW r \in Reply, ~ended, ~Cut(o),
         NEW k \in 1..Len(sess), NEW x \in Session, sess' = [sess EXCEPT ![k] = x],
         SessionFrom(sess[k], x), x.peer = sess[k].peer,
         conn' = [conn EXCEPT ![o] = Dispatched(@, r)],
         HearsOf(r.id, r.final), heard' # heard => MadeOn(r.id, o),
         lost' = lost \/ lost' = lost \cup {r.id},
         UNCHANGED <<chain, before, cur, user, asker, evicted, raced, belated, secure, ended, server>>
  PROVE  RpcInv'
<1>1. /\ conn \in Seq(Connection) /\ Len(conn) \in Nat /\ heard \in [Id -> Seq(Call)]
      /\ r.id \in Id /\ r.final \in BOOLEAN /\ lost \subseteq Id /\ Len(sess) \in Nat
      /\ Len(asker) \in Nat /\ Len(asker) <= MaxId /\ MaxId \in Nat
  BY RpcAssumption DEF RpcInv, ClientTypes, ServerTypes, LinkTypes, Reply
<1>2. PICK c, y : c = conn[o] /\ y = Dispatched(c, r)
  OBVIOUS
<1>3. c \in Connection /\ c.index = Mirror(c.table)
  BY <1>2, Counters DEF RpcInv, ClientsInv, TablesAreTrue, TableIsTrue
<1>4. /\ y \in Connection /\ y.alive = c.alive /\ y.counter = c.counter /\ y.clients = c.clients
      /\ y.table = IF r.final THEN {p \in c.table : p[1] # r.id} ELSE c.table
      /\ y.index = Mirror(y.table)
  <2>1. DispatchedIs(c, r, y)
    BY <1>2, <1>3, DispatchedKeeps
  <2>2. QED
    BY <2>1 DEF DispatchedIs
<1>5. conn' = [conn EXCEPT ![o] = y]
  BY <1>2
<1>6. /\ conn' \in Seq(Connection) /\ Len(conn') = Len(conn) /\ conn'[o] = y
      /\ \A m \in 1..Len(conn) : m # o => conn'[m] = conn[m]
  BY <1>1, <1>4, <1>5, Changed
<1>7. \A m \in 1..Len(conn) :
        /\ conn'[m].alive = conn[m].alive /\ conn'[m].counter = conn[m].counter
        /\ conn'[m].clients = conn[m].clients /\ conn'[m].table \subseteq conn[m].table
        /\ conn'[m].index = Mirror(conn'[m].table)
  <2>1. \A m \in 1..Len(conn) : conn[m].index = Mirror(conn[m].table)
    BY DEF RpcInv, ClientsInv, TablesAreTrue, TableIsTrue
  <2>2. y.table \subseteq c.table
    BY <1>4
  <2>3. QED
    BY <1>2, <1>4, <1>6, <2>1, <2>2
<1>8. /\ SessionsFrom /\ sess'[k] = x
      /\ \A j \in 1..Len(sess) : j # k => sess'[j] = sess[j]
  BY OneSession
<1>9. Grows
  BY <1>6, <1>7, <1>8, ReadGrows
<1>10. /\ heard' \in [Id -> Seq(Call)]
       /\ \A j \in Id : j # r.id => heard'[j] = heard[j]
       /\ heard' = heard \/ (/\ ~NotEntered(r.id) /\ r.id \in 1..Len(asker)
                             /\ LastHeard(r.id)' => r.final
                             /\ \A n \in DOMAIN heard'[r.id] :
                                  /\ heard'[r.id][n].final => n = Len(heard'[r.id])
                                  /\ heard'[r.id][n].late => raced'
                                  /\ heard'[r.id][n].by = asker'[r.id].by)
  <2>1. CASE heard' = heard
    BY <1>1, <2>1
  <2>2. CASE heard' # heard
    <3>1. r.id \in 1..Len(asker)
      BY <2>2 DEF MadeOn
    <3>2. PICK late \in BOOLEAN :
            /\ heard' = [heard EXCEPT ![r.id] =
                           Append(@, [by |-> asker[r.id].by, final |-> r.final, late |-> late])]
            /\ late => raced
      BY <2>2 DEF HearsOf
    <3>3. ~NotEntered(r.id) /\ ~LastHeard(r.id)
      BY <2>2 DEF HearsOf
    <3>4. PICK i, f : i = r.id /\ f = r.final
      OBVIOUS
    <3>5. /\ heard' = [heard EXCEPT ![i] =
                         Append(@, [by |-> asker[i].by, final |-> f, late |-> late])]
          /\ ~LastHeard(i) /\ i \in 1..Len(asker) /\ i \in Id /\ f \in BOOLEAN
      BY <1>1, <3>1, <3>2, <3>3, <3>4
    <3>6. /\ heard' \in [Id -> Seq(Call)]
          /\ \A j \in Id : j # i => heard'[j] = heard[j]
          /\ \A n \in DOMAIN heard'[i] : /\ heard'[i][n].final => n = Len(heard'[i])
                                         /\ heard'[i][n].late => raced'
                                         /\ heard'[i][n].by = asker'[i].by
          /\ LastHeard(i)' => f
      BY <3>2, <3>5, HearsIt
    <3>7. QED
      BY <3>1, <3>3, <3>4, <3>6 DEF LastHeard
  <2>3. QED
    BY <2>1, <2>2
<1>11. ClientTypes'
  BY <1>6, <1>10 DEF RpcInv, ClientTypes
<1>12. LinkTypes'
  BY <1>6, <1>8 DEF RpcInv, LinkTypes, SessionsFrom
<1>13. SessionsAreTrue'
  <2>1. Len(sess') = Len(sess)
    BY <1>8 DEF SessionsFrom
  <2>2. \A j \in 1..Len(sess) : SessionIsTrue(j)'
    BY <1>8, <1>9, <1>11, SessionsLast DEF SessionsFrom
  <2>3. QED
    BY <2>1, <2>2 DEF SessionsAreTrue
<1>14. ServerTypes' /\ ServersAreTrue'
  <2>1. Len(sess') \in Nat /\ Len(sess) <= Len(sess')
    BY <1>1, <1>8 DEF SessionsFrom
  <2>2. lost \subseteq lost' /\ lost' \subseteq Id
    BY <1>1
  <2>3. \A j \in 1..Len(sess) : sess[j].peer = "good" => sess'[j].peer = "good"
    BY <1>8
  <2>4. QED
    BY <1>9, <1>11, <2>1, <2>2, <2>3, ServersLast
<1>15. ChainsAreTrue'
  <2>1. Len(sess') = Len(sess)
    BY <1>8 DEF SessionsFrom
  <2>2. QED
    BY <1>6, <2>1 DEF RpcInv, ChainsAreTrue, ChainIsTrue
<1>16. ClientsAreTrue'
  BY <1>6, <1>7 DEF RpcInv, ClientsInv, ClientsAreTrue, ClientsOf
<1>17. \A j, m : MadeOn(j, m) => MadeOn(j, m)'
  BY DEF MadeOn
<1>18. TablesAreTrue'
  <2> SUFFICES ASSUME NEW m \in 1..Len(conn) PROVE TableIsTrue(m)'
    BY <1>6 DEF TablesAreTrue
  <2>1. TableIsTrue(m)
    BY DEF RpcInv, ClientsInv, TablesAreTrue
  <2>2. QED
    BY <1>7, <1>17, <2>1 DEF TableIsTrue
<1>19. PlacesAreTrue'
  BY <1>6, <1>7, <1>9, PlacesRemain
<1>20. ASSUME NEW j \in Id, NotEntered(j) PROVE NotEntered(j)'
  <2>1. heard'[j] = heard[j]
    BY <1>10, <1>20
  <2>2. QED
    BY <1>6, <1>7, <1>20, <2>1 DEF NotEntered, LastHeard
<1>21. BuffersAreTrue'
  <2> SUFFICES ASSUME NEW m \in 1..Len(conn) PROVE BufferIsTrue(m)'
    BY <1>6 DEF BuffersAreTrue
  <2>1. before[m].wait \in Seq(Nat \X Id) /\ before[m].copy \in Seq(Nat \X Id)
    <3>1. before[m] \in Buffer
      BY DEF RpcInv, ClientTypes
    <3>2. QED
      BY <3>1 DEF Buffer
  <2>2. \A j : InBuffer(j, m) => j \in Id
    BY <2>1 DEF InBuffer
  <2>3. \A j : InBuffer(j, m) /\ NotEntered(j) => NotEntered(j)'
    BY <1>20, <2>2
  <2>4. QED
    BY <1>9, <1>11, <2>3, BufferLasts
<1>22. CallersEnter'
  <2>1. ASSUME NEW d \in Caller PROVE CallerEnters(d)'
    <3>1. PICK j : j = user[d].id
      OBVIOUS
    <3>2. WillEnter(d) => j \in Id
      BY <3>1, OwnRequest DEF WillEnter, Asks
    <3>3. WillEnter(d) /\ NotEntered(j) => NotEntered(j)'
      BY <1>20, <3>2
    <3>4. WillEnter(d) /\ NotEntered(user[d].id) => NotEntered(user[d].id)'
      BY <3>1, <3>3 DEF NotEntered, LastHeard
    <3>5. WillEnter(d)' <=> WillEnter(d)
      BY DEF WillEnter
    <3>6. QED
      BY <3>4, <3>5, CallerLasts
  <2>2. QED
    BY <2>1 DEF CallersEnter
<1>23. AllHeardIsTrue'
  <2>1. ASSUME NEW j \in Id, heard'[j] = heard[j] PROVE HeardIsTrue(j)'
    <3>1. HeardIsTrue(j)
      BY <2>1 DEF RpcInv, ClientsInv, AllHeardIsTrue
    <3>2. LastHeard(j)' <=> LastHeard(j)
      BY <2>1 DEF LastHeard
    <3>3. QED
      BY <1>6, <1>7, <2>1, <3>1, <3>2 DEF HeardIsTrue
  <2>2. CASE heard' = heard
    BY <2>1, <2>2 DEF AllHeardIsTrue
  <2>3. CASE heard' # heard
    <3>1. r.id \in 1..Len(asker) /\ MadeOn(r.id, o)
      BY <2>3 DEF MadeOn
    <3>2. LastHeard(r.id)' => r.final
      BY <1>10, <2>3
    <3>3. ASSUME r.final, NEW m \in 1..Len(conn), NEW p \in conn'[m].table PROVE p[1] # r.id
      <4>1. CASE m = o
        BY <1>4, <1>6, <3>3, <4>1
      <4>2. CASE m # o
        <5>1. MadeOn(p[1], m)
          BY <1>7, <3>3 DEF RpcInv, ClientsInv, TablesAreTrue, TableIsTrue
        <5>2. QED
          BY <3>1, <4>2, <5>1 DEF MadeOn
      <4>3. QED
        BY <4>1, <4>2
    <3>4. PICK i : i = r.id
      OBVIOUS
    <3>5. HeardIsTrue(i)'
      <4>1. i \in 1..Len(asker')
        BY <3>1, <3>4
      <4>2. \A n \in DOMAIN heard'[i] : /\ heard'[i][n].final => n = Len(heard'[i])
                                        /\ heard'[i][n].late => raced'
                                        /\ heard'[i][n].by = asker'[i].by
        BY <1>10, <2>3, <3>4
      <4>3. LastHeard(i)' <=> LastHeard(r.id)'
        BY <3>4 DEF LastHeard
      <4>4. LastHeard(i)' => \A m \in 1..Len(conn') : \A p \in conn'[m].table : p[1] # i
        BY <1>6, <3>2, <3>3, <3>4, <4>3
      <4>5. QED
        BY <4>1, <4>2, <4>4 DEF HeardIsTrue
    <3>6. \A j \in Id : j # i => HeardIsTrue(j)'
      BY <1>10, <2>1, <3>4
    <3>7. QED
      BY <3>5, <3>6 DEF AllHeardIsTrue
  <2>4. QED
    BY <2>2, <2>3
<1>24. QED
  BY <1>9, <1>11, <1>12, <1>13, <1>14, <1>15, <1>16, <1>18, <1>19, <1>21, <1>22, <1>23, TurnStep

LEMMA ReadStep ==
  ASSUME RpcInv, NEW o \in 1..Len(chain), RpcClientOnRead(o)
  PROVE  RpcInv'
<1>1. UNCHANGED <<cur, user, asker, evicted, server, raced, belated>>
  BY DEF RpcClientOnRead, undefVars
<1>2. CASE /\ FailsToRead(o, "reading")
           /\ before' = [before EXCEPT ![o].ready = FALSE]
           /\ UNCHANGED <<conn, heard, lost>>
  <2>1. /\ chain[o].at \notin {"sending", "writing"} /\ Turns(o, "failed")
        /\ UNCHANGED <<sess, secure, ended>>
    BY <1>2 DEF FailsToRead, Due
  <2>2. QED
    BY <1>1, <1>2, <2>1, FailStep
<1>3. CASE /\ Due(o, "reading") /\ sess[chain[o].s].down # <<>>
           /\ LET k == chain[o].s
                  r == Head(sess[k].down)
                  calls == CallsOf(o, r)
              IN  /\ sess' = [sess EXCEPT ![k].down = Tail(@)]
                  /\ conn' = [conn EXCEPT ![o] = Dispatched(@, r)]
                  /\ \/ /\ heard' = [heard EXCEPT ![r.id] = @ \o SetToSeq(calls)]
                        /\ UNCHANGED <<lost, faults>>
                     \/ /\ calls # {} /\ Fault
                        /\ lost' = IF r.final THEN lost \cup {r.id} ELSE lost
                        /\ UNCHANGED heard
           /\ UNCHANGED <<secure, chain, site, ended, before>>
  <2>1. PICK k, down : k = chain[o].s /\ down = sess[k].down
    OBVIOUS
  <2>2. /\ o \in 1..Len(conn) /\ ~ended /\ k \in 1..Len(sess) /\ sess[k] \in Session
        /\ down # <<>> /\ SessionFrom(sess[k], sess[k])
    <3>1. /\ o \in 1..Len(conn) /\ ChainIsTrue(o) /\ chain[o].at = "reading" /\ ~ended
          /\ Len(sess) \in Nat
      <4>1. o \in 1..Len(conn) /\ ChainIsTrue(o)
        BY Chains
      <4>2. chain[o].at = "reading" /\ ~ended
        BY <1>3 DEF Due
      <4>3. Len(sess) \in Nat
        BY Sessions
      <4>4. QED
        BY <4>1, <4>2, <4>3
    <3>2. k \in 0..Len(sess) /\ k # 0
      BY <2>1, <3>1 DEF ChainIsTrue
    <3>3. k \in 1..Len(sess)
      BY <3>1, <3>2
    <3>4. QED
      BY <1>3, <2>1, <3>1, <3>3, Sessions
  <2>3. ~sess[k].cut /\ ~Cut(o)
    <3>1. ~sess[k].cut
      BY <2>1, <2>2 DEF RpcInv, SessionsAreTrue, SessionIsTrue
    <3>2. QED
      BY <2>1, <3>1 DEF Cut
  <2>4. down \in Seq(Reply)
    BY <2>1, <2>2 DEF Session
  <2>5. PICK r, rest : r = Head(down) /\ rest = Tail(down)
    OBVIOUS
  <2>6. r \in Reply /\ rest \in Seq(Reply)
    BY <2>2, <2>4, <2>5, Taken
  <2>7. PICK x : x = [sess[k] EXCEPT !.down = rest]
    OBVIOUS
  <2>8. /\ x \in Session /\ x.down = rest /\ x.cut = sess[k].cut /\ x.up = sess[k].up
        /\ x.peer = sess[k].peer
    BY <2>2, <2>6, <2>7 DEF Session
  <2>9. SessionFrom(sess[k], x)
    BY <2>2, <2>3, <2>8 DEF SessionFrom
  <2>10. sess' = [sess EXCEPT ![k] = x]
    BY <1>3, <2>1, <2>5, <2>7
  <2>11. conn' = [conn EXCEPT ![o] = Dispatched(@, r)]
    BY <1>3, <2>1, <2>5
  <2>12. \/ heard' = heard /\ (lost' = lost \/ lost' = lost \cup {r.id})
         \/ heard' = [heard EXCEPT ![r.id] = @ \o SetToSeq(CallsOf(o, r))] /\ lost' = lost
    BY <1>3, <2>1, <2>5
  <2>13. HearsOf(r.id, r.final) /\ (heard' # heard => MadeOn(r.id, o))
    <3>1. CASE heard' = heard
      BY <3>1 DEF HearsOf
    <3>2. CASE heard' = [heard EXCEPT ![r.id] = @ \o SetToSeq(CallsOf(o, r))]
      <4>1. heard \in [Id -> Seq(Call)] /\ r.id \in Id
        BY <2>6 DEF RpcInv, ClientTypes, Reply
      <4>2. PICK h : h = heard[r.id]
        OBVIOUS
      <4>3. h \in Seq(Call)
        BY <4>1, <4>2
      <4>4. CASE CallsOf(o, r) = {}
        <5>1. SetToSeq(CallsOf(o, r)) = <<>>
          BY <4>4, SeqOfOne
        <5>2. h \o <<>> = h
          BY <4>3
        <5>3. heard' = [heard EXCEPT ![r.id] = h]
          BY <3>2, <4>2, <5>1, <5>2
        <5>4. heard' = heard
          BY <4>1, <4>2, <5>3
        <5>5. QED
          BY <5>4, <3>1 DEF HearsOf
      <4>5. ASSUME NEW late \in BOOLEAN,
                   CallsOf(o, r) = {[by |-> asker[r.id].by, final |-> r.final, late |-> late]},
                   late => raced, ~NotEntered(r.id), ~LastHeard(r.id), MadeOn(r.id, o)
            PROVE  HearsOf(r.id, r.final)
        <5>1. PICK c : c = [by |-> asker[r.id].by, final |-> r.final, late |-> late]
          OBVIOUS
        <5>2. SetToSeq(CallsOf(o, r)) = <<c>>
          BY <4>5, <5>1, SeqOfOne
        <5>3. h \o <<c>> = Append(h, c)
          BY <4>3, OneMore
        <5>4. heard' = [heard EXCEPT ![r.id] = Append(h, c)]
          BY <3>2, <4>2, <5>2, <5>3
        <5>5. heard' = [heard EXCEPT ![r.id] =
                Append(@, [by |-> asker[r.id].by, final |-> r.final, late |-> late])]
          BY <4>2, <5>1, <5>4
        <5>6. QED
          BY <4>5, <5>5 DEF HearsOf
      <4>6. QED
        BY <2>2, <2>3, <2>6, <4>4, <4>5, CallsAreTrue
    <3>3. QED
      BY <2>12, <3>1, <3>2
  <2>14. lost' = lost \/ lost' = lost \cup {r.id}
    BY <2>12
  <2>15. UNCHANGED <<chain, before, secure, ended>>
    BY <1>3
  <2>16. QED
    BY <1>1, <2>2, <2>3, <2>6, <2>8, <2>9, <2>10, <2>11, <2>13, <2>14, <2>15, DispatchStep
<1>4. QED
  BY <1>2, <1>3 DEF RpcClientOnRead

LEMMA ClientChainStep ==
  ASSUME RpcInv, NEW o \in 1..Len(chain), ClientChain(o)
  PROVE  RpcInv'
<1>1. CASE RpcClientOnResolve(o)
  BY <1>1, ResolveStep
<1>2. CASE RpcClientOnConnect(o)
  BY <1>2, ConnectStep
<1>3. CASE RpcClientOnSSLHandshake(o)
  BY <1>3, SecureStep
<1>4. CASE RpcClientOnWebSocketHandshake(o)
  BY <1>4, HandshakeStep
<1>5. CASE RpcClientOnRead(o)
  BY <1>5, ReadStep
<1>6. CASE RpcClientFails(o)
  BY <1>6, ClientFailsStep
<1>7. QED
  BY <1>1, <1>2, <1>3, <1>4, <1>5, <1>6 DEF ClientChain

LEMMA RpcStepKeeps ==
  ASSUME RpcInv, RpcStep
  PROVE  RpcInv'
BY CallerStepsStep, ClientChainStep, HandlersStep, ServerStepsStep DEF RpcStep

-----------------------------------------------------------------------------
(* The invariant.                                                          *)

LEMMA CallsStep ==
  ASSUME WebRpc, RpcInv, [Next]_vars
  PROVE  RpcInv'
<1>1. CASE SubscriberStep /\ Broadcasts
  <2>1. UNCHANGED linkVars
    BY <1>1, SubscriberRests DEF WebRpc, WebSocket
  <2>2. UNCHANGED <<conn, cur, user, asker, heard, evicted, raced, belated, before, server, lost>>
    BY <1>1 DEF Broadcasts, clientVars, webRpcVars
  <2>3. QED
    BY <2>1, <2>2, SiteStep DEF linkVars
<1>2. CASE FinalizeNext
  BY <1>2, SiteStep DEF FinalizeNext, WebFinalizeEnvironment, RunsPorts, SetsStarted, rpcVars,
     clientVars, undefVars, webRpcVars
<1>3. CASE UNCHANGED vars
  BY <1>3, SiteStep DEF vars, rpcVars, linkVars, clientVars, undefVars, webRpcVars
<1>4. QED
  BY <1>1, <1>2, <1>3, StepIsOne, RpcStepKeeps

LEMMA NobodyCallsStep ==
  ASSUME ~WebRpc, NobodyCalls, [Next]_vars
  PROVE  NobodyCalls'
<1>1. UNCHANGED <<conn, asker, server>>
  BY StepIsOne, RpcStepsKeepListeners DEF Broadcasts, FinalizeNext, vars, rpcVars, clientVars
<1>2. QED
  BY <1>1 DEF NobodyCalls

LEMMA NothingAtFirst ==
  ASSUME Init
  PROVE  /\ kind \in {"websocket_rpc", "websocket"} /\ secure \in BOOLEAN
         /\ server \in [Server -> Service]
         /\ \A s \in Server : server[s].table = {} /\ server[s].index = {} /\ server[s].work = {}
<1>1. PICK x \in Scenario : /\ kind = x.kind /\ secure = x.secure
                            /\ server = [s \in Server |-> IF x.there THEN Serving ELSE Down]
  BY DEF Init
<1>2. /\ Down \in Service /\ Serving \in Service
      /\ \A y \in {Down, Serving} : y.table = {} /\ y.index = {} /\ y.work = {}
  <2>1. Down \in Service /\ Down.table = {} /\ Down.index = {} /\ Down.work = {}
    BY DEF Down, Service
  <2>2. PICK z : z = [Down EXCEPT !.up = TRUE, !.ready = TRUE]
    OBVIOUS
  <2>3. z \in Service /\ z.table = {} /\ z.index = {} /\ z.work = {}
    BY <2>1, <2>2 DEF Service
  <2>4. QED
    BY <2>1, <2>2, <2>3 DEF Serving
<1>3. \A s \in Server : server[s] \in {Down, Serving}
  BY <1>1
<1>4. QED
  BY <1>1, <1>2, <1>3, WebAssumption

LEMMA CallsAtFirst ==
  ASSUME Init
  PROVE  RpcInv
<1>1. /\ conn = <<>> /\ cur = 0 /\ asker = <<>> /\ before = <<>> /\ chain = <<>> /\ sess = <<>>
      /\ evicted = {} /\ lost = {} /\ raced = FALSE /\ belated = FALSE /\ ended = FALSE
      /\ heard = [i \in Id |-> <<>>]
      /\ user = [c \in Caller |-> [at |-> "out", o |-> 0, num |-> 0, id |-> 0, left |-> FALSE]]
  BY DEF Init, RpcInit, LinkInit, WebRpcInit
<1>2. /\ Len(conn) = 0 /\ Len(asker) = 0 /\ Len(sess) = 0 /\ Len(chain) = 0 /\ Len(before) = 0
  BY <1>1
<1>3. \A c \in Caller : user[c] \in Using /\ user[c].at = "out"
  BY <1>1 DEF Using, WebUserAt
<1>4. ClientTypes
  <2>1. conn \in Seq(Connection) /\ cur \in 0..Len(conn) /\ asker \in Seq(Asking)
    BY <1>1, <1>2
  <2>2. user \in [Caller -> Using]
    BY <1>1, <1>3
  <2>3. Len(asker) <= MaxId /\ before \in Seq(Buffer) /\ Len(before) = Len(conn)
    BY <1>1, <1>2, RpcAssumption
  <2>4. heard \in [Id -> Seq(Call)]
    <3>1. <<>> \in Seq(Call)
      OBVIOUS
    <3>2. QED
      BY <1>1, <3>1
  <2>5. evicted \subseteq Caller /\ {raced, belated} \subseteq BOOLEAN
    BY <1>1
  <2>6. QED
    BY <2>1, <2>2, <2>3, <2>4, <2>5 DEF ClientTypes
<1>5. LinkTypes
  <2>1. chain \in Seq(Chain) /\ sess \in Seq(Session) /\ ended \in BOOLEAN
    <3>1. <<>> \in Seq(Chain)
      OBVIOUS
    <3>2. <<>> \in Seq(Session)
      OBVIOUS
    <3>3. QED
      BY <1>1, <3>1, <3>2
  <2>2. QED
    BY <1>2, <2>1, NothingAtFirst DEF LinkTypes
<1>6. ServerTypes
  BY <1>1, NothingAtFirst DEF ServerTypes
<1>7. ChainsAreTrue /\ SessionsAreTrue
  BY <1>2 DEF ChainsAreTrue, SessionsAreTrue
<1>8. UsersAreTrue
  BY <1>3 DEF UsersAreTrue, UserIsTrue, Numbered, Asks
<1>9. ClientsAreTrue /\ PlacesAreTrue /\ AskersAreTrue /\ TablesAreTrue /\ BuffersAreTrue
  BY <1>1, <1>2 DEF ClientsAreTrue, PlacesAreTrue, AskersAreTrue, TablesAreTrue, BuffersAreTrue
<1>10. CallersEnter
  BY <1>3 DEF CallersEnter, CallerEnters, WillEnter
<1>11. AllHeardIsTrue
  BY <1>1 DEF AllHeardIsTrue, HeardIsTrue, LastHeard
<1>12. ServersAreTrue
  BY NothingAtFirst DEF ServersAreTrue, ServiceIsTrue, Mirror
<1>13. QED
  BY <1>4, <1>5, <1>6, <1>7, <1>8, <1>9, <1>10, <1>11, <1>12 DEF RpcInv, ClientsInv

\* Spec keeps what the two invariants of remote calls rest on.
LEMMA SpecKeepsIndInv == Spec => []IndInv
<1>1. Init => IndInv
  BY NothingAtFirst, CallsAtFirst, ListenersAtFirst
     DEF IndInv, NobodyCalls, Init, RpcInit
<1>2. IndInv /\ [Next]_vars => IndInv'
  <2> SUFFICES ASSUME IndInv, [Next]_vars PROVE IndInv'
    OBVIOUS
  <2>1. ListenersInv' /\ kind' = kind
    BY StepKeepsListeners DEF IndInv
  <2>2. WebRpc => RpcInv'
    BY CallsStep DEF IndInv
  <2>3. ~WebRpc => NobodyCalls'
    BY NobodyCallsStep DEF IndInv
  <2>4. QED
    BY <2>1, <2>2, <2>3 DEF IndInv, WebRpc
<1>3. QED
  BY <1>1, <1>2, PTL DEF Spec

\* A callback hears of the requests of its own client only, never when that has
\* been removed, and nothing after the last reply (onRead and removeClient under
\* clientsMutex_), whichever thread emptied the buffer that a request waited in.
THEOREM WebRepliesAlwaysGoHome == Spec => []WebRepliesGoHome
<1>1. IndInv => WebRepliesGoHome
  <2>1. CASE RpcInv
    <3>1. Len(asker) \in Nat /\ Len(asker) <= MaxId
      BY <2>1 DEF RpcInv, ClientTypes
    <3>2. \A i \in 1..Len(asker) : i \in Id
      BY <3>1, RpcAssumption DEF Id
    <3>3. QED
      BY <2>1, <3>2 DEF RpcInv, ClientsInv, AllHeardIsTrue, HeardIsTrue, WebRepliesGoHome
  <2>2. CASE NobodyCalls
    BY <2>2 DEF NobodyCalls, WebRepliesGoHome
  <2>3. QED
    BY <2>1, <2>2 DEF IndInv
<1>2. QED
  BY <1>1, SpecKeepsIndInv, PTL

\* The two tables of a client object, and those of the server, are each other's
\* inverse; an entry is of a client that is there unless its request was written
\* when that had been removed, the server's are of handlers that were not
\* removed, and what the facility works on is in them or is lost (doSendRequest
\* and onRead under clientsMutex_, removeClientHandler and sendReply under
\* outstandingRequestsMutex_).
THEOREM WebTablesAlwaysAgree == Spec => []WebTablesAgree
<1>1. IndInv => WebTablesAgree
  <2>1. CASE RpcInv
    <3>1. ASSUME NEW o \in 1..Len(conn)
          PROVE  /\ conn[o].index = {<<p[2], p[1]>> : p \in conn[o].table}
                 /\ \A p \in conn[o].table :
                      \/ belated \/ raced \/ asker[p[1]].by \in evicted
                      \/ \E q \in conn[o].clients : q[1] = p[2]
      BY <2>1 DEF RpcInv, ClientsInv, TablesAreTrue, TableIsTrue, Mirror
    <3>2. ASSUME NEW s \in Server
          PROVE  /\ server[s].index = {<<p[2], p[1]>> : p \in server[s].table}
                 /\ \A p \in server[s].table : sess[p[2]].peer # "gone"
                 /\ server[s].work \subseteq {p[1] : p \in server[s].table} \cup lost
      <4>1. ServiceIsTrue(server[s])
        BY <2>1 DEF RpcInv, ServersAreTrue
      <4>2. QED
        BY <4>1 DEF ServiceIsTrue, EntryIsTrue, Mirror
    <3>3. QED
      BY <3>1, <3>2 DEF WebTablesAgree
  <2>2. CASE NobodyCalls
    <3>1. \A s \in Server : /\ server[s].index = {<<p[2], p[1]>> : p \in server[s].table}
                            /\ \A p \in server[s].table : sess[p[2]].peer # "gone"
                            /\ server[s].work \subseteq {p[1] : p \in server[s].table} \cup lost
      BY <2>2 DEF NobodyCalls
    <3>2. Len(conn) = 0
      BY <2>2 DEF NobodyCalls
    <3>3. QED
      BY <3>1, <3>2 DEF WebTablesAgree
  <2>3. QED
    BY <2>1, <2>2 DEF IndInv
<1>2. QED
  BY <1>1, SpecKeepsIndInv, PTL
=============================================================================
