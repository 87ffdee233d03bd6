----------------------------- MODULE Rpc_proofs -----------------------------
(***************************************************************************)
(* Proofs about remote calls, for every transport, any number of callers,  *)
(* servers, connections and requests, and any faults.                      *)
(***************************************************************************)
EXTENDS Rpc, FiniteSetTheorems, CommonLemmas

-----------------------------------------------------------------------------
(* What the state is made of.                                              *)

Connection ==
  [alive : BOOLEAN, running : BOOLEAN, gone : BOOLEAN,
   link : {"connecting", "up", "broken", "dead"}, counter : Nat,
   clients : SUBSET (Nat \X Caller), table : SUBSET (Id \X Nat), index : SUBSET (Nat \X Id),
   inbox : Seq(Reply), hand : Seq(Reply)]
Using   == [at : UserAt, o : Nat, num : Nat, id : 0..MaxId, left : BOOLEAN]
Asking  == [by : Caller, o : Nat, num : Nat]
Call    == [by : Caller, final : BOOLEAN, late : BOOLEAN]
Service == [up : BOOLEAN, ready : BOOLEAN, inbox : Seq(Id \X Nat), table : SUBSET (Id \X Nat),
            index : SUBSET (Nat \X Id), work : SUBSET Id, said : SUBSET Id]
Reactor == [at : {"none", "open", "over", "leaked"}, stopped : BOOLEAN,
            hand : {"none", "reply", "done"}, wire : Nat, reads : 0..1, closed : BOOLEAN,
            resps : Seq(BOOLEAN), writes : Nat]

ClientTypes ==
  /\ conn \in Seq(Connection) /\ cur \in 0..Len(conn)
  /\ lock \in Caller \cup {Nobody}
  /\ user \in [Caller -> Using]
  /\ asker \in Seq(Asking) /\ Len(asker) <= MaxId
  /\ evicted \subseteq Caller /\ {misused, strayed, raced, belated} \subseteq BOOLEAN
  /\ role \in [Caller -> Roles]

ServerTypes ==
  /\ server \in [Server -> Service]
  /\ queue \in Seq(Id \X Nat)

HeardTypes ==
  /\ heard \in [Id -> Seq(Call)]
  /\ reactor \in [Id -> Reactor] /\ single \in BOOLEAN

Types == ClientTypes /\ ServerTypes /\ HeardTypes

-----------------------------------------------------------------------------
(* The clients and their connections.                                      *)

\* A caller with a number.
Numbered(c) == user[c].at \in {"ready", "asking"}

\* The connection that is there is the component's.
OneIsAlive ==
  /\ ~Grpc => \A o \in 1..Len(conn) : conn[o].alive <=> o = cur
  /\ Grpc  => \A o \in 1..Len(conn) : conn[o].alive
  /\ RabbitMQ => \A o \in 1..Len(conn) : conn[o].alive \/ conn[o].gone
  /\ lock # Nobody => cur # 0

\* Where callers point to, and that no two have the same number there.
PointersAreTrue ==
  /\ ~Grpc => \A c \in Caller :
       /\ user[c].at \in {"adding", "ready", "asking"} => user[c].o \in 1..Len(conn)
       /\ Numbered(c) => user[c].num \in 1..conn[user[c].o].counter
  /\ ~Grpc => \A c, d \in Caller :
       Numbered(c) /\ Numbered(d) /\ user[c].o = user[d].o /\ user[c].num = user[d].num
         => c = d
  /\ \A c \in Caller : user[c].at = "asking" =>
       /\ Redis \/ RabbitMQ
       /\ user[c].id \in 1..Len(asker) /\ asker[user[c].id].o = user[c].o

\* A client is a caller that has been added and not removed ...
ClientsAreUsers ==
  ~Grpc => \A o \in 1..Len(conn) : conn[o].alive => \A p \in conn[o].clients :
    /\ Numbered(p[2]) /\ ~user[p[2]].left
    /\ user[p[2]].o = o /\ user[p[2]].num = p[1]

\* ... and such a caller is a client, if its connection is there and no other
\* caller's removal took it; nobody points to a connection that is not there
\* but where it was freed too early.
UsersAreClients ==
  ~Grpc => \A c \in Caller :
    /\ Numbered(c) /\ ~user[c].left /\ c \notin evicted =>
         IF conn[user[c].o].alive THEN <<user[c].num, c>> \in conn[user[c].o].clients ELSE raced
    /\ user[c].at = "adding" /\ ~conn[user[c].o].alive => raced

\* Whose a request is, and that its number is still its caller's.
AskersAreTrue ==
  ~Grpc => \A i \in 1..Len(asker) :
    /\ asker[i].o \in 1..Len(conn) /\ asker[i].num \in 1..conn[asker[i].o].counter
    /\ conn[asker[i].o].alive => \A p \in conn[asker[i].o].clients :
         p[1] = asker[i].num => p[2] = asker[i].by

\* The tables of a connection have its own requests, and name its clients.
TablesAreTrue ==
  \A o \in 1..Len(conn) :
    /\ \A p \in conn[o].table :
         p[1] \in 1..Len(asker) /\ asker[p[1]].o = o /\ asker[p[1]].num = p[2]
    /\ conn[o].index = {<<p[2], p[1]>> : p \in conn[o].table}
    /\ Socket \/ Grpc => conn[o].table = {}
    /\ conn[o].alive => \A p \in conn[o].table :
         belated \/ asker[p[1]].by \in evicted \/ \E q \in conn[o].clients : q[1] = p[2]

\* A socket's connection has one client for ever, which is added at once, and
\* those that share a sender of gRPC are known to it by the first.
FixedClients ==
  /\ Socket => \A c \in Caller : user[c].at # "adding"
  /\ Socket => \A o \in 1..Len(conn) :
       conn[o].counter = 1 /\ \E c \in Caller : conn[o].clients = {<<1, c>>}
  /\ Grpc => lock = Nobody /\ \A o \in 1..Len(conn) : conn[o].clients # {}
  /\ Grpc => \A c \in Caller : role[c] \in {"remote", "facility"} =>
       /\ user[c].at # "out" => user[c].o \in 1..Len(conn)
       /\ \A i \in 1..Len(asker) : asker[i].by = c => asker[i].o \in 1..Len(conn)

ClientsInv ==
  /\ OneIsAlive /\ PointersAreTrue /\ ClientsAreUsers /\ UsersAreClients /\ AskersAreTrue
  /\ TablesAreTrue /\ FixedClients /\ FreedIsNotUsed

-----------------------------------------------------------------------------
(* Messages and the servers.                                               *)

\* Request i was made on connection o.
MadeOn(i, o) == i \in 1..Len(asker) /\ asker[i].o = o

\* The requests a server has been sent and not answered for the last time.
UnderWay(x) == {x.inbox[k][1] : k \in DOMAIN x.inbox} \cup x.work

\* What is true of a server: its messages and entries are of requests that
\* were made, one that is down has none, its tables agree, and over sockets
\* and gRPC it is sent a request once.
GoodService(x) ==
  /\ \A k \in DOMAIN x.inbox : MadeOn(x.inbox[k][1], x.inbox[k][2])
  /\ \A p \in x.table : MadeOn(p[1], p[2])
  /\ x.work \subseteq 1..Len(asker)
  /\ ~x.up => x.inbox = <<>> /\ x.work = {}
  /\ Redis \/ RabbitMQ \/ Grpc => x.work \subseteq {p[1] : p \in x.table}
  /\ Socket => x.index = {<<p[2], p[1]>> : p \in x.table}
  /\ Socket \/ Grpc => /\ \A k, l \in DOMAIN x.inbox : x.inbox[k][1] = x.inbox[l][1] => k = l
                       /\ \A k \in DOMAIN x.inbox : x.inbox[k][1] \notin x.work

OneServer == Socket \/ Grpc => \A s, t \in Server : server[s].up /\ server[t].up => s = t

QueueIsTrue == \A k \in DOMAIN queue : MadeOn(queue[k][1], queue[k][2])

ServersInv == (\A s \in Server : GoodService(server[s])) /\ OneServer /\ QueueIsTrue

RepliesAreTrue ==
  \A o \in 1..Len(conn) : /\ \A k \in DOMAIN conn[o].inbox : MadeOn(conn[o].inbox[k].id, o)
                          /\ \A k \in DOMAIN conn[o].hand : MadeOn(conn[o].hand[k].id, o)

-----------------------------------------------------------------------------
(* What callbacks are told.                                                *)

LastHeard(i) == \E k \in DOMAIN heard[i] : heard[i][k].final

HeardInv ==
  \A i \in Id :
    /\ i \notin 1..Len(asker) => heard[i] = <<>>
    /\ \A k \in DOMAIN heard[i] : heard[i][k].final => k = Len(heard[i])
    /\ ~Grpc => \A k \in DOMAIN heard[i] : ~heard[i][k].late /\ heard[i][k].by = asker[i].by

\* The last reply ends a request.
EndedIsForgotten ==
  Redis \/ RabbitMQ => \A i \in Id : LastHeard(i) =>
    \A o \in 1..Len(conn) : \A p \in conn[o].table : p[1] # i

\* A request over a socket is under way, or has had its last reply, which is
\* the last one on its way to the client, or was heard.
Ending(q, i) == \E k \in DOMAIN q : q[k].id = i /\ q[k].final

LastIsLast(q) == \A k, l \in DOMAIN q : q[k].final /\ k < l => q[l].id # q[k].id

SocketStages ==
  Socket =>
    /\ \A s \in Server : \A i \in UnderWay(server[s]) :
         ~LastHeard(i) /\ \A o \in 1..Len(conn) : ~Ending(conn[o].inbox, i)
    /\ \A o \in 1..Len(conn) :
         /\ \A k \in DOMAIN conn[o].inbox : ~LastHeard(conn[o].inbox[k].id)
         /\ LastIsLast(conn[o].inbox)

\* A call of gRPC with reactor x, of which h was heard: the last callback ends
\* it, and one that comes late is the only one.
GoodCall(i, x, h) ==
  /\ i \notin 1..Len(asker) => x = NoReactor
  /\ (\E k \in DOMAIN h : h[k].final) =>
       x.at = "over" \/ (single /\ x.reads = 1 /\ role[asker[i].by] = "native")
  /\ \A k, l \in DOMAIN h : h[k].late /\ h[l].late => k = l
  /\ (\E k \in DOMAIN h : h[k].late) => x.stopped /\ x.hand = "none"

\* One reply is written at a time, and after the last one the facility has
\* nothing more to say.
Writing(x) == \/ x.writes = 0 /\ x.resps = <<>>
              \/ x.writes = 1 /\ x.resps # <<>>
LastQueued(x) == \E k \in DOMAIN x.resps : x.resps[k]

GrpcStages ==
  /\ \A i \in Id : Writing(reactor[i])
  /\ Grpc => \A i \in Id :
       /\ GoodCall(i, reactor[i], heard[i])
       /\ LastQueued(reactor[i]) => \A s \in Server : i \notin UnderWay(server[s])

CallsInv == HeardInv /\ EndedIsForgotten /\ SocketStages /\ GrpcStages

IndInv == Types /\ ClientsInv /\ ServersInv /\ RepliesAreTrue /\ CallsInv

-----------------------------------------------------------------------------
(* Sequences.                                                              *)

\* SetToSeq of no element, and of one.
LEMMA SeqOfOne ==
  ASSUME NEW x
  PROVE  SetToSeq({}) = <<>> /\ SetToSeq({x}) = <<x>>
<1>1. SetToSeq({}) = <<>>
  <2>1. Cardinality({}) = 0
    BY FS_EmptySet
  <2>2. 1..0 = {} /\ <<>> \in [1..0 -> {}]
    OBVIOUS
  <2>3. ASSUME NEW f \in [1..0 -> {}]
        PROVE  f = <<>>
    <3>1. f \in [1..0 -> Nat]
      BY <2>2
    <3>2. f \in Seq(Nat) /\ Len(f) = 0
      BY <3>1
    <3>3. QED
      BY <3>2
  <2>4. IsInjective(<<>>)
    BY DEF IsInjective
  <2>5. QED
    BY <2>1, <2>2, <2>3, <2>4 DEF SetToSeq
<1>2. SetToSeq({x}) = <<x>>
  <2>1. Cardinality({x}) = 1
    BY FS_Singleton
  <2>2. \A f : f \in [1..1 -> {x}] <=> f = <<x>>
    OBVIOUS
  <2>3. IsInjective(<<x>>)
    BY DEF IsInjective
  <2>4. QED
    BY <2>1, <2>2, <2>3 DEF SetToSeq
<1>3. QED
  BY <1>1, <1>2

-----------------------------------------------------------------------------
(* The messages that stay when a connection breaks (Without).              *)

\* What stays are messages there were, of other connections, each once if
\* each was there once.
LEMMA WithoutKeeps ==
  ASSUME NEW q \in Seq(Id \X Nat), NEW o
  PROVE  /\ Without(q, o) \in Seq(Id \X Nat)
         /\ \A k \in DOMAIN Without(q, o) : \E j \in DOMAIN q :
              Without(q, o)[k] = q[j] /\ q[j][2] # o
         /\ (\A k, l \in DOMAIN q : q[k][1] = q[l][1] => k = l) =>
              \A k, l \in DOMAIN Without(q, o) :
                Without(q, o)[k][1] = Without(q, o)[l][1] => k = l
<1> DEFINE D == {k \in DOMAIN q : q[k][2] = o}
           key == [p \in Id \X Nat |-> p[1]]
<1>1. Len(q) \in Nat /\ DOMAIN q = 1..Len(q)
  OBVIOUS
<1>2. \A k \in 0..Len(q) : k # 0 => (k \in D <=> q[k][2] = o)
  BY <1>1
<1>3. PICK f : Keeping(f, q, D) /\ Without(q, o) = f[Len(q)]
  <2> HIDE DEF D
  <2> DEFINE Kept(f) == f = [k \in 0..Len(q) |->
                              IF k = 0 THEN <<>>
                              ELSE IF q[k][2] = o THEN f[k - 1] ELSE Append(f[k - 1], q[k])]
             g == CHOOSE f : Kept(f)
  <2>1. \A f : Kept(f) <=> Keeping(f, q, D)
    BY <1>2 DEF Keeping
  <2>2. Kept(g)
    <3> HIDE DEF Kept
    <3>1. QED
      BY <1>1, <2>1, KeepingExists
  <2>3. Without(q, o) = g[Len(q)]
    BY Zenon DEF Without
  <2> HIDE DEF Kept, g
  <2>4. QED
    BY <2>1, <2>2, <2>3
<1>4. PICK w : w = f[Len(q)]
  OBVIOUS
<1>5. /\ w \in Seq(Id \X Nat) /\ MadeOf(w, q, D)
      /\ (\A k, l \in DOMAIN q : key[q[k]] = key[q[l]] => k = l) =>
           \A k, l \in DOMAIN w : key[w[k]] = key[w[l]] => k = l
  <2> HIDE DEF D, key
  <2>1. QED
    BY <1>3, <1>4, KeepingKeeps
<1>6. Without(q, o) = w
  BY <1>3, <1>4
<1>7. \A k \in DOMAIN w : \E j \in DOMAIN q : w[k] = q[j] /\ q[j][2] # o
  BY <1>5 DEF MadeOf
<1>8. /\ \A k \in DOMAIN q : key[q[k]] = q[k][1]
      /\ \A k \in DOMAIN w : key[w[k]] = w[k][1]
  <2>1. /\ \A k \in DOMAIN q : q[k] \in Id \X Nat
        /\ \A k \in DOMAIN w : w[k] \in Id \X Nat
    BY <1>5
  <2>2. QED
    BY <2>1
<1> HIDE DEF D, key
<1>9. \A k \in DOMAIN q : key[q[k]] = q[k][1]
  BY <1>8
<1>10. ASSUME \A k, l \in DOMAIN q : q[k][1] = q[l][1] => k = l,
              NEW k \in DOMAIN w, NEW l \in DOMAIN w, w[k][1] = w[l][1]
       PROVE  k = l
  <2>1. key[w[k]] = key[w[l]]
    BY <1>8, <1>10
  <2>2. \A i, j \in DOMAIN q : key[q[i]] = key[q[j]] => i = j
    BY <1>9, <1>10
  <2>3. QED
    BY <1>5, <2>1, <2>2
<1>11. QED
  BY <1>5, <1>6, <1>7, <1>10

-----------------------------------------------------------------------------
(* Steps that leave most of the state alone.                               *)

Longer == asker' = asker \/ \E x \in Asking : Len(asker) < MaxId /\ asker' = Append(asker, x)

\* What was known of a request stays so when another is made.
LEMMA AskersStay ==
  ASSUME Types, Longer
  PROVE  /\ asker' \in Seq(Asking) /\ Len(asker) \in Nat /\ Len(asker') \in Nat
         /\ Len(asker) <= Len(asker') /\ Len(asker') <= MaxId
         /\ \A i \in 1..Len(asker) : i \in 1..Len(asker') /\ asker'[i] = asker[i]
         /\ \A i, o : MadeOn(i, o) => MadeOn(i, o)'
<1>1. asker \in Seq(Asking) /\ Len(asker) <= MaxId /\ MaxId \in Nat
  BY RpcAssumption DEF Types, ClientTypes
<1>2. /\ asker' \in Seq(Asking) /\ Len(asker') \in Nat
      /\ Len(asker) <= Len(asker') /\ Len(asker') <= MaxId
      /\ \A i \in 1..Len(asker) : asker'[i] = asker[i]
  <2>1. CASE asker' = asker
    BY <1>1, <2>1
  <2>2. ASSUME NEW x \in Asking, Len(asker) < MaxId, asker' = Append(asker, x)
        PROVE  <1>2!1 /\ <1>2!2 /\ <1>2!3
    BY <1>1, <2>2, Added
  <2>3. QED
    BY <2>1, <2>2 DEF Longer
<1>3. Len(asker) \in Nat
  BY <1>1
<1>4. \A i \in 1..Len(asker) : i \in 1..Len(asker')
  BY <1>2, <1>3
<1>5. QED
  BY <1>2, <1>3, <1>4 DEF MadeOn

\* The connections have the clients and the tables they had.
SameClients ==
  /\ Len(conn') = Len(conn) /\ conn' \in Seq(Connection)
  /\ \A o \in 1..Len(conn) :
       /\ conn'[o].alive = conn[o].alive /\ conn'[o].counter = conn[o].counter
       /\ conn'[o].clients = conn[o].clients
       /\ conn'[o].table = conn[o].table /\ conn'[o].index = conn[o].index
       /\ conn[o].gone => conn'[o].gone

LEMMA ClientsStay ==
  ASSUME Types, ClientsInv, SameClients,
         UNCHANGED <<kind, cur, lock, user, asker, evicted, misused, raced, belated, role>>,
         strayed' \in BOOLEAN, strayed' => strayed \/ Redis \/ Socket
  PROVE  ClientTypes' /\ ClientsInv'
<1>1. ClientTypes'
  BY DEF Types, ClientTypes, SameClients
<1>2. OneIsAlive' /\ ClientsAreUsers'
  BY DEF ClientsInv, SameClients, OneIsAlive, ClientsAreUsers, Numbered, Grpc, RabbitMQ
<1>3. PointersAreTrue'
  BY DEF ClientsInv, SameClients, PointersAreTrue, Numbered, Grpc, Redis, RabbitMQ
<1>4. UsersAreClients'
  BY DEF ClientsInv, SameClients, UsersAreClients, PointersAreTrue, Numbered, Grpc
<1>5. AskersAreTrue'
  BY DEF ClientsInv, SameClients, AskersAreTrue, Grpc
<1>6. TablesAreTrue'
  BY DEF ClientsInv, SameClients, TablesAreTrue, Grpc, Socket
<1>7. FixedClients'
  BY DEF ClientsInv, SameClients, FixedClients, Grpc, Socket
<1>8. FreedIsNotUsed'
  BY DEF ClientsInv, FreedIsNotUsed, Redis, Socket
<1>9. QED
  BY <1>1, <1>2, <1>3, <1>4, <1>5, <1>6, <1>7, <1>8 DEF ClientsInv

\* Nothing happens to the servers.
LEMMA ServicesStay ==
  ASSUME Types, Longer, kind' = kind, NEW x, GoodService(x)
  PROVE  GoodService(x)'
<1>1. \A i : i \in 1..Len(asker) => i \in 1..Len(asker')
  BY AskersStay
<1>2. \A i, o : MadeOn(i, o) => MadeOn(i, o)'
  BY AskersStay
<1>3. QED
  BY <1>1, <1>2 DEF GoodService, Redis, RabbitMQ, Grpc, Socket

LEMMA ServersStay ==
  ASSUME Types, Longer, ServersInv, UNCHANGED <<kind, server, queue>>
  PROVE  ServerTypes' /\ ServersInv'
<1>1. ServerTypes'
  BY DEF Types, ServerTypes
<1>2. \A s \in Server : GoodService(server[s])'
  <2>1. ASSUME NEW s \in Server PROVE GoodService(server[s])'
    <3>1. PICK x : x = server[s]
      OBVIOUS
    <3>2. server'[s] = x
      BY <3>1
    <3>3. GoodService(x)
      BY <3>1 DEF ServersInv
    <3>4. GoodService(x)'
      BY <3>3, ServicesStay
    <3>5. QED
      BY <3>2, <3>4 DEF GoodService
  <2>2. QED
    BY <2>1
<1>3. OneServer' /\ QueueIsTrue'
  BY AskersStay DEF ServersInv, OneServer, QueueIsTrue, Socket, Grpc
<1>4. QED
  BY <1>1, <1>2, <1>3 DEF ServersInv

\* A step of the servers that gives each of them something good.
LEMMA ServersStep ==
  ASSUME Types, ServersInv, Longer, kind' = kind,
         server' \in [Server -> Service],
         \A s \in Server : server'[s] = server[s] \/ GoodService(server[s])',
         OneServer', queue' \in Seq(Id \X Nat), QueueIsTrue'
  PROVE  ServerTypes' /\ ServersInv'
<1>1. ASSUME NEW s \in Server PROVE GoodService(server[s])'
  <2>1. CASE server'[s] = server[s]
    <3>1. PICK x : x = server[s]
      OBVIOUS
    <3>2. server'[s] = x
      BY <2>1, <3>1
    <3>3. GoodService(x)
      BY <3>1 DEF ServersInv
    <3>4. GoodService(x)'
      BY <3>3, ServicesStay
    <3>5. QED
      BY <3>2, <3>4 DEF GoodService
  <2>2. QED
    BY <2>1
<1>2. QED
  BY <1>1 DEF ServersInv, ServerTypes

\* A step of one server.
LEMMA OneServerStep ==
  ASSUME Types, ServersInv, UNCHANGED <<kind, asker>>,
         NEW s \in Server, NEW x \in Service, server' = [server EXCEPT ![s] = x],
         GoodService(x),
         x.up /\ (Socket \/ Grpc) => server[s].up \/ \A t \in Server : ~server[t].up,
         queue' \in Seq(Id \X Nat), QueueIsTrue'
  PROVE  ServerTypes' /\ ServersInv'
<1>1. Longer
  BY DEF Longer
<1>2. server \in [Server -> Service]
  BY DEF Types, ServerTypes
<1>3. server' \in [Server -> Service] /\ server'[s] = x
  BY <1>2
<1>4. \A t \in Server : t # s => server'[t] = server[t]
  BY <1>2
<1>5. GoodService(x)'
  BY <1>1, ServicesStay
<1>6. GoodService(server[s])'
  BY <1>3, <1>5 DEF GoodService
<1>7. OneServer'
  BY <1>3, <1>4 DEF ServersInv, OneServer, Socket, Grpc
<1>8. QED
  BY <1>1, <1>3, <1>4, <1>6, <1>7, ServersStep

LEMMA RepliesStay ==
  ASSUME Types, Longer, RepliesAreTrue,
         \A o \in 1..Len(conn') :
           /\ conn'[o].inbox = <<>> \/ (o \in 1..Len(conn) /\ conn'[o].inbox = conn[o].inbox)
           /\ conn'[o].hand = <<>> \/ (o \in 1..Len(conn) /\ conn'[o].hand = conn[o].hand)
  PROVE  RepliesAreTrue'
<1>1. \A i, o : MadeOn(i, o) => MadeOn(i, o)'
  BY AskersStay
<1> SUFFICES ASSUME NEW o \in 1..Len(conn')
             PROVE  /\ \A k \in DOMAIN conn'[o].inbox : MadeOn(conn[o].inbox[k].id, o)'
                    /\ \A k \in DOMAIN conn'[o].hand : MadeOn(conn[o].hand[k].id, o)'
  BY DEF RepliesAreTrue
<1>2. ASSUME NEW k \in DOMAIN conn'[o].inbox PROVE MadeOn(conn[o].inbox[k].id, o)'
  <2>1. conn'[o].inbox # <<>>
    BY <1>2
  <2>2. PICK i : i = conn[o].inbox[k].id
    OBVIOUS
  <2>3. conn'[o].inbox[k].id = i /\ MadeOn(i, o)
    BY <1>2, <2>1, <2>2 DEF RepliesAreTrue
  <2>4. MadeOn(i, o)'
    BY <1>1, <2>3
  <2>5. QED
    BY <2>3, <2>4 DEF MadeOn
<1>3. ASSUME NEW k \in DOMAIN conn'[o].hand PROVE MadeOn(conn[o].hand[k].id, o)'
  <2>1. conn'[o].hand # <<>>
    BY <1>3
  <2>2. PICK i : i = conn[o].hand[k].id
    OBVIOUS
  <2>3. conn'[o].hand[k].id = i /\ MadeOn(i, o)
    BY <1>3, <2>1, <2>2 DEF RepliesAreTrue
  <2>4. MadeOn(i, o)'
    BY <1>1, <2>3
  <2>5. QED
    BY <2>3, <2>4 DEF MadeOn
<1>4. QED
  BY <1>2, <1>3

LEMMA HeardStays ==
  ASSUME Types, HeardInv, Longer, UNCHANGED <<kind, heard>>
  PROVE  HeardInv'
<1>1. /\ \A i : i \notin 1..Len(asker') => i \notin 1..Len(asker)
      /\ \A i \in 1..Len(asker) : asker'[i] = asker[i]
  BY AskersStay
<1> SUFFICES ASSUME NEW i \in Id
             PROVE  /\ i \notin 1..Len(asker') => heard[i] = <<>>
                    /\ \A k \in DOMAIN heard[i] : heard[i][k].final => k = Len(heard[i])
                    /\ ~Grpc => \A k \in DOMAIN heard[i] :
                         ~heard[i][k].late /\ heard[i][k].by = asker'[i].by
  BY DEF HeardInv, Grpc
<1>2. i \notin 1..Len(asker) => heard[i] = <<>>
  BY DEF HeardInv
<1>3. \A k \in DOMAIN heard[i] : heard[i][k].final => k = Len(heard[i])
  BY DEF HeardInv
<1>4. ~Grpc => \A k \in DOMAIN heard[i] : ~heard[i][k].late /\ heard[i][k].by = asker[i].by
  BY DEF HeardInv
<1>5. CASE i \in 1..Len(asker)
  BY <1>1, <1>2, <1>3, <1>4, <1>5
<1>6. CASE i \notin 1..Len(asker)
  BY <1>2, <1>6
<1>7. QED
  BY <1>5, <1>6

\* A reactor that is not there has written nothing.
LEMMA NothingQueued == LastQueued(NoReactor) = FALSE
BY DEF LastQueued, NoReactor

LEMMA CallsStay ==
  ASSUME Types, CallsInv, RepliesAreTrue, Longer, Len(conn') \in Nat,
         UNCHANGED <<kind, heard, reactor, single, role>>,
         Redis \/ RabbitMQ => \A o \in 1..Len(conn') : \A p \in conn'[o].table :
           p[1] \in 1..Len(asker) => o \in 1..Len(conn) /\ p \in conn[o].table,
         Socket => \A o \in 1..Len(conn') :
           conn'[o].inbox = <<>> \/ (o \in 1..Len(conn) /\ conn'[o].inbox = conn[o].inbox),
         Socket \/ Grpc => \A s \in Server : \A i \in UnderWay(server'[s]) :
           i \in Id /\ (i \in UnderWay(server[s]) \/ i \notin 1..Len(asker))
  PROVE  HeardTypes' /\ CallsInv'
<1>1. HeardTypes'
  BY DEF Types, HeardTypes
<1>2. HeardInv'
  BY HeardStays DEF CallsInv
<1>3. \A i \in Id : (heard[i] = <<>> => ~LastHeard(i)) /\ (LastHeard(i)' <=> LastHeard(i))
  BY DEF LastHeard
<1>4. \A i \in Id : i \notin 1..Len(asker) => heard[i] = <<>>
  BY DEF CallsInv, HeardInv
<1>5. EndedIsForgotten'
  <2> SUFFICES ASSUME Redis \/ RabbitMQ, NEW i \in Id, LastHeard(i)',
                      NEW o \in 1..Len(conn'), NEW p \in conn'[o].table, p[1] = i
               PROVE  FALSE
    BY DEF EndedIsForgotten, Redis, RabbitMQ
  <2>1. LastHeard(i) /\ i \in 1..Len(asker)
    BY <1>3, <1>4
  <2>2. QED
    BY <2>1 DEF CallsInv, EndedIsForgotten
<1>6. SocketStages'
  <2> SUFFICES ASSUME Socket
               PROVE  /\ \A s \in Server : \A i \in UnderWay(server'[s]) :
                           /\ ~LastHeard(i)'
                           /\ \A o \in 1..Len(conn') : ~Ending(conn'[o].inbox, i)
                      /\ \A o \in 1..Len(conn') :
                           /\ \A k \in DOMAIN conn'[o].inbox : ~LastHeard(conn[o].inbox[k].id)'
                           /\ LastIsLast(conn'[o].inbox)
    BY DEF SocketStages, Socket
  <2>1. ASSUME NEW s \in Server, NEW i \in UnderWay(server'[s])
        PROVE  ~LastHeard(i)' /\ \A o \in 1..Len(conn') : ~Ending(conn'[o].inbox, i)
    <3>1. i \in Id /\ (i \in UnderWay(server[s]) \/ i \notin 1..Len(asker))
      OBVIOUS
    <3>2. ~LastHeard(i)
      BY <1>3, <1>4, <3>1 DEF CallsInv, SocketStages
    <3>3. \A o \in 1..Len(conn) : ~Ending(conn[o].inbox, i)
      BY <3>1 DEF CallsInv, SocketStages, RepliesAreTrue, MadeOn, Ending
    <3>4. ~Ending(<<>>, i)
      BY DEF Ending
    <3>5. QED
      BY <1>3, <3>1, <3>2, <3>3, <3>4
  <2>2. ASSUME NEW o \in 1..Len(conn')
        PROVE  /\ \A k \in DOMAIN conn'[o].inbox : ~LastHeard(conn[o].inbox[k].id)'
               /\ LastIsLast(conn'[o].inbox)
    <3>1. CASE conn'[o].inbox = <<>>
      BY <3>1 DEF LastIsLast
    <3>2. CASE conn'[o].inbox = conn[o].inbox /\ o \in 1..Len(conn)
      <4>1. LastIsLast(conn[o].inbox)
        BY <3>2 DEF CallsInv, SocketStages
      <4>2. \A k \in DOMAIN conn[o].inbox : ~LastHeard(conn[o].inbox[k].id)
        BY <3>2 DEF CallsInv, SocketStages
      <4>3. ASSUME NEW k \in DOMAIN conn[o].inbox PROVE ~LastHeard(conn[o].inbox[k].id)'
        BY <3>2, <4>2 DEF LastHeard
      <4>4. QED
        BY <3>2, <4>1, <4>3
    <3>3. QED
      BY <3>1, <3>2
  <2>3. QED
    BY <2>1, <2>2
<1>7. GrpcStages'
  <2>1. \A i \in Id : Writing(reactor'[i])
    BY DEF CallsInv, GrpcStages
  <2>2. ASSUME Grpc, NEW i \in Id PROVE GoodCall(i, reactor[i], heard[i])'
    <3>1. GoodCall(i, reactor[i], heard[i])
      BY <2>2 DEF CallsInv, GrpcStages
    <3>2. i \in 1..Len(asker) => i \in 1..Len(asker') /\ asker'[i] = asker[i]
      BY AskersStay
    <3>3. CASE i \in 1..Len(asker)
      BY <3>1, <3>2, <3>3 DEF GoodCall
    <3>4. CASE i \notin 1..Len(asker)
      <4>1. reactor[i] = NoReactor /\ heard[i] = <<>>
        BY <1>4, <3>1, <3>4 DEF GoodCall
      <4>2. QED
        BY <4>1 DEF GoodCall
    <3>5. QED
      BY <3>3, <3>4
  <2>3. ASSUME Grpc, NEW i \in Id, LastQueued(reactor'[i]), NEW s \in Server
        PROVE  i \notin UnderWay(server'[s])
    <3>1. i \in 1..Len(asker)
      BY <2>3, NothingQueued DEF CallsInv, GrpcStages, GoodCall
    <3>2. i \notin UnderWay(server[s])
      BY <2>3 DEF CallsInv, GrpcStages
    <3>3. QED
      BY <2>3, <3>1, <3>2
  <2>4. QED
    BY <2>1, <2>2, <2>3 DEF GrpcStages, Grpc
<1>8. QED
  BY <1>1, <1>2, <1>5, <1>6, <1>7 DEF CallsInv

-----------------------------------------------------------------------------
(* Setting and removing clients (Redis and RabbitMQ).                      *)

\* What the steps do not touch.
Others == <<reactor, single, role>>

\* One user changes.
LEMMA UserChanged ==
  ASSUME Types, NEW c \in Caller, NEW x \in Using, user' = [user EXCEPT ![c] = x]
  PROVE  /\ user' \in [Caller -> Using] /\ user'[c] = x
         /\ \A d \in Caller : d # c => user'[d] = user[d]
BY DEF Types, ClientTypes

\* What is in a connection's sets.
LEMMA Entries ==
  ASSUME NEW s \in Seq(Connection), NEW o \in 1..Len(s)
  PROVE  /\ s[o] \in Connection
         /\ \A p \in s[o].clients : p[1] \in Nat /\ p[2] \in Caller /\ p = <<p[1], p[2]>>
         /\ \A p \in s[o].table : p[1] \in Id /\ p[2] \in Nat /\ p = <<p[1], p[2]>>
<1>1. s[o] \in Connection
  OBVIOUS
<1>2. s[o].clients \in SUBSET (Nat \X Caller) /\ s[o].table \in SUBSET (Id \X Nat)
  BY <1>1 DEF Connection
<1>3. QED
  BY <1>1, <1>2

LEMMA NewIsConnection ==
  ASSUME NEW l \in {"connecting", "up", "broken", "dead"}
  PROVE  NewConnection(l) \in Connection
BY DEF NewConnection, Connection

LEMMA FindOrConnectStep ==
  ASSUME IndInv, Redis \/ RabbitMQ, NEW c \in Caller, FindOrConnect(c), UNCHANGED Others
  PROVE  IndInv'
<1> USE DEF Others
<1>1. /\ ~Grpc /\ ~Socket /\ Types /\ ClientsInv /\ kind' = kind
      /\ Longer /\ conn \in Seq(Connection) /\ Len(conn) \in Nat
  BY DEF IndInv, Redis, RabbitMQ, Grpc, Socket, Types, ClientTypes, FindOrConnect, Longer
<1>2. /\ conn' \in Seq(Connection) /\ Len(conn') \in Nat /\ Len(conn) <= Len(conn')
      /\ cur' \in 1..Len(conn')
      /\ \A o \in 1..Len(conn) : o \in 1..Len(conn') /\ conn'[o] = conn[o]
      /\ \A o \in 1..Len(conn') : o \in 1..Len(conn) \/ conn'[o] = NewConnection("up")
      /\ \A o \in 1..Len(conn') : conn'[o].alive <=> o = cur'
  <2>1. \A o \in 1..Len(conn) : conn[o].alive <=> o = cur
    BY <1>1 DEF ClientsInv, OneIsAlive
  <2>2. CASE cur # 0 /\ UNCHANGED <<conn, cur>>
    BY <1>1, <2>1, <2>2 DEF Types, ClientTypes
  <2>3. CASE cur = 0 /\ conn' = Append(conn, NewConnection("up")) /\ cur' = Len(conn) + 1
    <3>1. /\ conn' \in Seq(Connection) /\ Len(conn') = Len(conn) + 1
          /\ conn'[Len(conn) + 1] = NewConnection("up")
          /\ \A o \in 1..Len(conn) : conn'[o] = conn[o]
      BY <1>1, <2>3, NewIsConnection, Added
    <3>2. \A o \in 1..Len(conn') : o \in 1..Len(conn) \/ o = Len(conn) + 1
      BY <1>1, <3>1
    <3>3. NewConnection("up").alive
      BY DEF NewConnection
    <3>4. \A o \in 1..Len(conn) : o # Len(conn) + 1 /\ o # 0 /\ o \in 1..(Len(conn) + 1)
      BY <1>1
    <3>5. QED
      BY <1>1, <2>1, <2>3, <3>1, <3>2, <3>3, <3>4
  <2>4. QED
    BY <2>2, <2>3 DEF FindOrConnect
<1>3. PICK x \in Using : /\ user' = [user EXCEPT ![c] = x] /\ x.at = "adding" /\ x.o = cur'
  <2>1. user[c] \in Using /\ cur' \in Nat
    BY <1>1, <1>2 DEF Types, ClientTypes
  <2>2. [user[c] EXCEPT !.at = "adding", !.o = cur'] \in Using
    BY <2>1 DEF Using, UserAt
  <2>3. user' = [user EXCEPT ![c] = [user[c] EXCEPT !.at = "adding", !.o = cur']]
    BY <1>1 DEF FindOrConnect, Types, ClientTypes, Using
  <2>4. [user[c] EXCEPT !.at = "adding", !.o = cur'].at = "adding"
        /\ [user[c] EXCEPT !.at = "adding", !.o = cur'].o = cur'
    BY <2>1 DEF Using
  <2>5. QED
    BY <2>2, <2>3, <2>4
<1>4. /\ user' \in [Caller -> Using] /\ user'[c].at = "adding" /\ user'[c].o = cur'
      /\ \A d \in Caller : d # c => user'[d] = user[d]
  BY <1>1, <1>3, UserChanged
<1>5. user[c].at = "out" /\ \A d \in Caller : Numbered(d)' => d # c /\ Numbered(d)
  BY <1>4 DEF FindOrConnect, Numbered
<1>6. UNCHANGED <<kind, lock, evicted, asker, heard, server, queue, lost, faults, undefVars>>
  BY DEF FindOrConnect
<1>7. ClientTypes'
  BY <1>1, <1>2, <1>4, <1>6 DEF Types, ClientTypes, undefVars
<1>8. NewConnection("up").clients = {} /\ NewConnection("up").table = {}
      /\ NewConnection("up").index = {} /\ NewConnection("up").inbox = <<>>
      /\ NewConnection("up").hand = <<>> /\ NewConnection("up").alive
  BY DEF NewConnection
<1>9. OneIsAlive'
  <2>1. RabbitMQ => \A o \in 1..Len(conn) : conn[o].alive \/ conn[o].gone
    BY <1>1 DEF ClientsInv, OneIsAlive
  <2>2. cur' # 0
    BY <1>2
  <2>3. QED
    BY <1>1, <1>2, <1>8, <2>1, <2>2 DEF OneIsAlive, Grpc, RabbitMQ
<1>10. PointersAreTrue'
  <2>1. PointersAreTrue
    BY <1>1 DEF ClientsInv
  <2>2. ASSUME NEW d \in Caller
        PROVE  /\ user'[d].at \in {"adding", "ready", "asking"} => user'[d].o \in 1..Len(conn')
               /\ Numbered(d)' => user'[d].num \in 1..conn'[user'[d].o].counter
    <3>1. CASE d = c
      BY <1>2, <1>4, <1>5, <3>1
    <3>2. CASE d # c
      BY <1>1, <1>2, <1>4, <2>1, <3>2 DEF PointersAreTrue, Numbered
    <3>3. QED
      BY <3>1, <3>2
  <2>3. \A d, e \in Caller : Numbered(d)' /\ Numbered(e)' /\ user'[d].o = user'[e].o
                             /\ user'[d].num = user'[e].num => d = e
    BY <1>1, <1>4, <1>5, <2>1 DEF PointersAreTrue
  <2>4. \A d \in Caller : user'[d].at = "asking" => d # c /\ user[d].at = "asking"
    BY <1>4
  <2>5. \A d \in Caller : user'[d].at = "asking" =>
          /\ Redis \/ RabbitMQ
          /\ user'[d].id \in 1..Len(asker') /\ asker'[user'[d].id].o = user'[d].o
    BY <1>4, <1>6, <2>1, <2>4 DEF PointersAreTrue
  <2>6. QED
    BY <1>6, <2>2, <2>3, <2>5 DEF PointersAreTrue, Redis, RabbitMQ
<1>11. ClientsAreUsers'
  <2> SUFFICES ASSUME NEW o \in 1..Len(conn'), conn'[o].alive, NEW p \in conn'[o].clients
               PROVE  /\ Numbered(p[2])' /\ ~user'[p[2]].left
                      /\ user'[p[2]].o = o /\ user'[p[2]].num = p[1]
    BY DEF ClientsAreUsers
  <2>1. o \in 1..Len(conn) /\ conn'[o] = conn[o]
    BY <1>2, <1>8
  <2>2. /\ Numbered(p[2]) /\ ~user[p[2]].left
        /\ user[p[2]].o = o /\ user[p[2]].num = p[1]
    BY <1>1, <2>1 DEF ClientsInv, ClientsAreUsers
  <2>3. p[2] \in Caller
    BY <1>1, <2>1, Entries
  <2>4. p[2] # c
    BY <1>5, <2>2 DEF Numbered
  <2>5. QED
    BY <1>4, <2>2, <2>3, <2>4 DEF Numbered
<1>12. UsersAreClients'
  <2>1. UsersAreClients /\ PointersAreTrue
    BY <1>1 DEF ClientsInv
  <2>2. evicted' = evicted /\ raced' = raced
    BY <1>6 DEF undefVars
  <2>3. conn'[cur'].alive /\ "adding" \notin {"ready", "asking"}
    BY <1>2
  <2>4. ASSUME NEW d \in Caller
        PROVE  /\ Numbered(d)' /\ ~user'[d].left /\ d \notin evicted' =>
                    IF conn'[user'[d].o].alive
                    THEN <<user'[d].num, d>> \in conn'[user'[d].o].clients ELSE raced'
               /\ user'[d].at = "adding" /\ ~conn'[user'[d].o].alive => raced'
    <3>1. CASE d = c
      BY <1>4, <1>5, <2>3, <3>1
    <3>2. CASE d # c
      <4>1. user'[d] = user[d] /\ (Numbered(d)' => Numbered(d))
        BY <1>4, <1>5, <3>2
      <4>2. user[d].at \in {"adding", "ready", "asking"} => conn'[user[d].o] = conn[user[d].o]
        BY <1>1, <1>2, <2>1 DEF PointersAreTrue
      <4>3. Numbered(d) => user[d].at \in {"adding", "ready", "asking"}
        BY DEF Numbered
      <4>4. QED
        BY <1>1, <2>1, <2>2, <4>1, <4>2, <4>3 DEF UsersAreClients
    <3>3. QED
      BY <3>1, <3>2
  <2>5. QED
    BY <2>4 DEF UsersAreClients
<1>13. AskersAreTrue'
  BY <1>1, <1>2, <1>6 DEF ClientsInv, AskersAreTrue, Grpc
<1>14. TablesAreTrue'
  <2>1. TablesAreTrue
    BY <1>1 DEF ClientsInv
  <2>2. asker' = asker /\ belated' = belated /\ evicted' = evicted
    BY <1>6 DEF undefVars
  <2>3. ASSUME NEW o \in 1..Len(conn')
        PROVE  \/ conn'[o].table = {} /\ conn'[o].index = {}
               \/ o \in 1..Len(conn) /\ conn'[o] = conn[o]
    BY <1>2, <1>8
  <2>4. {<<p[2], p[1]>> : p \in {}} = {}
    OBVIOUS
  <2>5. QED
    BY <1>1, <2>1, <2>2, <2>3, <2>4 DEF TablesAreTrue, Grpc, Socket
<1>15. FixedClients' /\ FreedIsNotUsed'
  BY <1>1, <1>6 DEF ClientsInv, FixedClients, FreedIsNotUsed, Grpc, Socket, Redis, undefVars
<1>16. ClientsInv'
  BY <1>9, <1>10, <1>11, <1>12, <1>13, <1>14, <1>15 DEF ClientsInv
<1>17. ServerTypes' /\ ServersInv'
  BY <1>1, <1>6, ServersStay DEF IndInv
<1>18. RepliesAreTrue'
  BY <1>1, <1>2, <1>8, RepliesStay DEF IndInv
<1>19. HeardTypes' /\ CallsInv'
  BY <1>1, <1>2, <1>6, <1>8, CallsStay DEF IndInv
<1>20. QED
  BY <1>7, <1>16, <1>17, <1>18, <1>19 DEF IndInv, Types

\* The messages are as they were, or gone.
LEMMA MessagesStay ==
  ASSUME IndInv, Longer, Len(conn') \in Nat,
         UNCHANGED <<kind, heard, server, queue, Others>>,
         \A o \in 1..Len(conn') :
           /\ conn'[o].inbox = <<>> \/ (o \in 1..Len(conn) /\ conn'[o].inbox = conn[o].inbox)
           /\ conn'[o].hand = <<>> \/ (o \in 1..Len(conn) /\ conn'[o].hand = conn[o].hand)
           /\ Redis \/ RabbitMQ => \A p \in conn'[o].table :
                p[1] \in 1..Len(asker) => o \in 1..Len(conn) /\ p \in conn[o].table
  PROVE  ServerTypes' /\ ServersInv' /\ RepliesAreTrue' /\ HeardTypes' /\ CallsInv'
<1>1. ServerTypes' /\ ServersInv'
  BY ServersStay DEF IndInv
<1>2. RepliesAreTrue'
  BY RepliesStay DEF IndInv
<1>3. \A s \in Server : \A i \in UnderWay(server'[s]) : i \in Id /\ i \in UnderWay(server[s])
  <2> SUFFICES ASSUME NEW s \in Server, NEW i \in UnderWay(server[s]) PROVE i \in Id
    OBVIOUS
  <2>1. server[s].inbox \in Seq(Id \X Nat) /\ server[s].work \in SUBSET Id
    BY DEF IndInv, Types, ServerTypes, Service
  <2>2. QED
    BY <2>1 DEF UnderWay
<1>4. HeardTypes' /\ CallsInv'
  BY <1>3, CallsStay DEF IndInv, Others
<1>5. QED
  BY <1>1, <1>2, <1>4

\* The tables stay as they were, and no client goes.
LEMMA TablesStay ==
  ASSUME TablesAreTrue, Len(conn') = Len(conn),
         \A o \in 1..Len(conn) :
            /\ conn'[o].alive => conn[o].alive
            /\ conn'[o].table = conn[o].table /\ conn'[o].index = conn[o].index
            /\ conn[o].clients \subseteq conn'[o].clients,
         UNCHANGED <<kind, asker>>, belated => belated', evicted \subseteq evicted'
  PROVE  TablesAreTrue'
<1> SUFFICES ASSUME NEW o \in 1..Len(conn)
             PROVE  /\ \A p \in conn'[o].table :
                         /\ p[1] \in 1..Len(asker) /\ asker[p[1]].o = o
                         /\ asker[p[1]].num = p[2]
                    /\ conn'[o].index = {<<p[2], p[1]>> : p \in conn'[o].table}
                    /\ Socket \/ Grpc => conn'[o].table = {}
                    /\ conn'[o].alive => \A p \in conn'[o].table :
                         \/ belated' \/ asker[p[1]].by \in evicted'
                         \/ \E q \in conn'[o].clients : q[1] = p[2]
  BY DEF TablesAreTrue, Socket, Grpc
<1>1. /\ \A p \in conn[o].table :
           p[1] \in 1..Len(asker) /\ asker[p[1]].o = o /\ asker[p[1]].num = p[2]
      /\ conn[o].index = {<<p[2], p[1]>> : p \in conn[o].table}
      /\ Socket \/ Grpc => conn[o].table = {}
      /\ conn[o].alive => \A p \in conn[o].table :
           belated \/ asker[p[1]].by \in evicted \/ \E q \in conn[o].clients : q[1] = p[2]
  BY DEF TablesAreTrue
<1>2. QED
  BY <1>1

\* A pointer to a freed connection is used.
LEMMA MisuseStep ==
  ASSUME IndInv, ~Grpc, NEW c \in Caller, Misuse(c), UNCHANGED Others,
         user[c].at \in {"adding", "ready", "asking"}, ~conn[user[c].o].alive
  PROVE  IndInv'
<1>1. UNCHANGED <<kind, conn, cur, lock, user, evicted, asker, heard, server, queue, strayed,
                  raced, Others>>
  BY DEF Misuse, clientVars
<1>2. Types /\ ClientsInv /\ Longer
  BY <1>1 DEF IndInv, Longer
<1>3. misused' = TRUE /\ belated' \in BOOLEAN /\ (belated => belated')
      /\ belated' = (belated \/ user[c].left)
  BY <1>2 DEF Misuse, Types, ClientTypes, Using
<1>4. ClientTypes'
  BY <1>1, <1>2, <1>3 DEF Types, ClientTypes, Others
<1>5. raced \/ belated' \/ evicted # {}
  <2>1. user[c].at = "adding" => raced
    BY <1>2 DEF ClientsInv, UsersAreClients
  <2>2. Numbered(c) /\ ~user[c].left /\ c \notin evicted => raced
    BY <1>2 DEF ClientsInv, UsersAreClients
  <2>3. QED
    BY <1>3, <2>1, <2>2 DEF Numbered
<1>6. FreedIsNotUsed'
  BY <1>1, <1>2, <1>5 DEF ClientsInv, FreedIsNotUsed, Redis, Socket
<1>7. OneIsAlive' /\ PointersAreTrue' /\ ClientsAreUsers' /\ UsersAreClients' /\ AskersAreTrue'
      /\ FixedClients'
  BY <1>1, <1>2 DEF ClientsInv, OneIsAlive, PointersAreTrue, ClientsAreUsers, UsersAreClients,
     AskersAreTrue, FixedClients, Numbered, Redis, RabbitMQ, Grpc, Socket, Others
<1>8. TablesAreTrue'
  BY <1>1, <1>2, <1>3 DEF ClientsInv, TablesAreTrue, Grpc, Socket
<1>9. ServerTypes' /\ ServersInv' /\ RepliesAreTrue' /\ HeardTypes' /\ CallsInv'
  BY <1>1, <1>2, MessagesStay DEF Types, ClientTypes
<1>10. QED
  BY <1>4, <1>6, <1>7, <1>8, <1>9 DEF IndInv, Types, ClientsInv

LEMMA TakeNumberStep ==
  ASSUME IndInv, Redis \/ RabbitMQ, NEW c \in Caller, TakeNumber(c), UNCHANGED Others
  PROVE  IndInv'
<1> DEFINE o == user[c].o
           n == conn[o].counter + 1
<1>1. /\ ~Grpc /\ ~Socket /\ Types /\ ClientsInv /\ user[c].at = "adding"
      /\ conn \in Seq(Connection) /\ Len(conn) \in Nat
  BY DEF IndInv, Redis, RabbitMQ, Grpc, Socket, Types, ClientTypes, TakeNumber
<1>2. CASE ~conn[o].alive /\ Misuse(c)
  BY <1>1, <1>2, MisuseStep
<1>3. CASE /\ conn[o].alive
           /\ conn' = [conn EXCEPT ![o].counter = n, ![o].clients = @ \cup {<<n, c>>}]
           /\ user' = [user EXCEPT ![c].at = "ready", ![c].num = n, ![c].left = FALSE]
           /\ UNCHANGED <<kind, cur, lock, evicted, asker, heard, server, queue, lost,
                           faults, undefVars>>
  <2>1. o \in 1..Len(conn)
    BY <1>1 DEF ClientsInv, PointersAreTrue
  <2>2. conn[o] \in Connection /\ conn[o].counter \in Nat
        /\ conn[o].clients \in SUBSET (Nat \X Caller)
    <3>1. conn[o] \in Connection
      BY <1>1, <2>1, Entries
    <3>2. QED
      BY <3>1 DEF Connection
  <2>3. n \in Nat /\ n > conn[o].counter /\ user[c] \in Using
    BY <1>1, <2>2 DEF Types, ClientTypes
  <2> DEFINE x == [conn[o] EXCEPT !.counter = n, !.clients = @ \cup {<<n, c>>}]
             u == [user[c] EXCEPT !.at = "ready", !.num = n, !.left = FALSE]
  <2>4. /\ x \in Connection /\ x.counter = n /\ x.clients = conn[o].clients \cup {<<n, c>>}
        /\ x.alive = conn[o].alive /\ x.gone = conn[o].gone /\ x.table = conn[o].table
        /\ x.index = conn[o].index /\ x.inbox = conn[o].inbox /\ x.hand = conn[o].hand
    <3> HIDE DEF n
    <3>1. conn[o].clients \cup {<<n, c>>} \in SUBSET (Nat \X Caller)
      BY <2>2, <2>3
    <3> DEFINE k == conn[o].clients \cup {<<n, c>>}
               y == conn[o]
    <3>2. k \in SUBSET (Nat \X Caller) /\ y \in Connection /\ x = [y EXCEPT !.counter = n, !.clients = k]
      BY <2>2, <3>1
    <3> HIDE DEF k, y, x
    <3>3. /\ x \in Connection /\ x.counter = n /\ x.clients = k
          /\ x.alive = y.alive /\ x.gone = y.gone /\ x.table = y.table
          /\ x.index = y.index /\ x.inbox = y.inbox /\ x.hand = y.hand
      BY <2>3, <3>2 DEF Connection
    <3>4. QED
      BY <3>3 DEF k, y
  <2>5. u \in Using /\ u.at = "ready" /\ u.num = n /\ u.left = FALSE /\ u.o = o
    <3> HIDE DEF n
    <3>1. QED
      BY <2>3 DEF Using, UserAt
  <2>6. conn' = [conn EXCEPT ![o] = x] /\ user' = [user EXCEPT ![c] = u]
    BY <1>1, <1>3 DEF Types, ClientTypes
  <2> HIDE DEF x, u
  <2>7. /\ conn' \in Seq(Connection) /\ Len(conn') = Len(conn) /\ conn'[o] = x
        /\ \A q \in 1..Len(conn) : q # o => conn'[q] = conn[q]
    BY <1>1, <2>1, <2>4, <2>6, Changed
  <2>8. /\ user' \in [Caller -> Using] /\ user'[c] = u
        /\ \A d \in Caller : d # c => user'[d] = user[d]
    BY <1>1, <2>5, <2>6, UserChanged
  <2>9. /\ UNCHANGED <<kind, cur, lock, evicted, asker, heard, server, queue, undefVars, Others>>
        /\ Longer
    BY <1>3 DEF Longer
  <2> HIDE DEF n, o
  <2>10. ClientTypes'
    BY <1>1, <2>7, <2>8, <2>9 DEF Types, ClientTypes, undefVars, Others
  <2>11. OneIsAlive'
    BY <1>1, <2>4, <2>7, <2>9 DEF ClientsInv, OneIsAlive, Grpc, RabbitMQ
  <2>12. ~Numbered(c) /\ Numbered(c)' /\ \A d \in Caller : d # c => (Numbered(d)' <=> Numbered(d))
    BY <1>1, <2>5, <2>8 DEF Numbered
  <2>13. PointersAreTrue'
    <3>1. \A d \in Caller : user'[d].at \in {"adding", "ready", "asking"} =>
            user'[d].o \in 1..Len(conn')
      BY <1>1, <2>1, <2>5, <2>7, <2>8 DEF ClientsInv, PointersAreTrue
    <3>2. \A d \in Caller : d # c /\ Numbered(d) => user[d].num \in 1..conn[user[d].o].counter
      BY <1>1 DEF ClientsInv, PointersAreTrue
    <3>3. \A d \in Caller : Numbered(d)' => user'[d].num \in 1..conn'[user'[d].o].counter
      <4> SUFFICES ASSUME NEW d \in Caller, Numbered(d)'
                   PROVE  user'[d].num \in 1..conn'[user'[d].o].counter
        OBVIOUS
      <4>1. CASE d = c
        <5>1. n \in 1..n
          BY <2>2, <2>3
        <5>2. QED
          BY <2>4, <2>5, <2>7, <2>8, <4>1, <5>1
      <4>2. CASE d # c
        <5>1. user'[d] = user[d] /\ Numbered(d) /\ user[d].num \in 1..conn[user[d].o].counter
          BY <2>8, <2>12, <3>2, <4>2
        <5>2. user[d].o \in 1..Len(conn)
          BY <2>7, <3>1, <5>1 DEF Numbered
        <5>3. CASE user[d].o = o
          BY <2>2, <2>3, <2>4, <2>7, <5>1, <5>3
        <5>4. CASE user[d].o # o
          BY <2>7, <5>1, <5>2, <5>4
        <5>5. QED
          BY <5>3, <5>4
      <4>3. QED
        BY <4>1, <4>2
    <3>4. ASSUME NEW d \in Caller, NEW e \in Caller, Numbered(d)', Numbered(e)',
                 user'[d].o = user'[e].o, user'[d].num = user'[e].num
          PROVE  d = e
      <4>1. \A f \in Caller : f # c /\ Numbered(f) /\ user[f].o = o => user[f].num # n
        BY <2>2, <2>3, <3>2
      <4>2. CASE d # c /\ e # c
        BY <1>1, <2>8, <2>12, <3>4, <4>2 DEF ClientsInv, PointersAreTrue
      <4>3. CASE d = c \/ e = c
        BY <2>5, <2>8, <2>12, <3>4, <4>1, <4>3
      <4>4. QED
        BY <4>2, <4>3
    <3>5. \A d \in Caller : user'[d].at = "asking" =>
            /\ Redis' \/ RabbitMQ'
            /\ user'[d].id \in 1..Len(asker') /\ asker'[user'[d].id].o = user'[d].o
      BY <1>1, <2>5, <2>8, <2>9 DEF ClientsInv, PointersAreTrue, Redis, RabbitMQ
    <3>6. QED
      BY <3>1, <3>3, <3>4, <3>5 DEF PointersAreTrue
  <2>14. ClientsAreUsers'
    <3> SUFFICES ASSUME NEW q \in 1..Len(conn'), conn'[q].alive, NEW p \in conn'[q].clients
                 PROVE  /\ Numbered(p[2])' /\ ~user'[p[2]].left
                        /\ user'[p[2]].o = q /\ user'[p[2]].num = p[1]
      BY DEF ClientsAreUsers
    <3>1. q \in 1..Len(conn) /\ conn[q].alive
      BY <2>4, <2>7
    <3>2. CASE p \in conn[q].clients
      <4>1. /\ Numbered(p[2]) /\ ~user[p[2]].left
            /\ user[p[2]].o = q /\ user[p[2]].num = p[1]
        BY <1>1, <3>1, <3>2 DEF ClientsInv, ClientsAreUsers
      <4>2. p[2] \in Caller /\ p[2] # c
        BY <1>1, <2>12, <3>1, <3>2, <4>1, Entries
      <4>3. QED
        BY <2>8, <2>12, <4>1, <4>2
    <3>3. CASE p = <<n, c>> /\ q = o
      BY <2>5, <2>8, <2>12, <3>3
    <3>4. QED
      BY <2>4, <2>7, <3>1, <3>2, <3>3
  <2>15. UsersAreClients'
    <3> SUFFICES ASSUME NEW d \in Caller
                 PROVE  /\ Numbered(d)' /\ ~user'[d].left /\ d \notin evicted =>
                             IF conn'[user'[d].o].alive
                             THEN <<user'[d].num, d>> \in conn'[user'[d].o].clients ELSE raced
                        /\ user'[d].at = "adding" /\ ~conn'[user'[d].o].alive => raced
      BY <2>9 DEF UsersAreClients, undefVars
    <3>1. CASE d = c
      BY <1>3, <2>4, <2>5, <2>7, <2>8, <3>1
    <3>2. CASE d # c
      <4>1. /\ Numbered(d) /\ ~user[d].left /\ d \notin evicted =>
                 IF conn[user[d].o].alive
                 THEN <<user[d].num, d>> \in conn[user[d].o].clients ELSE raced
            /\ user[d].at = "adding" /\ ~conn[user[d].o].alive => raced
        BY <1>1 DEF ClientsInv, UsersAreClients
      <4>2. Numbered(d) \/ user[d].at = "adding" => user[d].o \in 1..Len(conn)
        BY <1>1 DEF ClientsInv, PointersAreTrue, Numbered
      <4>3. user'[d] = user[d] /\ (Numbered(d)' <=> Numbered(d))
        BY <2>8, <2>12, <3>2
      <4>4. \A q \in 1..Len(conn) : conn'[q].alive = conn[q].alive
                                    /\ conn[q].clients \subseteq conn'[q].clients
        BY <2>4, <2>7
      <4>5. QED
        BY <4>1, <4>2, <4>3, <4>4
    <3>3. QED
      BY <3>1, <3>2
  <2>16. AskersAreTrue'
    <3> SUFFICES ASSUME NEW i \in 1..Len(asker)
                 PROVE  /\ asker[i].o \in 1..Len(conn')
                        /\ asker[i].num \in 1..conn'[asker[i].o].counter
                        /\ conn'[asker[i].o].alive => \A p \in conn'[asker[i].o].clients :
                             p[1] = asker[i].num => p[2] = asker[i].by
      BY <2>9 DEF AskersAreTrue
    <3>1. /\ asker[i].o \in 1..Len(conn) /\ asker[i].num \in 1..conn[asker[i].o].counter
          /\ conn[asker[i].o].alive => \A p \in conn[asker[i].o].clients :
               p[1] = asker[i].num => p[2] = asker[i].by
      BY <1>1 DEF ClientsInv, AskersAreTrue
    <3>2. CASE asker[i].o # o
      BY <2>7, <3>1, <3>2
    <3>3. CASE asker[i].o = o
      <4>1. asker[i].num \in 1..n /\ asker[i].num # n
        BY <2>2, <2>3, <3>1, <3>3
      <4>2. QED
        BY <2>4, <2>7, <3>1, <3>3, <4>1
    <3>4. QED
      BY <3>2, <3>3
  <2>17. TablesAreTrue'
    <3>1. \A q \in 1..Len(conn) :
            /\ conn'[q].alive = conn[q].alive /\ conn'[q].table = conn[q].table
            /\ conn'[q].index = conn[q].index /\ conn[q].clients \subseteq conn'[q].clients
      BY <2>4, <2>7
    <3>2. QED
      BY <1>1, <2>7, <2>9, <3>1, TablesStay DEF undefVars, ClientsInv
  <2>18. FixedClients' /\ FreedIsNotUsed'
    BY <1>1, <2>9 DEF ClientsInv, FixedClients, FreedIsNotUsed, Grpc, Socket, Redis, undefVars
  <2>19. ServerTypes' /\ ServersInv' /\ RepliesAreTrue' /\ HeardTypes' /\ CallsInv'
    BY <1>1, <2>4, <2>7, <2>9, MessagesStay
  <2>20. QED
    BY <2>10, <2>11, <2>13, <2>14, <2>15, <2>16, <2>17, <2>18, <2>19 DEF IndInv, Types, ClientsInv
<1>4. QED
  BY <1>2, <1>3 DEF TakeNumber

\* Nobody gets a number or another pointer, and the clients stay.
LEMMA PeopleStay ==
  ASSUME Types, ClientsInv, ~Grpc, user' \in [Caller -> Using], Len(conn') = Len(conn),
         \A o \in 1..Len(conn) :
           /\ conn'[o].alive = conn[o].alive /\ conn'[o].counter = conn[o].counter
           /\ conn'[o].clients = conn[o].clients /\ (conn[o].gone => conn'[o].gone),
         \A d \in Caller :
           /\ user'[d].o = user[d].o /\ user'[d].num = user[d].num /\ user'[d].left = user[d].left
           /\ user'[d].at = "adding" <=> user[d].at = "adding"
           /\ Numbered(d)' <=> Numbered(d)
           /\ user'[d].at = "asking" =>
                /\ Redis \/ RabbitMQ
                /\ user'[d].id \in 1..Len(asker') /\ asker'[user'[d].id].o = user[d].o,
         conn \in Seq(Connection), UNCHANGED <<kind, cur, lock, evicted, raced>>
  PROVE  OneIsAlive' /\ PointersAreTrue' /\ ClientsAreUsers' /\ UsersAreClients'
<1>1. OneIsAlive'
  BY DEF ClientsInv, OneIsAlive, Grpc, RabbitMQ
<1>2. \A d \in Caller : user[d].at \in {"adding", "ready", "asking"} <=>
                        user'[d].at \in {"adding", "ready", "asking"}
  BY DEF Numbered
<1>3. PointersAreTrue'
  <2>1. \A c \in Caller :
          /\ user[c].at \in {"adding", "ready", "asking"} => user[c].o \in 1..Len(conn)
          /\ Numbered(c) => user[c].num \in 1..conn[user[c].o].counter
    BY DEF ClientsInv, PointersAreTrue
  <2>2. \A c, d \in Caller :
          Numbered(c) /\ Numbered(d) /\ user[c].o = user[d].o /\ user[c].num = user[d].num => c = d
    BY DEF ClientsInv, PointersAreTrue
  <2>3. \A c \in Caller :
          /\ user'[c].at \in {"adding", "ready", "asking"} => user'[c].o \in 1..Len(conn')
          /\ Numbered(c)' => user'[c].num \in 1..conn'[user'[c].o].counter
    <3> SUFFICES ASSUME NEW c \in Caller
                 PROVE  /\ user'[c].at \in {"adding", "ready", "asking"} => user'[c].o \in 1..Len(conn')
                        /\ Numbered(c)' => user'[c].num \in 1..conn'[user'[c].o].counter
      OBVIOUS
    <3>1. Numbered(c) => user[c].o \in 1..Len(conn)
      BY <2>1 DEF Numbered
    <3>2. QED
      BY <1>2, <2>1, <3>1
  <2>4. \A c, d \in Caller : Numbered(c)' /\ Numbered(d)' /\ user'[c].o = user'[d].o
                             /\ user'[c].num = user'[d].num => c = d
    BY <2>2
  <2>5. QED
    BY <2>3, <2>4 DEF PointersAreTrue, Redis, RabbitMQ
<1>4. ClientsAreUsers'
  <2> SUFFICES ASSUME NEW o \in 1..Len(conn), conn[o].alive, NEW p \in conn[o].clients
               PROVE  /\ Numbered(p[2])' /\ ~user'[p[2]].left
                      /\ user'[p[2]].o = o /\ user'[p[2]].num = p[1]
    BY DEF ClientsAreUsers
  <2>1. /\ Numbered(p[2]) /\ ~user[p[2]].left
        /\ user[p[2]].o = o /\ user[p[2]].num = p[1]
    BY DEF ClientsInv, ClientsAreUsers
  <2>2. p[2] \in Caller
    BY Entries
  <2>3. QED
    BY <2>1, <2>2
<1>5. UsersAreClients'
  <2> SUFFICES ASSUME NEW d \in Caller
               PROVE  /\ Numbered(d)' /\ ~user'[d].left /\ d \notin evicted =>
                           IF conn'[user'[d].o].alive
                           THEN <<user'[d].num, d>> \in conn'[user'[d].o].clients ELSE raced
                      /\ user'[d].at = "adding" /\ ~conn'[user'[d].o].alive => raced
    BY DEF UsersAreClients
  <2>1. /\ Numbered(d) /\ ~user[d].left /\ d \notin evicted =>
               IF conn[user[d].o].alive
               THEN <<user[d].num, d>> \in conn[user[d].o].clients ELSE raced
        /\ user[d].at = "adding" /\ ~conn[user[d].o].alive => raced
    BY DEF ClientsInv, UsersAreClients
  <2>2. Numbered(d) \/ user[d].at = "adding" => user[d].o \in 1..Len(conn)
    BY DEF ClientsInv, PointersAreTrue, Numbered
  <2>3. /\ user'[d].o = user[d].o /\ user'[d].num = user[d].num /\ user'[d].left = user[d].left
        /\ user'[d].at = "adding" <=> user[d].at = "adding"
        /\ Numbered(d)' <=> Numbered(d)
    OBVIOUS
  <2>4. Numbered(d) \/ user[d].at = "adding" =>
          /\ conn'[user[d].o].alive = conn[user[d].o].alive
          /\ conn'[user[d].o].clients = conn[user[d].o].clients
    BY <2>2
  <2>5. Numbered(d)' /\ ~user'[d].left /\ d \notin evicted =>
           IF conn'[user'[d].o].alive
           THEN <<user'[d].num, d>> \in conn'[user'[d].o].clients ELSE raced
    BY <2>1, <2>3, <2>4
  <2>6. user'[d].at = "adding" /\ ~conn'[user'[d].o].alive => raced
    BY <2>1, <2>3, <2>4
  <2>7. QED
    BY <2>5, <2>6
<1>6. QED
  BY <1>1, <1>3, <1>4, <1>5

LEMMA EnterRequestStep ==
  ASSUME IndInv, Redis \/ RabbitMQ, NEW c \in Caller, EnterRequest(c), UNCHANGED Others
  PROVE  IndInv'
<1> DEFINE o == user[c].o
           i == Len(asker) + 1
           n == user[c].num
<1>1. /\ ~Grpc /\ ~Socket /\ Types /\ ClientsInv /\ user[c].at = "ready" /\ Len(asker) < MaxId
      /\ conn \in Seq(Connection) /\ Len(conn) \in Nat
  BY DEF IndInv, Redis, RabbitMQ, Grpc, Socket, Types, ClientTypes, EnterRequest
<1>2. CASE ~conn[o].alive /\ Misuse(c)
  BY <1>1, <1>2, MisuseStep
<1>3. CASE /\ conn[o].alive
           /\ asker' = Append(asker, AsCaller(c))
           /\ conn' = [conn EXCEPT ![o].table = @ \cup {<<i, n>>},
                                   ![o].index = @ \cup {<<n, i>>}]
           /\ user' = [user EXCEPT ![c].at = "asking", ![c].id = i]
           /\ belated' = (belated \/ user[c].left)
           /\ UNCHANGED <<kind, cur, lock, evicted, heard, server, queue, lost, faults,
                          misused, strayed, raced>>
  <2>1. Numbered(c) /\ o \in 1..Len(conn) /\ n \in 1..conn[o].counter
    BY <1>1 DEF ClientsInv, PointersAreTrue, Numbered
  <2>2. /\ asker \in Seq(Asking) /\ Len(asker) \in Nat /\ MaxId \in Nat /\ user[c] \in Using
        /\ belated \in BOOLEAN
    BY <1>1, RpcAssumption DEF Types, ClientTypes
  <2>3. i \in Id /\ i \notin 1..Len(asker) /\ o \in Nat /\ n \in Nat /\ user[c].left \in BOOLEAN
    BY <1>1, <2>2 DEF Id, Using
  <2>4. AsCaller(c) \in Asking
    BY <2>2 DEF AsCaller, Asking, Using
  <2>5. Longer
    BY <1>1, <1>3, <2>4 DEF Longer
  <2>6. AsCaller(c).by = c /\ AsCaller(c).o = o /\ AsCaller(c).num = n
    BY DEF AsCaller
  <2>7. /\ asker' \in Seq(Asking) /\ Len(asker') = i /\ asker'[i] = AsCaller(c)
        /\ \A j \in 1..Len(asker) : asker'[j] = asker[j]
    BY <1>3, <2>2, <2>4, Added
  <2>8. \A j \in 1..Len(asker') : j \in 1..Len(asker) \/ j = i
    BY <2>2, <2>7
  <2> DEFINE t == conn[o].table \cup {<<i, n>>}
             d == conn[o].index \cup {<<n, i>>}
             x == [conn[o] EXCEPT !.table = t, !.index = d]
             u == [user[c] EXCEPT !.at = "asking", !.id = i]
  <2>9. /\ x \in Connection /\ x.table = t /\ x.index = d
        /\ x.alive = conn[o].alive /\ x.gone = conn[o].gone /\ x.counter = conn[o].counter
        /\ x.clients = conn[o].clients /\ x.inbox = conn[o].inbox /\ x.hand = conn[o].hand
    <3>1. conn[o] \in Connection
      BY <1>1, <2>1, Entries
    <3>2. conn[o].table \in SUBSET (Id \X Nat) /\ conn[o].index \in SUBSET (Nat \X Id)
      BY <3>1 DEF Connection
    <3>3. t \in SUBSET (Id \X Nat) /\ d \in SUBSET (Nat \X Id)
      <4> HIDE DEF i, n
      <4>1. QED
        BY <2>3, <3>2
    <3> HIDE DEF t, d
    <3>4. QED
      BY <3>1, <3>3 DEF Connection
  <2>10. u \in Using /\ u.at = "asking" /\ u.id = i /\ u.o = o /\ u.num = n /\ u.left = user[c].left
    <3>1. i \in 0..MaxId
      BY <1>1, <2>2
    <3> HIDE DEF i
    <3>2. QED
      BY <2>2, <3>1 DEF Using, UserAt
  <2>11. conn' = [conn EXCEPT ![o] = x] /\ user' = [user EXCEPT ![c] = u]
    BY <1>1, <1>3 DEF Types, ClientTypes
  <2> HIDE DEF x, u
  <2>12. /\ conn' \in Seq(Connection) /\ Len(conn') = Len(conn) /\ conn'[o] = x
         /\ \A q \in 1..Len(conn) : q # o => conn'[q] = conn[q]
    BY <1>1, <2>1, <2>9, <2>11, Changed
  <2>13. /\ user' \in [Caller -> Using] /\ user'[c] = u
         /\ \A e \in Caller : e # c => user'[e] = user[e]
    BY <1>1, <2>10, <2>11, UserChanged
  <2>14. /\ UNCHANGED <<kind, cur, lock, evicted, heard, server, queue, misused, strayed, raced, Others>>
         /\ belated' \in BOOLEAN /\ (belated => belated') /\ (user[c].left => belated')
    BY <1>3, <2>2, <2>3
  <2> HIDE DEF i, n, o
  <2>15. ClientTypes'
    <3>1. Len(asker') <= MaxId
      BY <1>1, <2>5, AskersStay
    <3>2. QED
      BY <1>1, <2>7, <2>12, <2>13, <2>14, <3>1 DEF Types, ClientTypes, Others
  <2>16. \A q \in 1..Len(conn) :
           /\ conn'[q].alive = conn[q].alive /\ conn'[q].counter = conn[q].counter
           /\ conn'[q].clients = conn[q].clients /\ conn'[q].gone = conn[q].gone
           /\ conn'[q].inbox = conn[q].inbox /\ conn'[q].hand = conn[q].hand
    BY <2>9, <2>12
  <2>17. OneIsAlive' /\ PointersAreTrue' /\ ClientsAreUsers' /\ UsersAreClients'
    <3>1. ASSUME NEW e \in Caller
          PROVE  /\ user'[e].o = user[e].o /\ user'[e].num = user[e].num
                 /\ user'[e].left = user[e].left
                 /\ user'[e].at = "adding" <=> user[e].at = "adding"
                 /\ Numbered(e)' <=> Numbered(e)
                 /\ user'[e].at = "asking" =>
                      /\ Redis \/ RabbitMQ
                      /\ user'[e].id \in 1..Len(asker') /\ asker'[user'[e].id].o = user[e].o
      <4>1. CASE e = c
        <5>1. i \in 1..i
          BY <2>2 DEF i
        <5>2. QED
          BY <1>1, <2>1, <2>6, <2>7, <2>10, <2>13, <4>1, <5>1 DEF Numbered, o, n
      <4>2. CASE e # c
        <5>1. user'[e] = user[e]
          BY <2>13, <4>2
        <5>2. user[e].at = "asking" => user[e].id \in 1..Len(asker) /\ asker[user[e].id].o = user[e].o
          BY <1>1 DEF ClientsInv, PointersAreTrue
        <5>3. \A j \in 1..Len(asker) : j \in 1..Len(asker') /\ asker'[j] = asker[j]
          BY <1>1, <2>5, AskersStay
        <5>4. QED
          BY <5>1, <5>2, <5>3 DEF Numbered
      <4>3. QED
        BY <4>1, <4>2
    <3>2. QED
      BY <1>1, <2>12, <2>13, <2>14, <2>16, <3>1, PeopleStay
  <2>18. AskersAreTrue'
    <3> SUFFICES ASSUME NEW j \in 1..Len(asker')
                 PROVE  /\ asker'[j].o \in 1..Len(conn)
                        /\ asker'[j].num \in 1..conn[asker'[j].o].counter
                        /\ conn[asker'[j].o].alive => \A p \in conn[asker'[j].o].clients :
                             p[1] = asker'[j].num => p[2] = asker'[j].by
      BY <2>12, <2>16 DEF AskersAreTrue
    <3>1. CASE j \in 1..Len(asker)
      BY <1>1, <2>7, <3>1 DEF ClientsInv, AskersAreTrue
    <3>2. CASE j = i
      <4>1. asker'[j].o = o /\ asker'[j].num = n /\ asker'[j].by = c
        BY <2>6, <2>7, <3>2
      <4>2. ASSUME conn[o].alive, NEW p \in conn[o].clients, p[1] = n
            PROVE  p[2] = c
        <5>1. Numbered(p[2]) /\ user[p[2]].o = o /\ user[p[2]].num = p[1]
          BY <1>1, <2>1, <4>2 DEF ClientsInv, ClientsAreUsers
        <5>2. p[2] \in Caller
          BY <1>1, <2>1, Entries
        <5>3. QED
          BY <1>1, <2>1, <4>2, <5>1, <5>2 DEF ClientsInv, PointersAreTrue, o, n
      <4>3. QED
        BY <2>1, <4>1, <4>2
    <3>3. QED
      BY <2>8, <3>1, <3>2
  <2>19. TablesAreTrue'
    <3> SUFFICES ASSUME NEW q \in 1..Len(conn)
                 PROVE  /\ \A p \in conn'[q].table :
                             /\ p[1] \in 1..Len(asker') /\ asker'[p[1]].o = q
                             /\ asker'[p[1]].num = p[2]
                        /\ conn'[q].index = {<<p[2], p[1]>> : p \in conn'[q].table}
                        /\ conn'[q].alive => \A p \in conn'[q].table :
                             \/ belated' \/ asker'[p[1]].by \in evicted'
                             \/ \E k \in conn'[q].clients : k[1] = p[2]
      BY <1>1, <2>12, <2>14 DEF TablesAreTrue, Socket, Grpc
    <3>1. /\ \A p \in conn[q].table :
               p[1] \in 1..Len(asker) /\ asker[p[1]].o = q /\ asker[p[1]].num = p[2]
          /\ conn[q].index = {<<p[2], p[1]>> : p \in conn[q].table}
          /\ conn[q].alive => \A p \in conn[q].table :
               belated \/ asker[p[1]].by \in evicted \/ \E k \in conn[q].clients : k[1] = p[2]
      BY <1>1 DEF ClientsInv, TablesAreTrue
    <3>2. \A j \in 1..Len(asker) : j \in 1..Len(asker') /\ asker'[j] = asker[j]
      BY <1>1, <2>5, AskersStay
    <3>3. CASE q # o
      BY <2>12, <2>14, <3>1, <3>2, <3>3
    <3>4. CASE q = o
      <4>1. /\ conn'[q].table = conn[q].table \cup {<<i, n>>}
            /\ conn'[q].index = conn[q].index \cup {<<n, i>>}
            /\ conn'[q].clients = conn[q].clients /\ conn'[q].alive = conn[q].alive
        BY <2>9, <2>12, <3>4
      <4>2. i \in 1..Len(asker') /\ asker'[i].o = q /\ asker'[i].num = n /\ asker'[i].by = c
        BY <2>2, <2>6, <2>7, <3>4 DEF i
      <4>3. belated' \/ c \in evicted \/ \E k \in conn[q].clients : k[1] = n
        <5>1. ~user[c].left /\ c \notin evicted => <<n, c>> \in conn[o].clients
          BY <1>1, <1>3, <2>1 DEF ClientsInv, UsersAreClients, o, n
        <5>2. QED
          BY <2>14, <3>4, <5>1
      <4>4. \A p \in conn'[q].table : p \in conn[q].table \/ p = <<i, n>>
        BY <4>1
      <4>5. conn'[q].index = {<<p[2], p[1]>> : p \in conn'[q].table}
        <5>1. PICK S : S = conn[q].table
          OBVIOUS
        <5>2. conn'[q].table = S \cup {<<i, n>>}
          BY <4>1, <5>1
        <5>3. conn'[q].index = {<<p[2], p[1]>> : p \in S} \cup {<<n, i>>}
          BY <3>1, <4>1, <5>1
        <5>4. Mirror(S \cup {<<i, n>>}) = Mirror(S) \cup {<<n, i>>}
          BY MirrorAdded
        <5>5. QED
          BY <5>2, <5>3, <5>4 DEF Mirror
      <4>6. \A p \in conn'[q].table :
              p[1] \in 1..Len(asker') /\ asker'[p[1]].o = q /\ asker'[p[1]].num = p[2]
        BY <3>1, <3>2, <4>2, <4>4
      <4>7. conn'[q].alive => \A p \in conn'[q].table :
              \/ belated' \/ asker'[p[1]].by \in evicted'
              \/ \E k \in conn'[q].clients : k[1] = p[2]
        BY <2>14, <3>1, <3>2, <4>1, <4>2, <4>3, <4>4
      <4>8. QED
        BY <4>5, <4>6, <4>7
    <3>5. QED
      BY <3>3, <3>4
  <2>20. FixedClients' /\ FreedIsNotUsed'
    BY <1>1, <2>14 DEF ClientsInv, FixedClients, FreedIsNotUsed, Grpc, Socket, Redis
  <2>21. ServerTypes' /\ ServersInv' /\ RepliesAreTrue' /\ HeardTypes' /\ CallsInv'
    <3>1. \A q \in 1..Len(conn') : \A p \in conn'[q].table :
            p[1] \in 1..Len(asker) => q \in 1..Len(conn) /\ p \in conn[q].table
      BY <2>3, <2>9, <2>12
    <3>2. QED
      BY <1>1, <2>5, <2>12, <2>14, <2>16, <3>1, MessagesStay
  <2>22. QED
    BY <2>15, <2>17, <2>18, <2>19, <2>20, <2>21 DEF IndInv, Types, ClientsInv
<1>4. QED
  BY <1>2, <1>3 DEF EnterRequest

\* A connection without a client.
LEMMA WithoutClientKeeps ==
  ASSUME NEW y \in Connection, NEW n
  PROVE  /\ WithoutClient(y, n) \in Connection
         /\ WithoutClient(y, n).clients = {p \in y.clients : p[1] # n}
         /\ WithoutClient(y, n).table =
              {p \in y.table : p[1] \notin {q[2] : q \in {r \in y.index : r[1] = n}}}
         /\ WithoutClient(y, n).index = {p \in y.index : p[1] # n}
         /\ WithoutClient(y, n).alive = y.alive /\ WithoutClient(y, n).gone = y.gone
         /\ WithoutClient(y, n).counter = y.counter
         /\ WithoutClient(y, n).inbox = y.inbox /\ WithoutClient(y, n).hand = y.hand
         /\ WithoutClient(y, n).running = y.running /\ y.running \in BOOLEAN
<1> DEFINE ids == {q[2] : q \in {r \in y.index : r[1] = n}}
           k == {p \in y.clients : p[1] # n}
           t == {p \in y.table : p[1] \notin ids}
           d == {p \in y.index : p[1] # n}
           x == [y EXCEPT !.clients = k, !.table = t, !.index = d]
<1>1. WithoutClient(y, n) = x
  BY DEF WithoutClient
<1>2. /\ y.clients \in SUBSET (Nat \X Caller) /\ y.table \in SUBSET (Id \X Nat)
      /\ y.index \in SUBSET (Nat \X Id)
  BY DEF Connection
<1>3. k \in SUBSET (Nat \X Caller) /\ t \in SUBSET (Id \X Nat) /\ d \in SUBSET (Nat \X Id)
  BY <1>2
<1> HIDE DEF ids, k, t, d
<1>4. /\ x \in Connection /\ x.clients = k /\ x.table = t /\ x.index = d
      /\ x.alive = y.alive /\ x.gone = y.gone /\ x.counter = y.counter
      /\ x.inbox = y.inbox /\ x.hand = y.hand /\ x.running = y.running /\ y.running \in BOOLEAN
  BY <1>3 DEF Connection
<1> HIDE DEF x
<1>5. QED
  BY <1>1, <1>4 DEF k, t, d, ids

LEMMA LeaveConnectionStep ==
  ASSUME IndInv, Redis \/ RabbitMQ, NEW c \in Caller, LeaveConnection(c), UNCHANGED Others
  PROVE  IndInv'
<1> DEFINE n == user[c].num
<1>1. /\ ~Grpc /\ ~Socket /\ Types /\ ClientsInv /\ Numbered(c) /\ lock = Nobody
      /\ conn \in Seq(Connection) /\ Len(conn) \in Nat /\ user[c] \in Using /\ belated \in BOOLEAN
      /\ cur \in 0..Len(conn)
  BY DEF IndInv, Redis, RabbitMQ, Grpc, Socket, Types, ClientTypes, LeaveConnection, Numbered
<1>2. /\ UNCHANGED <<kind, cur, asker, heard, server, queue, misused, strayed, raced, Others>>
      /\ belated' \in BOOLEAN /\ (belated => belated') /\ Longer
  BY <1>1 DEF LeaveConnection, Longer
<1> DEFINE u == [user[c] EXCEPT !.left = TRUE]
<1>3. /\ u \in Using /\ u.at = user[c].at /\ u.o = user[c].o /\ u.num = n /\ u.left = TRUE
      /\ u.id = user[c].id
  BY <1>1 DEF Using
<1>4. user' = [user EXCEPT ![c] = u]
  BY <1>1 DEF LeaveConnection, Types, ClientTypes
<1> HIDE DEF u
<1>5. /\ user' \in [Caller -> Using] /\ user'[c] = u
      /\ \A d \in Caller : d # c => user'[d] = user[d]
  BY <1>1, <1>3, <1>4, UserChanged
<1>6. /\ \A d \in Caller : /\ user'[d].at = user[d].at /\ user'[d].o = user[d].o
                           /\ user'[d].num = user[d].num /\ user'[d].id = user[d].id
                           /\ Numbered(d)' <=> Numbered(d)
      /\ \A d \in Caller : ~user'[d].left => d # c
  <2> SUFFICES ASSUME NEW d \in Caller
               PROVE  /\ user'[d].at = user[d].at /\ user'[d].o = user[d].o
                      /\ user'[d].num = user[d].num /\ user'[d].id = user[d].id
                      /\ Numbered(d)' <=> Numbered(d)
                      /\ ~user'[d].left => d # c
    OBVIOUS
  <2>1. CASE d = c
    BY <1>3, <1>5, <2>1 DEF Numbered
  <2>2. CASE d # c
    BY <1>5, <2>2 DEF Numbered
  <2>3. QED
    BY <2>1, <2>2
\* What is left of the clients and the tables.
<1>7. /\ conn' \in Seq(Connection) /\ Len(conn') = Len(conn)
      /\ \A o \in 1..Len(conn) :
           /\ conn'[o].alive = conn[o].alive /\ conn'[o].gone = conn[o].gone
           /\ conn'[o].counter = conn[o].counter
           /\ conn'[o].inbox = conn[o].inbox /\ conn'[o].hand = conn[o].hand
           /\ o = cur =>
                /\ conn'[o].clients = {p \in conn[o].clients : p[1] # n}
                /\ conn'[o].table =
                     {p \in conn[o].table : p[1] \notin {q[2] : q \in {r \in conn[o].index : r[1] = n}}}
                /\ conn'[o].index = {p \in conn[o].index : p[1] # n}
           /\ o # cur => conn'[o] = conn[o]
      /\ lock' \in Caller \cup {Nobody} /\ (lock' # Nobody => cur # 0)
      /\ evicted' \subseteq Caller /\ evicted \subseteq evicted'
      /\ cur # 0 => \A d \in Caller : d # c /\ <<n, d>> \in conn[cur].clients => d \in evicted'
  <2>1. CASE cur = 0
    <3>1. UNCHANGED <<conn, lock, evicted>>
      BY <2>1 DEF LeaveConnection
    <3>2. \A o \in 1..Len(conn) : o # cur
      BY <1>1, <2>1
    <3>3. QED
      BY <1>1, <2>1, <3>1, <3>2 DEF Types, ClientTypes
  <2>2. CASE cur # 0
    <3> DEFINE rest == WithoutClient(conn[cur], n)
               last == rest.clients = {}
               x == [rest EXCEPT !.running = @ /\ ~last]
    <3>1. /\ conn' = [conn EXCEPT ![cur] = x]
          /\ lock' = IF last THEN c ELSE Nobody
          /\ evicted' = evicted \cup {d \in Caller \ {c} : <<n, d>> \in conn[cur].clients}
      BY <2>2 DEF LeaveConnection
    <3>2. cur \in 1..Len(conn) /\ conn[cur] \in Connection
      BY <1>1, <2>2, Entries
    <3>3. /\ rest \in Connection
          /\ rest.clients = {p \in conn[cur].clients : p[1] # n}
          /\ rest.table = {p \in conn[cur].table :
                             p[1] \notin {q[2] : q \in {r \in conn[cur].index : r[1] = n}}}
          /\ rest.index = {p \in conn[cur].index : p[1] # n}
          /\ rest.alive = conn[cur].alive /\ rest.gone = conn[cur].gone
          /\ rest.counter = conn[cur].counter
          /\ rest.inbox = conn[cur].inbox /\ rest.hand = conn[cur].hand
          /\ rest.running \in BOOLEAN
      BY <3>2, WithoutClientKeeps
    <3>4. (rest.running /\ ~last) \in BOOLEAN
      OBVIOUS
    <3> HIDE DEF rest, last
    <3>5. /\ x \in Connection
          /\ x.clients = rest.clients /\ x.table = rest.table /\ x.index = rest.index
          /\ x.alive = rest.alive /\ x.gone = rest.gone /\ x.counter = rest.counter
          /\ x.inbox = rest.inbox /\ x.hand = rest.hand
      BY <3>3, <3>4 DEF Connection
    <3> HIDE DEF x
    <3>6. /\ conn' \in Seq(Connection) /\ Len(conn') = Len(conn) /\ conn'[cur] = x
          /\ \A o \in 1..Len(conn) : o # cur => conn'[o] = conn[o]
      BY <1>1, <3>1, <3>2, <3>5, Changed
    <3>7. lock' \in Caller \cup {Nobody} /\ evicted' \subseteq Caller /\ evicted \subseteq evicted'
      BY <1>1, <3>1 DEF Types, ClientTypes
    <3>8. \A d \in Caller : d # c /\ <<n, d>> \in conn[cur].clients => d \in evicted'
      BY <3>1
    <3>9. \A o \in 1..Len(conn) :
           /\ conn'[o].alive = conn[o].alive /\ conn'[o].gone = conn[o].gone
           /\ conn'[o].counter = conn[o].counter
           /\ conn'[o].inbox = conn[o].inbox /\ conn'[o].hand = conn[o].hand
           /\ o # cur => conn'[o] = conn[o]
      BY <3>3, <3>5, <3>6
    <3>10. /\ conn'[cur].clients = {p \in conn[cur].clients : p[1] # n}
           /\ conn'[cur].table =
                {p \in conn[cur].table : p[1] \notin {q[2] : q \in {r \in conn[cur].index : r[1] = n}}}
           /\ conn'[cur].index = {p \in conn[cur].index : p[1] # n}
      BY <3>3, <3>5, <3>6
    <3>11. QED
      BY <2>2, <3>6, <3>7, <3>8, <3>9, <3>10
  <2>3. QED
    BY <2>1, <2>2
<1> HIDE DEF n
<1>8. \A o \in 1..Len(conn) : conn[o].alive <=> o = cur
  BY <1>1 DEF ClientsInv, OneIsAlive
<1>9. ClientTypes'
  BY <1>1, <1>2, <1>5, <1>7 DEF Types, ClientTypes, Others
<1>10. OneIsAlive'
  BY <1>1, <1>2, <1>7 DEF ClientsInv, OneIsAlive, Grpc, RabbitMQ
<1>11. PointersAreTrue'
  <2>1. \A d \in Caller :
          /\ user'[d].at \in {"adding", "ready", "asking"} => user'[d].o \in 1..Len(conn')
          /\ Numbered(d)' => user'[d].num \in 1..conn'[user'[d].o].counter
    <3> SUFFICES ASSUME NEW d \in Caller
                 PROVE  /\ user[d].at \in {"adding", "ready", "asking"} => user[d].o \in 1..Len(conn)
                        /\ Numbered(d) => user[d].num \in 1..conn'[user[d].o].counter
      BY <1>6, <1>7
    <3>1. /\ user[d].at \in {"adding", "ready", "asking"} => user[d].o \in 1..Len(conn)
          /\ Numbered(d) => user[d].num \in 1..conn[user[d].o].counter
      BY <1>1 DEF ClientsInv, PointersAreTrue
    <3>2. QED
      BY <1>7, <3>1 DEF Numbered
  <2>2. \A d, e \in Caller : Numbered(d)' /\ Numbered(e)' /\ user'[d].o = user'[e].o
                             /\ user'[d].num = user'[e].num => d = e
    BY <1>1, <1>6 DEF ClientsInv, PointersAreTrue
  <2>3. \A d \in Caller : user'[d].at = "asking" =>
          /\ Redis' \/ RabbitMQ'
          /\ user'[d].id \in 1..Len(asker') /\ asker'[user'[d].id].o = user'[d].o
    BY <1>1, <1>2, <1>6 DEF ClientsInv, PointersAreTrue, Redis, RabbitMQ
  <2>4. QED
    BY <2>1, <2>2, <2>3 DEF PointersAreTrue
<1>12. ClientsAreUsers'
  <2> SUFFICES ASSUME NEW o \in 1..Len(conn'), conn'[o].alive, NEW p \in conn'[o].clients
               PROVE  /\ Numbered(p[2])' /\ ~user'[p[2]].left
                      /\ user'[p[2]].o = o /\ user'[p[2]].num = p[1]
    BY DEF ClientsAreUsers
  <2>1. o \in 1..Len(conn) /\ o = cur /\ conn[o].alive /\ p \in conn[o].clients /\ p[1] # n
    BY <1>7, <1>8
  <2>2. /\ Numbered(p[2]) /\ ~user[p[2]].left
        /\ user[p[2]].o = o /\ user[p[2]].num = p[1]
    BY <1>1, <2>1 DEF ClientsInv, ClientsAreUsers
  <2>3. p[2] \in Caller /\ p[2] # c
    BY <1>1, <2>1, <2>2, Entries DEF n
  <2>4. QED
    BY <1>5, <1>6, <2>2, <2>3
<1>13. UsersAreClients'
  <2> SUFFICES ASSUME NEW d \in Caller
               PROVE  /\ Numbered(d)' /\ ~user'[d].left /\ d \notin evicted' =>
                           IF conn'[user'[d].o].alive
                           THEN <<user'[d].num, d>> \in conn'[user'[d].o].clients ELSE raced
                      /\ user'[d].at = "adding" /\ ~conn'[user'[d].o].alive => raced
    BY <1>2 DEF UsersAreClients
  <2>1. /\ Numbered(d) /\ ~user[d].left /\ d \notin evicted =>
             IF conn[user[d].o].alive
             THEN <<user[d].num, d>> \in conn[user[d].o].clients ELSE raced
        /\ user[d].at = "adding" /\ ~conn[user[d].o].alive => raced
    BY <1>1 DEF ClientsInv, UsersAreClients
  <2>2. Numbered(d) \/ user[d].at = "adding" => user[d].o \in 1..Len(conn)
    BY <1>1 DEF ClientsInv, PointersAreTrue, Numbered
  <2>3. user'[d].at = "adding" /\ ~conn'[user'[d].o].alive => raced
    BY <1>6, <1>7, <2>1, <2>2
  <2>4. ASSUME Numbered(d)', ~user'[d].left, d \notin evicted'
        PROVE  IF conn'[user'[d].o].alive
               THEN <<user'[d].num, d>> \in conn'[user'[d].o].clients ELSE raced
    <3> DEFINE o == user[d].o
    <3>1. d # c /\ Numbered(d) /\ ~user[d].left /\ d \notin evicted
      BY <1>5, <1>6, <1>7, <2>4
    <3>2. o \in 1..Len(conn) /\ user'[d].o = o /\ user'[d].num = user[d].num
          /\ conn'[o].alive = conn[o].alive
      BY <1>6, <1>7, <2>2, <3>1
    <3>3. IF conn[o].alive THEN <<user[d].num, d>> \in conn[o].clients ELSE raced
      BY <2>1, <3>1
    <3> HIDE DEF o
    <3>4. CASE conn[o].alive
      <4>1. o = cur /\ cur # 0 /\ <<user[d].num, d>> \in conn[o].clients
        BY <1>8, <3>2, <3>3, <3>4
      <4>2. user[d].num # n
        BY <1>7, <2>4, <3>1, <4>1
      <4>3. <<user[d].num, d>> \in conn'[o].clients
        BY <1>7, <3>2, <4>1, <4>2
      <4>4. QED
        BY <3>2, <3>4, <4>3
    <3>5. CASE ~conn[o].alive
      BY <3>2, <3>3, <3>5
    <3>6. QED
      BY <3>4, <3>5
  <2>5. QED
    BY <2>3, <2>4
<1>14. AskersAreTrue'
  <2>1. \A o \in 1..Len(conn) : conn'[o].clients \subseteq conn[o].clients
    BY <1>7
  <2> SUFFICES ASSUME NEW i \in 1..Len(asker)
               PROVE  /\ asker[i].o \in 1..Len(conn')
                      /\ asker[i].num \in 1..conn'[asker[i].o].counter
                      /\ conn'[asker[i].o].alive => \A p \in conn'[asker[i].o].clients :
                           p[1] = asker[i].num => p[2] = asker[i].by
    BY <1>2 DEF AskersAreTrue
  <2>2. /\ asker[i].o \in 1..Len(conn)
        /\ asker[i].num \in 1..conn[asker[i].o].counter
        /\ conn[asker[i].o].alive => \A p \in conn[asker[i].o].clients :
             p[1] = asker[i].num => p[2] = asker[i].by
    BY <1>1 DEF ClientsInv, AskersAreTrue
  <2>3. QED
    BY <1>7, <2>1, <2>2
<1>15. TablesAreTrue'
  <2> SUFFICES ASSUME NEW o \in 1..Len(conn)
               PROVE  /\ \A p \in conn'[o].table :
                           p[1] \in 1..Len(asker) /\ asker[p[1]].o = o /\ asker[p[1]].num = p[2]
                      /\ conn'[o].index = {<<p[2], p[1]>> : p \in conn'[o].table}
                      /\ conn'[o].alive => \A p \in conn'[o].table :
                           \/ belated' \/ asker[p[1]].by \in evicted'
                           \/ \E q \in conn'[o].clients : q[1] = p[2]
    BY <1>1, <1>2, <1>7 DEF TablesAreTrue, Socket, Grpc
  <2>1. /\ \A p \in conn[o].table :
             p[1] \in 1..Len(asker) /\ asker[p[1]].o = o /\ asker[p[1]].num = p[2]
        /\ conn[o].index = {<<p[2], p[1]>> : p \in conn[o].table}
        /\ conn[o].alive => \A p \in conn[o].table :
             belated \/ asker[p[1]].by \in evicted \/ \E q \in conn[o].clients : q[1] = p[2]
    BY <1>1 DEF ClientsInv, TablesAreTrue
  <2>2. CASE o # cur
    BY <1>2, <1>7, <2>1, <2>2
  <2>3. CASE o = cur
    <3>1. PICK T : T = conn[o].table
      OBVIOUS
    <3>2. PICK D : D = conn[o].index
      OBVIOUS
    <3>3. PICK U : U = conn'[o].table
      OBVIOUS
    <3>4. /\ U = {p \in T : p[1] \notin {q[2] : q \in {r \in D : r[1] = n}}}
          /\ conn'[o].index = {p \in D : p[1] # n}
          /\ conn'[o].clients = {p \in conn[o].clients : p[1] # n}
      BY <1>7, <2>3, <3>1, <3>2, <3>3
    <3>5. \A p \in T : asker[p[1]].num = p[2]
      BY <2>1, <3>1
    <3>6. D = {<<p[2], p[1]>> : p \in T}
      BY <2>1, <3>1, <3>2
    <3>7. /\ \A p \in T : p \in U <=> p[2] # n
          /\ {p \in D : p[1] # n} = {<<p[2], p[1]>> : p \in U}
      <4>1. U = TableWithout(T, D, n)
        BY <3>4 DEF TableWithout
      <4>2. D = Mirror(T)
        BY <3>6 DEF Mirror
      <4>3. (\A p \in T : p \in U <=> p[2] # n) /\ Dropped(D, n) = Mirror(U)
        <5>1. OneNumber(T, asker)
          BY <3>5 DEF OneNumber
        <5>2. QED
          BY <4>1, <4>2, <5>1, MirrorWithout
      <4>4. QED
        BY <4>3 DEF Mirror, Dropped
    <3>8. \A p \in U : p \in T /\ p[2] # n
      BY <3>4, <3>7
    <3>9. conn'[o].index = {<<p[2], p[1]>> : p \in conn'[o].table}
      BY <3>3, <3>4, <3>7
    <3>10. ASSUME conn'[o].alive, NEW p \in conn'[o].table
           PROVE  \/ belated' \/ asker[p[1]].by \in evicted'
                  \/ \E q \in conn'[o].clients : q[1] = p[2]
      <4>1. p \in conn[o].table /\ p[2] # n
        BY <3>1, <3>3, <3>8, <3>10
      <4>2. belated \/ asker[p[1]].by \in evicted \/ \E q \in conn[o].clients : q[1] = p[2]
        BY <1>7, <2>1, <3>10, <4>1
      <4>3. QED
        BY <1>2, <1>7, <3>4, <4>1, <4>2
    <3>11. QED
      BY <2>1, <3>1, <3>3, <3>8, <3>9, <3>10
  <2>4. QED
    BY <2>2, <2>3
<1>16. FixedClients' /\ FreedIsNotUsed'
  BY <1>1, <1>2, <1>7 DEF ClientsInv, FixedClients, FreedIsNotUsed, Grpc, Socket, Redis
<1>17. ServerTypes' /\ ServersInv' /\ RepliesAreTrue' /\ HeardTypes' /\ CallsInv'
  <2>1. \A o \in 1..Len(conn) : conn'[o].table \subseteq conn[o].table
    BY <1>7
  <2>2. QED
    BY <1>1, <1>2, <1>7, <2>1, MessagesStay
<1>18. QED
  BY <1>9, <1>10, <1>11, <1>12, <1>13, <1>14, <1>15, <1>16, <1>17 DEF IndInv, Types, ClientsInv

LEMMA FreeConnectionStep ==
  ASSUME IndInv, Redis \/ (RabbitMQ /\ conn[cur].gone), NEW c \in Caller, FreeConnection(c),
         UNCHANGED Others
  PROVE  IndInv'
<1>1. /\ ~Grpc /\ ~Socket /\ Types /\ ClientsInv /\ lock = c
      /\ conn \in Seq(Connection) /\ Len(conn) \in Nat /\ raced \in BOOLEAN
      /\ cur \in 0..Len(conn)
  BY DEF IndInv, Redis, RabbitMQ, Grpc, Socket, Types, ClientTypes, FreeConnection
<1>2. cur \in 1..Len(conn)
  <2>1. lock # Nobody
    BY <1>1, RpcAssumption
  <2>2. QED
    BY <1>1, <2>1 DEF ClientsInv, OneIsAlive
<1>3. /\ UNCHANGED <<kind, user, asker, heard, server, queue, evicted, misused, strayed, belated, Others>>
      /\ cur' = 0 /\ lock' = Nobody /\ Longer
      /\ conn' = [conn EXCEPT ![cur].alive = FALSE, ![cur].inbox = <<>>]
      /\ raced' = (raced \/ conn[cur].clients # {}
                      \/ \E d \in Caller : user[d].at = "adding" /\ user[d].o = cur)
  BY DEF FreeConnection, Longer
<1>4. /\ raced' \in BOOLEAN /\ (raced => raced')
      /\ conn[cur].clients # {} => raced'
      /\ \A d \in Caller : user[d].at = "adding" /\ user[d].o = cur => raced'
  BY <1>1, <1>3
<1> DEFINE x == [conn[cur] EXCEPT !.alive = FALSE, !.inbox = <<>>]
<1>5. /\ x \in Connection /\ x.alive = FALSE /\ x.inbox = <<>>
      /\ x.gone = conn[cur].gone /\ x.counter = conn[cur].counter
      /\ x.clients = conn[cur].clients /\ x.table = conn[cur].table
      /\ x.index = conn[cur].index /\ x.hand = conn[cur].hand
  <2>1. conn[cur] \in Connection
    BY <1>1, <1>2, Entries
  <2>2. <<>> \in Seq(Reply)
    OBVIOUS
  <2>3. QED
    BY <2>1, <2>2 DEF Connection
<1>6. conn' = [conn EXCEPT ![cur] = x]
  BY <1>1, <1>3
<1> HIDE DEF x
<1>7. /\ conn' \in Seq(Connection) /\ Len(conn') = Len(conn) /\ conn'[cur] = x
      /\ \A o \in 1..Len(conn) : o # cur => conn'[o] = conn[o]
  BY <1>1, <1>2, <1>5, <1>6, Changed
<1>8. \A o \in 1..Len(conn) :
        /\ conn'[o].gone = conn[o].gone /\ conn'[o].counter = conn[o].counter
        /\ conn'[o].clients = conn[o].clients /\ conn'[o].table = conn[o].table
        /\ conn'[o].index = conn[o].index /\ conn'[o].hand = conn[o].hand
        /\ conn'[o].inbox = <<>> \/ conn'[o].inbox = conn[o].inbox
  BY <1>5, <1>7
<1>9. \A o \in 1..Len(conn) : (conn[o].alive <=> o = cur) /\ ~conn'[o].alive
  BY <1>1, <1>5, <1>7 DEF ClientsInv, OneIsAlive
<1>10. ClientTypes'
  BY <1>1, <1>3, <1>4, <1>7 DEF Types, ClientTypes, Others
<1>11. OneIsAlive'
  <2>1. RabbitMQ => \A o \in 1..Len(conn) : conn'[o].gone
    BY <1>1, <1>8, <1>9 DEF ClientsInv, OneIsAlive, Redis, RabbitMQ
  <2>2. \A o \in 1..Len(conn) : o # 0
    BY <1>1
  <2>3. QED
    BY <1>1, <1>3, <1>7, <1>9, <2>1, <2>2 DEF OneIsAlive, Grpc, RabbitMQ
<1>12. PointersAreTrue'
  <2>1. \A d \in Caller :
          /\ user[d].at \in {"adding", "ready", "asking"} => user[d].o \in 1..Len(conn)
          /\ Numbered(d) => user[d].num \in 1..conn[user[d].o].counter
    BY <1>1 DEF ClientsInv, PointersAreTrue
  <2>2. \A d \in Caller : Numbered(d) => user[d].num \in 1..conn'[user[d].o].counter
    BY <1>8, <2>1 DEF Numbered
  <2>3. \A d, e \in Caller : Numbered(d) /\ Numbered(e) /\ user[d].o = user[e].o
                             /\ user[d].num = user[e].num => d = e
    BY <1>1 DEF ClientsInv, PointersAreTrue
  <2>4. \A d \in Caller : user[d].at = "asking" =>
          /\ Redis \/ RabbitMQ
          /\ user[d].id \in 1..Len(asker) /\ asker[user[d].id].o = user[d].o
    BY <1>1 DEF ClientsInv, PointersAreTrue
  <2>5. QED
    BY <1>3, <1>7, <2>1, <2>2, <2>3, <2>4 DEF PointersAreTrue, Numbered, Redis, RabbitMQ
<1>13. ClientsAreUsers'
  BY <1>7, <1>9 DEF ClientsAreUsers
<1>14. UsersAreClients'
  <2> SUFFICES ASSUME NEW d \in Caller
               PROVE  /\ Numbered(d) /\ ~user[d].left /\ d \notin evicted =>
                           IF conn'[user[d].o].alive
                           THEN <<user[d].num, d>> \in conn'[user[d].o].clients ELSE raced'
                      /\ user[d].at = "adding" /\ ~conn'[user[d].o].alive => raced'
    BY <1>3 DEF UsersAreClients, Numbered
  <2>1. /\ Numbered(d) /\ ~user[d].left /\ d \notin evicted =>
             IF conn[user[d].o].alive
             THEN <<user[d].num, d>> \in conn[user[d].o].clients ELSE raced
        /\ user[d].at = "adding" /\ ~conn[user[d].o].alive => raced
    BY <1>1 DEF ClientsInv, UsersAreClients
  <2>2. Numbered(d) \/ user[d].at = "adding" => user[d].o \in 1..Len(conn)
    BY <1>1 DEF ClientsInv, PointersAreTrue, Numbered
  <2>3. ASSUME Numbered(d), ~user[d].left, d \notin evicted
        PROVE  IF conn'[user[d].o].alive
               THEN <<user[d].num, d>> \in conn'[user[d].o].clients ELSE raced'
    BY <1>4, <1>9, <2>1, <2>2, <2>3
  <2>4. ASSUME user[d].at = "adding", ~conn'[user[d].o].alive PROVE raced'
    BY <1>4, <1>9, <2>1, <2>2, <2>4
  <2>5. QED
    BY <2>3, <2>4
<1>15. AskersAreTrue'
  <2> SUFFICES ASSUME NEW i \in 1..Len(asker)
               PROVE  asker[i].o \in 1..Len(conn') /\ asker[i].num \in 1..conn'[asker[i].o].counter
                      /\ ~conn'[asker[i].o].alive
    BY <1>3 DEF AskersAreTrue
  <2>1. asker[i].o \in 1..Len(conn) /\ asker[i].num \in 1..conn[asker[i].o].counter
    BY <1>1 DEF ClientsInv, AskersAreTrue
  <2>2. QED
    BY <1>7, <1>8, <1>9, <2>1
<1>16. TablesAreTrue'
  BY <1>1, <1>3, <1>7, <1>8, <1>9, TablesStay DEF ClientsInv
<1>17. FixedClients' /\ FreedIsNotUsed'
  BY <1>1, <1>3, <1>4 DEF ClientsInv, FixedClients, FreedIsNotUsed, Grpc, Socket, Redis
<1>18. ServerTypes' /\ ServersInv' /\ RepliesAreTrue' /\ HeardTypes' /\ CallsInv'
  BY <1>1, <1>3, <1>7, <1>8, MessagesStay
<1>19. QED
  BY <1>10, <1>11, <1>12, <1>13, <1>14, <1>15, <1>16, <1>17, <1>18 DEF IndInv, Types, ClientsInv

-----------------------------------------------------------------------------
(* Requests on their way to the servers.                                   *)

\* A server is sent a message.
LEMMA ServiceGets ==
  ASSUME Types, Longer, kind' = kind, NEW x \in Service, GoodService(x), x.up,
         NEW i \in Id, NEW o \in Nat, MadeOn(i, o)', Socket \/ Grpc => i \notin UnderWay(x),
         NEW y, y = [x EXCEPT !.inbox = Append(@, <<i, o>>)]
  PROVE  /\ y \in Service /\ y.up /\ GoodService(y)'
         /\ UnderWay(y) \subseteq UnderWay(x) \cup {i}
<1>1. x.inbox \in Seq(Id \X Nat) /\ <<i, o>> \in Id \X Nat /\ x.up = TRUE
  BY DEF Service
<1> DEFINE q == Append(x.inbox, <<i, o>>)
<1>2. q \in Seq(Id \X Nat)
  BY <1>1
<1>3. \A k \in DOMAIN q : \/ k \in DOMAIN x.inbox /\ q[k] = x.inbox[k]
                          \/ k = Len(x.inbox) + 1 /\ q[k] = <<i, o>>
  BY <1>1, AddedOne
<1>4. y = [x EXCEPT !.inbox = q]
  OBVIOUS
<1>5. <<i, o>>[1] = i /\ <<i, o>>[2] = o
  OBVIOUS
<1> HIDE DEF q
<1>6. /\ y \in Service /\ y.inbox = q /\ y.up = x.up /\ y.table = x.table /\ y.index = x.index
      /\ y.work = x.work
  BY <1>2, <1>4 DEF Service
<1>7. GoodService(x)'
  BY ServicesStay
<1>8. /\ \A k \in DOMAIN x.inbox : MadeOn(x.inbox[k][1], x.inbox[k][2])'
      /\ \A p \in x.table : MadeOn(p[1], p[2])'
      /\ x.work \subseteq 1..Len(asker')
      /\ Redis \/ RabbitMQ \/ Grpc => x.work \subseteq {p[1] : p \in x.table}
      /\ Socket => x.index = {<<p[2], p[1]>> : p \in x.table}
      /\ Socket \/ Grpc => /\ \A k, l \in DOMAIN x.inbox : x.inbox[k][1] = x.inbox[l][1] => k = l
                           /\ \A k \in DOMAIN x.inbox : x.inbox[k][1] \notin x.work
  BY <1>7 DEF GoodService, Redis, RabbitMQ, Grpc, Socket
<1>9. \A k \in DOMAIN q : MadeOn(q[k][1], q[k][2])'
  BY <1>3, <1>5, <1>8
<1>10. Socket \/ Grpc => /\ \A k, l \in DOMAIN q : q[k][1] = q[l][1] => k = l
                         /\ \A k \in DOMAIN q : q[k][1] \notin x.work
  BY <1>3, <1>5, <1>8 DEF UnderWay
<1>11. GoodService(y)'
  <2>1. /\ \A p \in y.table : MadeOn(p[1], p[2])'
        /\ y.work \subseteq 1..Len(asker')
        /\ Redis \/ RabbitMQ \/ Grpc => y.work \subseteq {p[1] : p \in y.table}
        /\ Socket => y.index = {<<p[2], p[1]>> : p \in y.table}
    BY <1>6, <1>8
  <2>2. y.up
    BY <1>1, <1>6
  <2> HIDE DEF MadeOn
  <2>3. QED
    BY <1>6, <1>9, <1>10, <2>1, <2>2 DEF GoodService, Redis, RabbitMQ, Grpc, Socket
<1>12. UnderWay(y) \subseteq UnderWay(x) \cup {i}
  BY <1>3, <1>5, <1>6 DEF UnderWay
<1>13. QED
  BY <1>1, <1>6, <1>11, <1>12

\* Some of the servers that are up are sent a message.
LEMMA ServersGet ==
  ASSUME Types, ServersInv, Longer, UNCHANGED <<kind, queue>>,
         NEW i \in Id, NEW o \in Nat, MadeOn(i, o)',
         server' = [s \in Server |-> server'[s]],
         \A s \in Server :
           \/ server'[s] = server[s]
           \/ /\ server[s].up /\ (Socket \/ Grpc => i \notin UnderWay(server[s]))
              /\ server'[s] = [server[s] EXCEPT !.inbox = Append(@, <<i, o>>)]
  PROVE  /\ ServerTypes' /\ ServersInv'
         /\ \A s \in Server : UnderWay(server'[s]) \subseteq UnderWay(server[s]) \cup {i}
<1>1. server \in [Server -> Service]
  BY DEF Types, ServerTypes
<1>2. ASSUME NEW s \in Server
      PROVE  /\ server'[s] \in Service /\ (server'[s].up <=> server[s].up)
             /\ server'[s] = server[s] \/ GoodService(server[s])'
             /\ UnderWay(server'[s]) \subseteq UnderWay(server[s]) \cup {i}
  <2>1. CASE server'[s] = server[s]
    BY <1>1, <2>1
  <2>2. CASE /\ server[s].up /\ (Socket \/ Grpc => i \notin UnderWay(server[s]))
             /\ server'[s] = [server[s] EXCEPT !.inbox = Append(@, <<i, o>>)]
    <3>1. PICK x : x = server[s]
      OBVIOUS
    <3>2. PICK y : y = [x EXCEPT !.inbox = Append(@, <<i, o>>)]
      OBVIOUS
    <3>3. x \in Service /\ GoodService(x) /\ x.up /\ server'[s] = y
          /\ (Socket \/ Grpc => i \notin UnderWay(x))
      BY <1>1, <2>2, <3>1, <3>2 DEF ServersInv
    <3>4. /\ y \in Service /\ y.up /\ GoodService(y)'
          /\ UnderWay(y) \subseteq UnderWay(x) \cup {i}
      BY <3>2, <3>3, ServiceGets
    <3>5. GoodService(server[s])'
      BY <3>3, <3>4 DEF GoodService
    <3>6. QED
      BY <2>2, <3>1, <3>3, <3>4, <3>5
  <2>3. QED
    BY <2>1, <2>2
<1>3. server' \in [Server -> Service]
  BY <1>2
<1>4. OneServer'
  BY <1>2 DEF ServersInv, OneServer, Socket, Grpc
<1>5. \A k \in DOMAIN queue : MadeOn(queue[k][1], queue[k][2])'
  BY AskersStay DEF ServersInv, QueueIsTrue
<1>6. QueueIsTrue' /\ queue' \in Seq(Id \X Nat)
  BY <1>5 DEF QueueIsTrue, Types, ServerTypes
<1>7. QED
  BY <1>2, <1>3, <1>4, <1>6, ServersStep

LEMMA SentKeeps ==
  ASSUME IndInv, Redis \/ RabbitMQ, NEW c \in Caller, Sent(c), UNCHANGED Others
  PROVE  /\ ClientTypes' /\ ClientsInv' /\ Longer
         /\ user[c].id \in Id /\ user[c].o \in Nat /\ MadeOn(user[c].id, user[c].o)
<1>1. /\ ~Grpc /\ ~Socket /\ Types /\ ClientsInv /\ user[c].at = "asking" /\ user[c] \in Using
      /\ conn \in Seq(Connection) /\ Len(conn) \in Nat
      /\ UNCHANGED <<kind, conn, cur, lock, evicted, asker, heard, undefVars, Others>>
  BY DEF IndInv, Redis, RabbitMQ, Grpc, Socket, Types, ClientTypes, Sent
<1> DEFINE u == [user[c] EXCEPT !.at = "ready"]
<1>2. /\ u \in Using /\ u.at = "ready" /\ u.o = user[c].o /\ u.num = user[c].num
      /\ u.left = user[c].left
  BY <1>1 DEF Using, UserAt
<1>3. user' = [user EXCEPT ![c] = u]
  BY <1>1 DEF Sent, Types, ClientTypes
<1> HIDE DEF u
<1>4. /\ user' \in [Caller -> Using] /\ user'[c] = u
      /\ \A d \in Caller : d # c => user'[d] = user[d]
  BY <1>1, <1>2, <1>3, UserChanged
<1>5. ASSUME NEW d \in Caller
      PROVE  /\ user'[d].o = user[d].o /\ user'[d].num = user[d].num
             /\ user'[d].left = user[d].left
             /\ user'[d].at = "adding" <=> user[d].at = "adding"
             /\ Numbered(d)' <=> Numbered(d)
             /\ user'[d].at = "asking" =>
                  /\ Redis \/ RabbitMQ
                  /\ user'[d].id \in 1..Len(asker') /\ asker'[user'[d].id].o = user[d].o
  <2>1. CASE d = c
    BY <1>1, <1>2, <1>4, <2>1 DEF Numbered
  <2>2. CASE d # c
    BY <1>1, <1>4, <2>2 DEF ClientsInv, PointersAreTrue, Numbered
  <2>3. QED
    BY <2>1, <2>2
<1>6. OneIsAlive' /\ PointersAreTrue' /\ ClientsAreUsers' /\ UsersAreClients'
  BY <1>1, <1>4, <1>5, PeopleStay DEF undefVars
<1>7. AskersAreTrue' /\ TablesAreTrue' /\ FixedClients' /\ FreedIsNotUsed'
  BY <1>1 DEF ClientsInv, AskersAreTrue, TablesAreTrue, FixedClients, FreedIsNotUsed, undefVars,
     Redis, Socket, Grpc
<1>8. ClientTypes'
  BY <1>1, <1>4 DEF Types, ClientTypes, undefVars, Others
<1>9. /\ user[c].id \in Id /\ user[c].o \in Nat /\ MadeOn(user[c].id, user[c].o)
  <2>1. user[c].id \in 1..Len(asker) /\ asker[user[c].id].o = user[c].o
    BY <1>1 DEF ClientsInv, PointersAreTrue
  <2>2. user[c].o \in Nat /\ Len(asker) \in Nat /\ Len(asker) <= MaxId /\ MaxId \in Nat
    BY <1>1, RpcAssumption DEF Types, ClientTypes, Using
  <2>3. QED
    BY <2>1, <2>2 DEF Id, MadeOn
<1>10. QED
  BY <1>1, <1>6, <1>7, <1>8, <1>9 DEF ClientsInv, Longer

LEMMA RedisPublishStep ==
  ASSUME IndInv, Redis, NEW c \in Caller, Sent(c), UNCHANGED <<queue, Others>>,
         \/ server' = [s \in Server |->
                         IF server[s].up
                         THEN [server[s] EXCEPT !.inbox = Append(@, <<user[c].id, user[c].o>>)]
                         ELSE server[s]]
         \/ server' = server
  PROVE  IndInv'
<1>1. /\ ClientTypes' /\ ClientsInv' /\ Longer
      /\ user[c].id \in Id /\ user[c].o \in Nat /\ MadeOn(user[c].id, user[c].o)
  BY SentKeeps
<1>2. /\ ~Grpc /\ ~Socket /\ Types /\ ServersInv
      /\ UNCHANGED <<kind, conn, asker, heard, queue, Others>>
  BY DEF IndInv, Redis, Grpc, Socket, Sent
<1>3. ServerTypes' /\ ServersInv'
  <2>1. CASE server' = server
    BY <1>1, <1>2, <2>1, ServersStay
  <2>2. CASE server' = [s \in Server |->
                         IF server[s].up
                         THEN [server[s] EXCEPT !.inbox = Append(@, <<user[c].id, user[c].o>>)]
                         ELSE server[s]]
    <3>1. PICK i : i = user[c].id
      OBVIOUS
    <3>2. PICK o : o = user[c].o
      OBVIOUS
    <3>3. i \in Id /\ o \in Nat /\ MadeOn(i, o)'
      BY <1>1, <1>2, <3>1, <3>2, AskersStay
    <3>4. server' = [s \in Server |-> server'[s]]
      BY <2>2
    <3>5. \A s \in Server :
           \/ server'[s] = server[s]
           \/ /\ server[s].up /\ (Socket \/ Grpc => i \notin UnderWay(server[s]))
              /\ server'[s] = [server[s] EXCEPT !.inbox = Append(@, <<i, o>>)]
      BY <1>2, <2>2, <3>1, <3>2
    <3>6. QED
      BY <1>1, <1>2, <3>3, <3>4, <3>5, ServersGet
  <2>3. QED
    BY <2>1, <2>2
<1>4. RepliesAreTrue'
  BY <1>1, <1>2, RepliesStay DEF IndInv
<1>5. HeardTypes' /\ CallsInv'
  BY <1>1, <1>2, CallsStay DEF IndInv, Others, Types, ClientTypes
<1>6. QED
  BY <1>1, <1>3, <1>4, <1>5 DEF IndInv, Types

LEMMA RabbitPublishStep ==
  ASSUME IndInv, RabbitMQ, NEW c \in Caller, Sent(c), UNCHANGED <<server, Others>>,
         queue' = Append(queue, <<user[c].id, user[c].o>>)
  PROVE  IndInv'
<1>1. /\ ClientTypes' /\ ClientsInv' /\ Longer
      /\ user[c].id \in Id /\ user[c].o \in Nat /\ MadeOn(user[c].id, user[c].o)
  BY SentKeeps
<1>2. /\ ~Grpc /\ ~Socket /\ Types /\ ServersInv
      /\ UNCHANGED <<kind, conn, asker, heard, server, Others>>
  BY DEF IndInv, RabbitMQ, Grpc, Socket, Sent
<1>3. server' \in [Server -> Service] /\ queue \in Seq(Id \X Nat)
  BY <1>2 DEF Types, ServerTypes
<1>4. OneServer'
  BY <1>2 DEF OneServer, Grpc, Socket
<1>5. PICK m : m = <<user[c].id, user[c].o>>
  OBVIOUS
<1>6. m \in Id \X Nat /\ MadeOn(m[1], m[2])
  BY <1>1, <1>5
<1>7. queue' = Append(queue, m)
  BY <1>5
<1>8. /\ queue' \in Seq(Id \X Nat)
      /\ \A k \in DOMAIN queue' : \/ k \in DOMAIN queue /\ queue'[k] = queue[k]
                                  \/ k = Len(queue) + 1 /\ queue'[k] = m
  BY <1>3, <1>6, <1>7, AddedOne, Added
<1>9. \A i, o : MadeOn(i, o)' <=> MadeOn(i, o)
  BY <1>2 DEF MadeOn
<1>10. QueueIsTrue'
  <2> SUFFICES ASSUME NEW k \in DOMAIN queue' PROVE MadeOn(queue[k][1], queue[k][2])'
    BY DEF QueueIsTrue
  <2>1. PICK w : w = queue'[k]
    OBVIOUS
  <2>2. MadeOn(w[1], w[2])
    BY <1>2, <1>6, <1>8, <2>1 DEF ServersInv, QueueIsTrue
  <2>3. MadeOn(w[1], w[2])'
    BY <1>9, <2>2
  <2>4. QED
    BY <2>1, <2>3 DEF MadeOn
<1>11. ServerTypes' /\ ServersInv'
  BY <1>1, <1>2, <1>3, <1>4, <1>8, <1>10, ServersStep
<1>12. RepliesAreTrue'
  BY <1>1, <1>2, RepliesStay DEF IndInv
<1>13. HeardTypes' /\ CallsInv'
  BY <1>1, <1>2, CallsStay DEF IndInv, Others, Types, ClientTypes
<1>14. QED
  BY <1>1, <1>11, <1>12, <1>13 DEF IndInv, Types

-----------------------------------------------------------------------------
(* The servers.                                                            *)

\* A step of the servers alone.
LEMMA ServersAlone ==
  ASSUME IndInv, UNCHANGED <<kind, clientVars, asker, heard, undefVars, Others>>,
         ServerTypes', ServersInv',
         Socket \/ Grpc => \A s \in Server : UnderWay(server'[s]) \subseteq UnderWay(server[s])
  PROVE  IndInv'
<1>1. /\ Types /\ ClientsInv /\ Longer /\ Len(conn) \in Nat /\ conn \in Seq(Connection)
      /\ UNCHANGED <<kind, conn, cur, lock, user, evicted, asker, heard, misused, strayed, raced,
                     belated, Others>>
  BY DEF IndInv, Types, ClientTypes, clientVars, undefVars, Longer
<1>2. ClientTypes' /\ ClientsInv'
  <2>1. SameClients
    BY <1>1 DEF SameClients
  <2>2. strayed' \in BOOLEAN
    BY <1>1 DEF Types, ClientTypes
  <2>3. QED
    BY <1>1, <2>1, <2>2, ClientsStay DEF Others
<1>3. RepliesAreTrue'
  BY <1>1, RepliesStay DEF IndInv
<1>4. \A s \in Server : \A i \in UnderWay(server'[s]) : i \in Id
  <2> SUFFICES ASSUME NEW s \in Server, NEW i \in UnderWay(server'[s]) PROVE i \in Id
    OBVIOUS
  <2>1. server'[s].inbox \in Seq(Id \X Nat) /\ server'[s].work \in SUBSET Id
    BY DEF ServerTypes, Service
  <2>2. QED
    BY <2>1 DEF UnderWay
<1>5. HeardTypes' /\ CallsInv'
  BY <1>1, <1>4, CallsStay DEF IndInv, Others
<1>6. QED
  BY <1>2, <1>3, <1>5 DEF IndInv, Types

\* A server accepts request m.
LEMMA ServiceAccepts ==
  ASSUME NEW x \in Service, GoodService(x), NEW m \in Id \X Nat, NEW y \in Service,
         y.up = TRUE, y.table = x.table \cup {m}, y.work \subseteq x.work \cup {m[1]},
         Socket => y.index = x.index \cup {<<m[2], m[1]>>},
         \/ x.inbox # <<>> /\ m = Head(x.inbox) /\ y.inbox = Tail(x.inbox)
         \/ RabbitMQ /\ MadeOn(m[1], m[2]) /\ y.inbox = x.inbox
  PROVE  GoodService(y) /\ (~RabbitMQ => UnderWay(y) \subseteq UnderWay(x))
<1>1. x.inbox \in Seq(Id \X Nat) /\ m = <<m[1], m[2]>>
  BY DEF Service
<1>2. /\ \A k \in DOMAIN x.inbox : MadeOn(x.inbox[k][1], x.inbox[k][2])
      /\ \A p \in x.table : MadeOn(p[1], p[2])
      /\ x.work \subseteq 1..Len(asker)
      /\ Redis \/ RabbitMQ \/ Grpc => x.work \subseteq {p[1] : p \in x.table}
      /\ Socket => x.index = {<<p[2], p[1]>> : p \in x.table}
      /\ Socket \/ Grpc => /\ \A k, l \in DOMAIN x.inbox : x.inbox[k][1] = x.inbox[l][1] => k = l
                           /\ \A k \in DOMAIN x.inbox : x.inbox[k][1] \notin x.work
  BY DEF GoodService
<1>3. /\ MadeOn(m[1], m[2])
      /\ \A k \in DOMAIN y.inbox : \E l \in DOMAIN x.inbox : y.inbox[k] = x.inbox[l]
      /\ ~RabbitMQ => /\ 1 \in DOMAIN x.inbox /\ x.inbox[1] = m
                      /\ \A k \in DOMAIN y.inbox : k \in Nat /\ k + 1 \in DOMAIN x.inbox /\ k + 1 # 1
                                                   /\ y.inbox[k] = x.inbox[k + 1]
  <2>1. CASE x.inbox # <<>> /\ m = Head(x.inbox) /\ y.inbox = Tail(x.inbox)
    <3>1. /\ 1 \in DOMAIN x.inbox /\ x.inbox[1] = m
          /\ \A k \in DOMAIN y.inbox : k \in Nat /\ k + 1 \in DOMAIN x.inbox /\ y.inbox[k] = x.inbox[k + 1]
          /\ DOMAIN y.inbox = 1..(Len(x.inbox) - 1) /\ Len(x.inbox) \in Nat
      BY <1>1, <2>1, Taken
    <3>2. \A k \in DOMAIN y.inbox : k + 1 # 1
      BY <3>1
    <3>3. QED
      BY <1>2, <3>1, <3>2
  <2>2. CASE RabbitMQ /\ MadeOn(m[1], m[2]) /\ y.inbox = x.inbox
    BY <2>2
  <2>3. QED
    BY <2>1, <2>2
<1>4. \A k \in DOMAIN y.inbox : MadeOn(y.inbox[k][1], y.inbox[k][2])
  BY <1>2, <1>3
<1>5. \A p \in y.table : MadeOn(p[1], p[2])
  BY <1>2, <1>3
<1>6. y.work \subseteq 1..Len(asker)
  BY <1>2, <1>3 DEF MadeOn
<1>7. Redis \/ RabbitMQ \/ Grpc => y.work \subseteq {p[1] : p \in y.table}
  BY <1>2
<1>8. Socket => y.index = {<<p[2], p[1]>> : p \in y.table}
  <2> SUFFICES ASSUME Socket PROVE y.index = {<<p[2], p[1]>> : p \in y.table}
    OBVIOUS
  <2>1. ASSUME NEW p \in y.table PROVE <<p[2], p[1]>> \in y.index
    <3>1. CASE p \in x.table
      BY <1>2, <3>1
    <3>2. CASE p = m
      BY <3>2
    <3>3. QED
      BY <3>1, <3>2
  <2>2. ASSUME NEW e \in y.index PROVE \E p \in y.table : e = <<p[2], p[1]>>
    <3>1. CASE e \in x.index
      BY <1>2, <3>1
    <3>2. CASE e = <<m[2], m[1]>>
      BY <3>2
    <3>3. QED
      BY <3>1, <3>2
  <2>3. QED
    BY <2>1, <2>2
<1>9. Socket \/ Grpc => ~RabbitMQ
  BY DEF Socket, Grpc, RabbitMQ
<1>10. Socket \/ Grpc => \A k, l \in DOMAIN y.inbox : y.inbox[k][1] = y.inbox[l][1] => k = l
  <2> SUFFICES ASSUME Socket \/ Grpc, NEW k \in DOMAIN y.inbox, NEW l \in DOMAIN y.inbox,
                      y.inbox[k][1] = y.inbox[l][1]
               PROVE  k = l
    OBVIOUS
  <2>1. /\ k \in Nat /\ k + 1 \in DOMAIN x.inbox /\ y.inbox[k] = x.inbox[k + 1]
        /\ l \in Nat /\ l + 1 \in DOMAIN x.inbox /\ y.inbox[l] = x.inbox[l + 1]
    BY <1>3, <1>9
  <2>2. k + 1 = l + 1
    BY <1>2, <2>1
  <2>3. QED
    BY <2>1, <2>2
<1>11. Socket \/ Grpc => \A k \in DOMAIN y.inbox : y.inbox[k][1] \notin y.work
  <2> SUFFICES ASSUME Socket \/ Grpc, NEW k \in DOMAIN y.inbox
               PROVE  y.inbox[k][1] \notin x.work /\ y.inbox[k][1] # m[1]
    OBVIOUS
  <2>1. /\ k + 1 \in DOMAIN x.inbox /\ y.inbox[k] = x.inbox[k + 1] /\ k + 1 # 1
        /\ 1 \in DOMAIN x.inbox /\ x.inbox[1] = m
    BY <1>3, <1>9
  <2>2. QED
    BY <1>2, <2>1
<1>12. GoodService(y)
  BY <1>4, <1>5, <1>6, <1>7, <1>8, <1>10, <1>11 DEF GoodService
<1>13. ~RabbitMQ => UnderWay(y) \subseteq UnderWay(x)
  <2>1. \A k \in DOMAIN y.inbox : y.inbox[k][1] \in UnderWay(x)
    BY <1>3 DEF UnderWay
  <2>2. ~RabbitMQ => m[1] \in UnderWay(x)
    BY <1>3 DEF UnderWay
  <2>3. QED
    BY <2>1, <2>2 DEF UnderWay
<1>14. QED
  BY <1>12, <1>13

\* The only entry of m's request in a table can be m itself.
Fits(T, m) == \A p \in T : p[1] = m[1] => p = m

HasAccepted(y, z, m) ==
  /\ y.up = z.up /\ y.inbox = z.inbox /\ y.index = z.index
  /\ y.table = z.table \cup {m} /\ y.work \subseteq z.work \cup {m[1]}

LEMMA AcceptedGives ==
  ASSUME NEW s, NEW z \in Service, NEW m \in Id \X Nat, Accepted(s, z, m),
         Fits(z.table, m)
  PROVE  \E y \in Service : server' = [server EXCEPT ![s] = y] /\ HasAccepted(y, z, m)
<1> DEFINE t == {p \in z.table : p[1] # m[1]} \cup {m}
           k == [z EXCEPT !.table = t]
           w == [k EXCEPT !.work = @ \cup {m[1]}]
<1>1. z.table \in SUBSET (Id \X Nat) /\ z.work \in SUBSET Id /\ m[1] \in Id
  BY DEF Service
<1>2. t = z.table \cup {m} /\ t \in SUBSET (Id \X Nat)
  BY <1>1 DEF Fits
<1>3. server' = [server EXCEPT ![s] = k] \/ server' = [server EXCEPT ![s] = w]
  BY DEF Accepted
<1> HIDE DEF t
<1>4. /\ k \in Service /\ k.up = z.up /\ k.inbox = z.inbox /\ k.index = z.index
      /\ k.table = t /\ k.work = z.work
  BY <1>2 DEF Service
<1> HIDE DEF k
<1> DEFINE v == k.work \cup {m[1]}
<1>5. v \in SUBSET Id /\ w = [k EXCEPT !.work = v]
  BY <1>1, <1>4
<1> HIDE DEF v, w
<1>6. /\ w \in Service /\ w.up = z.up /\ w.inbox = z.inbox /\ w.index = z.index
      /\ w.table = t /\ w.work = v
  BY <1>4, <1>5 DEF Service
<1>7. w.work = z.work \cup {m[1]}
  BY <1>4, <1>6 DEF v
<1>8. HasAccepted(k, z, m) /\ HasAccepted(w, z, m)
  BY <1>2, <1>4, <1>6, <1>7 DEF HasAccepted
<1>9. QED
  BY <1>3, <1>4, <1>6, <1>8

LEMMA AcceptStep ==
  ASSUME IndInv, NEW s \in Server, NEW x, x = server[s], x.up,
         NEW z \in Service, NEW m \in Id \X Nat, Accepted(s, z, m),
         z.up = x.up, z.table = x.table, z.work = x.work,
         Socket => z.index = x.index \cup {<<m[2], m[1]>>},
         \/ x.inbox # <<>> /\ m = Head(x.inbox) /\ z.inbox = Tail(x.inbox)
         \/ RabbitMQ /\ MadeOn(m[1], m[2]) /\ z.inbox = x.inbox,
         UNCHANGED <<kind, clientVars, asker, heard, undefVars, Others>>,
         queue' \in Seq(Id \X Nat), QueueIsTrue'
  PROVE  IndInv'
<1>1. Types /\ ServersInv
  BY DEF IndInv
<1>2. x \in Service /\ GoodService(x) /\ x.up = TRUE
  BY <1>1 DEF Types, ServerTypes, ServersInv, Service
<1>3. MadeOn(m[1], m[2]) /\ x.inbox \in Seq(Id \X Nat)
  <2>1. x.inbox \in Seq(Id \X Nat)
    BY <1>2 DEF Service
  <2>2. CASE x.inbox # <<>> /\ m = Head(x.inbox)
    <3>1. 1 \in DOMAIN x.inbox /\ x.inbox[1] = m
      BY <2>1, <2>2, Taken
    <3>2. QED
      BY <1>2, <2>1, <3>1 DEF GoodService
  <2>3. QED
    BY <2>1, <2>2
<1>4. Fits(z.table, m)
  <2>1. x.table \in SUBSET (Id \X Nat)
    BY <1>2 DEF Service
  <2>2. \A p \in x.table : MadeOn(p[1], p[2])
    BY <1>2 DEF GoodService
  <2>3. \A p \in x.table : p = <<p[1], p[2]>>
    BY <2>1
  <2>4. m = <<m[1], m[2]>>
    OBVIOUS
  <2>5. \A p \in x.table : p[1] = m[1] => p[2] = m[2]
    BY <1>3, <2>2 DEF MadeOn
  <2>6. QED
    BY <2>3, <2>4, <2>5 DEF Fits
<1>5. PICK y \in Service :
           /\ server' = [server EXCEPT ![s] = y]
           /\ y.up = z.up /\ y.inbox = z.inbox /\ y.index = z.index
           /\ y.table = z.table \cup {m} /\ y.work \subseteq z.work \cup {m[1]}
  <2>1. \E y \in Service : server' = [server EXCEPT ![s] = y] /\ HasAccepted(y, z, m)
    BY <1>4, AcceptedGives
  <2>2. QED
    BY <2>1 DEF HasAccepted
<1>6. /\ y.up = TRUE /\ y.table = x.table \cup {m} /\ y.work \subseteq x.work \cup {m[1]}
      /\ Socket => y.index = x.index \cup {<<m[2], m[1]>>}
      /\ \/ x.inbox # <<>> /\ m = Head(x.inbox) /\ y.inbox = Tail(x.inbox)
         \/ RabbitMQ /\ MadeOn(m[1], m[2]) /\ y.inbox = x.inbox
  BY <1>2, <1>5
<1>7. GoodService(y) /\ (~RabbitMQ => UnderWay(y) \subseteq UnderWay(x))
  BY <1>2, <1>6, ServiceAccepts
<1>8. UNCHANGED <<kind, asker>>
  OBVIOUS
<1>9. ServerTypes' /\ ServersInv'
  BY <1>1, <1>2, <1>5, <1>7, <1>8, OneServerStep
<1>10. Socket \/ Grpc => \A t \in Server : UnderWay(server'[t]) \subseteq UnderWay(server[t])
  <2> SUFFICES ASSUME Socket \/ Grpc, NEW t \in Server
               PROVE  UnderWay(server'[t]) \subseteq UnderWay(server[t])
    OBVIOUS
  <2>1. ~RabbitMQ /\ server \in [Server -> Service]
    BY <1>1 DEF Socket, Grpc, RabbitMQ, Types, ServerTypes
  <2>2. CASE t = s
    BY <1>5, <1>7, <2>1, <2>2
  <2>3. CASE t # s
    BY <1>5, <2>1, <2>3
  <2>4. QED
    BY <2>2, <2>3
<1>11. QED
  BY <1>9, <1>10, ServersAlone

LEMMA QueueStays ==
  ASSUME IndInv, UNCHANGED <<kind, asker>>, queue' = queue \/ (queue # <<>> /\ queue' = Tail(queue))
  PROVE  /\ queue' \in Seq(Id \X Nat) /\ QueueIsTrue'
         /\ queue # <<>> => /\ Head(queue) \in Id \X Nat
                            /\ MadeOn(Head(queue)[1], Head(queue)[2])
<1>1. queue \in Seq(Id \X Nat) /\ \A k \in DOMAIN queue : MadeOn(queue[k][1], queue[k][2])
  BY DEF IndInv, Types, ServerTypes, ServersInv, QueueIsTrue
<1>2. CASE queue' = queue
  BY <1>1, <1>2, Taken DEF QueueIsTrue, MadeOn
<1>3. CASE queue # <<>> /\ queue' = Tail(queue)
  <2>1. /\ Head(queue) \in Id \X Nat /\ Tail(queue) \in Seq(Id \X Nat)
        /\ 1 \in DOMAIN queue /\ queue[1] = Head(queue)
        /\ \A k \in DOMAIN Tail(queue) : k + 1 \in DOMAIN queue /\ Tail(queue)[k] = queue[k + 1]
    BY <1>1, <1>3, Taken
  <2>2. QueueIsTrue'
    BY <1>1, <1>3, <2>1 DEF QueueIsTrue, MadeOn
  <2>3. QED
    BY <1>1, <1>3, <2>1, <2>2
<1>4. QED
  BY <1>2, <1>3

LEMMA RedisRpcServerRunStep ==
  ASSUME IndInv, NEW s \in Server, RedisRpcServerRun(s), UNCHANGED Others
  PROVE  IndInv'
<1>1. PICK x : x = server[s]
  OBVIOUS
<1>2. x \in Service /\ x.up /\ x.inbox # <<>> /\ x.inbox \in Seq(Id \X Nat)
  <2>1. x \in Service
    BY <1>1 DEF IndInv, Types, ServerTypes
  <2>2. QED
    BY <1>1, <2>1 DEF Service, RedisRpcServerRun
<1>3. PICK m : m = Head(x.inbox)
  OBVIOUS
<1>4. PICK z : z = [x EXCEPT !.inbox = Tail(@)]
  OBVIOUS
<1>5. m \in Id \X Nat /\ Tail(x.inbox) \in Seq(Id \X Nat)
  BY <1>2, <1>3, Taken
<1>6. /\ z \in Service /\ z.up = x.up /\ z.table = x.table /\ z.work = x.work
      /\ z.inbox = Tail(x.inbox)
  BY <1>2, <1>4, <1>5 DEF Service
<1>7. /\ Accepted(s, z, m) /\ ~Socket
      /\ UNCHANGED <<kind, clientVars, asker, heard, undefVars, queue>>
  BY <1>1, <1>3, <1>4 DEF RedisRpcServerRun, Redis, Socket
<1>8. queue' \in Seq(Id \X Nat) /\ QueueIsTrue'
  BY <1>7, QueueStays
<1>9. QED
  BY <1>1, <1>2, <1>3, <1>5, <1>6, <1>7, <1>8, AcceptStep

LEMMA RabbitMQRpcServerRunStep ==
  ASSUME IndInv, NEW s \in Server, RabbitMQRpcServerRun(s), UNCHANGED Others
  PROVE  IndInv'
<1>1. PICK x : x = server[s]
  OBVIOUS
<1>2. x \in Service /\ x.up
  BY <1>1 DEF IndInv, Types, ServerTypes, RabbitMQRpcServerRun
<1>3. PICK m : m = Head(queue)
  OBVIOUS
<1>4. /\ Accepted(s, x, m) /\ ~Socket /\ RabbitMQ /\ queue # <<>> /\ queue' = Tail(queue)
      /\ UNCHANGED <<kind, clientVars, asker, heard, undefVars>>
  BY <1>1, <1>3 DEF RabbitMQRpcServerRun, RabbitMQ, Socket
<1>5. /\ queue' \in Seq(Id \X Nat) /\ QueueIsTrue'
      /\ m \in Id \X Nat /\ MadeOn(m[1], m[2])
  BY <1>3, <1>4, QueueStays
<1>6. QED
  BY <1>1, <1>2, <1>4, <1>5, AcceptStep

LEMMA SocketRegisterConnectionStep ==
  ASSUME IndInv, NEW s \in Server, SocketRegisterConnection(s), UNCHANGED Others
  PROVE  IndInv'
<1>1. PICK x : x = server[s]
  OBVIOUS
<1>2. /\ x \in Service /\ x.up /\ x.inbox # <<>> /\ x.inbox \in Seq(Id \X Nat)
      /\ x.index \in SUBSET (Nat \X Id)
  <2>1. x \in Service
    BY <1>1 DEF IndInv, Types, ServerTypes
  <2>2. QED
    BY <1>1, <2>1 DEF Service, SocketRegisterConnection
<1>3. PICK m : m = Head(x.inbox)
  OBVIOUS
<1>4. PICK z : z = [x EXCEPT !.inbox = Tail(@), !.index = @ \cup {<<m[2], m[1]>>}]
  OBVIOUS
<1>5. m \in Id \X Nat /\ Tail(x.inbox) \in Seq(Id \X Nat)
  BY <1>2, <1>3, Taken
<1>6. PICK d : d = x.index \cup {<<m[2], m[1]>>}
  OBVIOUS
<1>7. d \in SUBSET (Nat \X Id) /\ z = [x EXCEPT !.inbox = Tail(x.inbox), !.index = d]
  BY <1>2, <1>4, <1>5, <1>6
<1>8. /\ z \in Service /\ z.up = x.up /\ z.table = x.table /\ z.work = x.work
      /\ z.inbox = Tail(x.inbox) /\ z.index = d
  BY <1>2, <1>5, <1>7 DEF Service
<1>9. Accepted(s, z, m) /\ UNCHANGED <<kind, clientVars, asker, heard, undefVars, queue>>
  BY <1>1, <1>3, <1>4 DEF SocketRegisterConnection
<1>10. queue' \in Seq(Id \X Nat) /\ QueueIsTrue'
  BY <1>9, QueueStays
<1>11. QED
  BY <1>1, <1>2, <1>3, <1>5, <1>6, <1>8, <1>9, <1>10, AcceptStep

LEMMA RabbitMQRequestExpiresStep ==
  ASSUME IndInv, RabbitMQRequestExpires, UNCHANGED Others
  PROVE  IndInv'
<1>1. /\ ~Socket /\ ~Grpc /\ queue # <<>> /\ queue' = Tail(queue) /\ Types /\ ServersInv /\ Longer
      /\ UNCHANGED <<kind, clientVars, asker, heard, undefVars, server>>
  BY DEF RabbitMQRequestExpires, RabbitMQ, Grpc, Socket, IndInv, Longer
<1>2. queue' \in Seq(Id \X Nat) /\ QueueIsTrue'
  BY <1>1, QueueStays
<1>3. server' \in [Server -> Service] /\ OneServer'
  BY <1>1 DEF Types, ServerTypes, OneServer, Socket, Grpc
<1>4. ServerTypes' /\ ServersInv'
  BY <1>1, <1>2, <1>3, ServersStep
<1>5. QED
  BY <1>1, <1>4, ServersAlone

LEMMA DownIsGood ==
  /\ Down \in Service /\ ~Down.up /\ GoodService(Down) /\ UnderWay(Down) = {}
  /\ [Down EXCEPT !.up = TRUE] \in Service /\ [Down EXCEPT !.up = TRUE].up
  /\ GoodService([Down EXCEPT !.up = TRUE]) /\ UnderWay([Down EXCEPT !.up = TRUE]) = {}
<1> DEFINE x == [Down EXCEPT !.up = TRUE]
<1>1. /\ Down.inbox = <<>> /\ Down.table = {} /\ Down.index = {} /\ Down.work = {} /\ Down.up = FALSE
      /\ x.inbox = <<>> /\ x.table = {} /\ x.index = {} /\ x.work = {} /\ x.up = TRUE
  BY DEF Down
<1>2. Down \in Service /\ x \in Service
  <2>1. <<>> \in Seq(Id \X Nat)
    OBVIOUS
  <2>2. Down \in Service
    BY <2>1 DEF Down, Service
  <2>3. QED
    BY <2>2 DEF Service
<1> HIDE DEF x
<1>3. DOMAIN <<>> = {}
  OBVIOUS
<1>4. {<<p[2], p[1]>> : p \in {}} = {} /\ {p[1] : p \in {}} = {}
  OBVIOUS
<1>5. GoodService(Down) /\ GoodService(x)
  BY <1>1, <1>3, <1>4 DEF GoodService
<1>6. UnderWay(Down) = {} /\ UnderWay(x) = {}
  BY <1>1, <1>3 DEF UnderWay
<1>7. QED
  BY <1>1, <1>2, <1>5, <1>6 DEF x

\* A step of one server that accepts nothing.
LEMMA ServerAloneStep ==
  ASSUME IndInv, UNCHANGED <<kind, clientVars, asker, heard, queue, undefVars, Others>>,
         NEW s \in Server, NEW x \in Service, server' = [server EXCEPT ![s] = x], GoodService(x),
         x.up /\ (Socket \/ Grpc) => server[s].up \/ \A t \in Server : ~server[t].up,
         UnderWay(x) \subseteq UnderWay(server[s])
  PROVE  IndInv'
<1>1. Types /\ ServersInv /\ UNCHANGED <<kind, asker>> /\ server \in [Server -> Service]
  BY DEF IndInv, Types, ServerTypes
<1>2. queue' \in Seq(Id \X Nat) /\ QueueIsTrue'
  BY QueueStays
<1>3. ServerTypes' /\ ServersInv'
  BY <1>1, <1>2, OneServerStep
<1>4. \A t \in Server : UnderWay(server'[t]) \subseteq UnderWay(server[t])
  BY <1>1
<1>5. QED
  BY <1>3, <1>4, ServersAlone

LEMMA ServerStartsStep ==
  ASSUME IndInv, NEW s \in Server, ServerStarts(s), UNCHANGED Others,
         Redis \/ RabbitMQ \/ \A t \in Server : ~server[t].up
  PROVE  IndInv'
<1>1. PICK x : x = [Down EXCEPT !.up = TRUE]
  OBVIOUS
<1>2. x \in Service /\ GoodService(x) /\ UnderWay(x) = {}
  BY <1>1, DownIsGood
<1>3. Redis \/ RabbitMQ => ~(Socket \/ Grpc)
  BY DEF Redis, RabbitMQ, Socket, Grpc
<1>4. /\ server' = [server EXCEPT ![s] = x]
      /\ UNCHANGED <<kind, clientVars, asker, heard, queue, undefVars>>
  BY <1>1 DEF ServerStarts
<1>5. QED
  BY <1>2, <1>3, <1>4, ServerAloneStep

LEMMA ReplierStoredStep ==
  ASSUME IndInv, NEW s \in Server, ReplierStored(s), UNCHANGED Others
  PROVE  IndInv'
<1>1. PICK x : x = server[s]
  OBVIOUS
<1>2. PICK y : y = [x EXCEPT !.ready = TRUE]
  OBVIOUS
<1>3. x \in Service /\ GoodService(x) /\ x.up
  BY <1>1 DEF ReplierStored, IndInv, Types, ServerTypes, ServersInv
<1>4. /\ y \in Service /\ y.up = x.up /\ y.inbox = x.inbox /\ y.table = x.table /\ y.index = x.index
      /\ y.work = x.work
  BY <1>2, <1>3 DEF Service
<1>5. GoodService(y) /\ UnderWay(y) = UnderWay(x)
  BY <1>3, <1>4 DEF GoodService, UnderWay
<1>6. /\ server' = [server EXCEPT ![s] = y]
      /\ UNCHANGED <<kind, clientVars, asker, heard, queue, undefVars>>
  BY <1>1, <1>2, <1>3 DEF ReplierStored, IndInv, Types, ServerTypes
<1>7. QED
  BY <1>1, <1>3, <1>4, <1>5, <1>6, ServerAloneStep

LEMMA KeepsSilentStep ==
  ASSUME IndInv, NEW s \in Server, NEW i, KeepsSilent(s, i), UNCHANGED Others
  PROVE  IndInv'
<1>1. PICK x : x = server[s]
  OBVIOUS
<1>2. PICK w : w = x.work \ {i}
  OBVIOUS
<1>3. PICK y : y = [x EXCEPT !.work = w]
  OBVIOUS
<1>4. x \in Service /\ GoodService(x) /\ x.up
  BY <1>1 DEF KeepsSilent, IndInv, Types, ServerTypes, ServersInv
<1>5. w \in SUBSET Id /\ w \subseteq x.work
  BY <1>2, <1>4 DEF Service
<1>6. /\ y \in Service /\ y.up = x.up /\ y.inbox = x.inbox /\ y.table = x.table /\ y.index = x.index
      /\ y.work = w
  BY <1>3, <1>4, <1>5 DEF Service
<1>7. UnderWay(y) \subseteq UnderWay(x)
  BY <1>5, <1>6 DEF UnderWay
<1>8. GoodService(y)
  BY <1>4, <1>5, <1>6 DEF GoodService
<1>9. /\ server' = [server EXCEPT ![s] = y]
      /\ UNCHANGED <<kind, clientVars, asker, heard, queue, undefVars>>
  BY <1>1, <1>2, <1>3, <1>4 DEF KeepsSilent, IndInv, Types, ServerTypes
<1>10. QED
  BY <1>1, <1>4, <1>6, <1>7, <1>8, <1>9, ServerAloneStep

LEMMA ServerDiesStep ==
  ASSUME IndInv, NEW s \in Server, ServerDies(s), UNCHANGED Others
  PROVE  IndInv'
<1>1. PICK x : x = Down
  OBVIOUS
<1>2. x \in Service /\ GoodService(x) /\ UnderWay(x) = {} /\ ~x.up
  BY <1>1, DownIsGood
<1>3. /\ server' = [server EXCEPT ![s] = x]
      /\ UNCHANGED <<kind, clientVars, asker, heard, queue, undefVars>>
  BY <1>1 DEF ServerDies
<1>4. QED
  BY <1>2, <1>3, ServerAloneStep

LEMMA SocketRemoveConnectionStep ==
  ASSUME IndInv, NEW s \in Server, NEW o, SocketRemoveConnection(s, o), UNCHANGED Others
  PROVE  IndInv'
<1>1. PICK x : x = server[s]
  OBVIOUS
<1>2. x \in Service /\ GoodService(x) /\ x.up /\ Socket
  BY <1>1 DEF SocketRemoveConnection, IndInv, Types, ServerTypes, ServersInv
<1>3. PICK T : T = x.table
  OBVIOUS
<1>4. PICK D : D = x.index
  OBVIOUS
<1>5. PICK U : U = TableWithout(T, D, o)
  OBVIOUS
<1>6. PICK E : E = Dropped(D, o)
  OBVIOUS
<1>7. PICK y : y = [x EXCEPT !.table = U, !.index = E]
  OBVIOUS
<1>8. /\ server' = [server EXCEPT ![s] = y]
      /\ UNCHANGED <<kind, clientVars, asker, heard, queue, undefVars>>
  <2>1. server' = [server EXCEPT
            ![s].table = {p \in @ : p[1] \notin {q[2] : q \in {r \in server[s].index : r[1] = o}}},
            ![s].index = {p \in @ : p[1] # o}]
    BY DEF SocketRemoveConnection
  <2>2. server \in [Server -> Service]
    BY DEF IndInv, Types, ServerTypes
  <2>3. y = [x EXCEPT
            !.table = {p \in x.table : p[1] \notin {q[2] : q \in {r \in x.index : r[1] = o}}},
            !.index = {p \in x.index : p[1] # o}]
    BY <1>3, <1>4, <1>5, <1>6, <1>7 DEF TableWithout, Dropped
  <2>4. server' = [server EXCEPT ![s] = y]
    BY <1>1, <2>1, <2>2, <2>3
  <2>5. QED
    BY <2>4 DEF SocketRemoveConnection
<1>9. /\ U \in SUBSET (Id \X Nat) /\ E \in SUBSET (Nat \X Id) /\ U \subseteq T
  <2>1. T \in SUBSET (Id \X Nat) /\ D \in SUBSET (Nat \X Id)
    BY <1>2, <1>3, <1>4 DEF Service
  <2>2. U \subseteq T /\ E \subseteq D
    BY <1>5, <1>6 DEF TableWithout, Dropped
  <2>3. QED
    BY <2>1, <2>2
<1>10. /\ y \in Service /\ y.up = x.up /\ y.inbox = x.inbox /\ y.table = U /\ y.index = E
       /\ y.work = x.work
  BY <1>2, <1>7, <1>9 DEF Service
<1>11. E = Mirror(U)
  <2>1. PICK v : v = [j \in 1..Len(asker) |-> [num |-> asker[j].o]]
    OBVIOUS
  <2>2. \A p \in T : p[1] \in 1..Len(asker) /\ asker[p[1]].o = p[2]
    BY <1>2, <1>3 DEF GoodService, MadeOn
  <2>3. OneNumber(T, v)
    BY <2>1, <2>2 DEF OneNumber
  <2>4. D = Mirror(T)
    BY <1>2, <1>3, <1>4 DEF GoodService, Mirror
  <2>5. QED
    BY <1>5, <1>6, <2>3, <2>4, MirrorWithout
<1>12. UnderWay(y) = UnderWay(x)
  BY <1>10 DEF UnderWay
<1>13. GoodService(y)
  <2>1. E = {<<p[2], p[1]>> : p \in U}
    BY <1>11 DEF Mirror
  <2>2. ~Redis /\ ~RabbitMQ /\ ~Grpc
    BY <1>2 DEF Socket, Redis, RabbitMQ, Grpc
  <2>3. QED
    BY <1>2, <1>3, <1>9, <1>10, <2>1, <2>2 DEF GoodService
<1>14. QED
  BY <1>1, <1>2, <1>8, <1>10, <1>12, <1>13, ServerAloneStep

-----------------------------------------------------------------------------
(* Replies on their way to the clients.                                    *)

\* What a reply changes in a server.
LEMMA ReplyFromGives ==
  ASSUME NEW s \in Server, NEW x \in Service, x = server[s], GoodService(x), x.up,
         NEW i \in Id, NEW final \in BOOLEAN, NEW y,
         y = ReplyFrom(s, i, final) \/ y = AfterReply(x, i, final), i \in x.work
  PROVE  /\ y \in Service /\ y.up /\ GoodService(y) /\ UnderWay(y) \subseteq UnderWay(x)
         /\ final /\ (Socket \/ Grpc) => i \notin UnderWay(y)
<1>1. PICK W : W = IF final THEN x.work \ {i} ELSE x.work
  OBVIOUS
<1>2. PICK S : S = IF final THEN x.said \ {i} ELSE x.said \cup {i}
  OBVIOUS
<1>3. PICK T : T = {p \in x.table : p[1] # i}
  OBVIOUS
<1>4. PICK D : D = {p \in x.index : p[2] # i}
  OBVIOUS
<1>5. PICK z : z = [x EXCEPT !.work = W, !.said = S]
  OBVIOUS
<1>6. PICK w : w = [z EXCEPT !.table = T, !.index = D]
  OBVIOUS
<1>7. /\ W \in SUBSET Id /\ S \in SUBSET Id /\ T \in SUBSET (Id \X Nat) /\ D \in SUBSET (Nat \X Id)
      /\ W \subseteq x.work /\ (final => i \notin W /\ W = x.work \ {i})
  <2>1. /\ x.work \in SUBSET Id /\ x.said \in SUBSET Id
        /\ x.table \in SUBSET (Id \X Nat) /\ x.index \in SUBSET (Nat \X Id)
    BY DEF Service
  <2>2. W \in SUBSET Id /\ W \subseteq x.work /\ (final => i \notin W /\ W = x.work \ {i})
    BY <1>1, <2>1
  <2>3. S \in SUBSET Id
    BY <1>2, <2>1
  <2>4. T \in SUBSET (Id \X Nat) /\ D \in SUBSET (Nat \X Id)
    BY <1>3, <1>4, <2>1
  <2>5. QED
    BY <2>2, <2>3, <2>4
<1>8. /\ z \in Service /\ z.up = x.up /\ z.inbox = x.inbox /\ z.table = x.table
      /\ z.index = x.index /\ z.work = W
  BY <1>5, <1>7 DEF Service
<1>9. /\ w \in Service /\ w.up = x.up /\ w.inbox = x.inbox /\ w.table = T
      /\ w.index = D /\ w.work = W
  BY <1>6, <1>7, <1>8 DEF Service
<1>10. (y = z \/ y = w) /\ (~final => y = z)
  <2>1. AfterReply(x, i, final) = z
    BY <1>1, <1>2, <1>5 DEF AfterReply, Service
  <2>2. Forgotten(z, i) = w
    BY <1>3, <1>4, <1>6, <1>8 DEF Forgotten
  <2>3. QED
    BY <2>1, <2>2 DEF ReplyFrom
<1>11. /\ \A k \in DOMAIN x.inbox : MadeOn(x.inbox[k][1], x.inbox[k][2])
       /\ \A p \in x.table : MadeOn(p[1], p[2])
       /\ x.work \subseteq 1..Len(asker)
       /\ Redis \/ RabbitMQ \/ Grpc => x.work \subseteq {p[1] : p \in x.table}
       /\ Socket => x.index = {<<p[2], p[1]>> : p \in x.table}
       /\ Socket \/ Grpc => /\ \A k, l \in DOMAIN x.inbox : x.inbox[k][1] = x.inbox[l][1] => k = l
                            /\ \A k \in DOMAIN x.inbox : x.inbox[k][1] \notin x.work
  BY DEF GoodService
<1>12. final => (Redis \/ RabbitMQ \/ Grpc => W \subseteq {p[1] : p \in T})
  BY <1>3, <1>11, <1>7
<1>13. Socket => D = {<<p[2], p[1]>> : p \in T}
  <2> SUFFICES ASSUME Socket PROVE D = {<<p[2], p[1]>> : p \in T}
    OBVIOUS
  <2>1. ASSUME NEW p \in T PROVE <<p[2], p[1]>> \in D
    BY <1>3, <1>4, <1>11, <2>1
  <2>2. ASSUME NEW e \in D PROVE \E p \in T : e = <<p[2], p[1]>>
    BY <1>3, <1>4, <1>11, <2>2
  <2>3. QED
    BY <2>1, <2>2
<1>14. T \subseteq x.table
  BY <1>3
<1>15. y \in Service /\ y.up /\ y.inbox = x.inbox /\ y.work = W
  BY <1>8, <1>9, <1>10
<1>16. GoodService(y)
  <2>1. CASE y = z
    BY <1>11, <1>7, <1>8, <1>15, <2>1 DEF GoodService
  <2>2. CASE final /\ y = w
    BY <1>11, <1>12, <1>13, <1>14, <1>7, <1>9, <1>15, <2>2 DEF GoodService
  <2>3. QED
    BY <1>10, <2>1, <2>2
<1>17. UnderWay(y) \subseteq UnderWay(x)
  BY <1>7, <1>15 DEF UnderWay
<1>18. final /\ (Socket \/ Grpc) => i \notin UnderWay(y)
  BY <1>11, <1>7, <1>15 DEF UnderWay
<1>19. QED
  BY <1>15, <1>16, <1>17, <1>18

LEMMA SendReplyStep ==
  ASSUME IndInv, ~Grpc, NEW s \in Server, NEW i \in Id, NEW final \in BOOLEAN, SendReply(s, i, final),
         UNCHANGED Others
  PROVE  IndInv'
<1>1. /\ Types /\ ClientsInv /\ ServersInv /\ Longer /\ conn \in Seq(Connection) /\ Len(conn) \in Nat
      /\ UNCHANGED <<kind, cur, lock, user, evicted, asker, heard, queue, undefVars, Others>>
      /\ server \in [Server -> Service]
  BY DEF IndInv, Types, ClientTypes, ServerTypes, SendReply, Longer
<1>2. PICK x : x = server[s]
  OBVIOUS
<1>3. PICK y : y = ReplyFrom(s, i, final)
  OBVIOUS
<1>4. /\ x \in Service /\ GoodService(x) /\ x.up /\ i \in x.work
      /\ server' = [server EXCEPT ![s] = y]
  BY <1>1, <1>2, <1>3 DEF SendReply, FacilityReplies, ServersInv
<1>5. /\ y \in Service /\ y.up /\ GoodService(y) /\ UnderWay(y) \subseteq UnderWay(x)
      /\ final /\ (Socket \/ Grpc) => i \notin UnderWay(y)
  BY <1>2, <1>3, <1>4, ReplyFromGives
<1>6. ServerTypes' /\ ServersInv'
  <2>1. queue' \in Seq(Id \X Nat) /\ QueueIsTrue'
    BY <1>1, QueueStays
  <2>2. x.up => server[s].up
    BY <1>2
  <2>3. QED
    BY <1>1, <1>4, <1>5, <2>1, <2>2, OneServerStep
<1>7. PICK r : r = [id |-> i, final |-> final]
  OBVIOUS
<1>8. r \in Reply /\ r.id = i /\ r.final = final
  BY <1>7 DEF Reply
<1>9. /\ DOMAIN conn' = 1..Len(conn)
      /\ \A o \in 1..Len(conn) :
           \/ conn'[o] = conn[o]
           \/ MadeOn(i, o) /\ conn'[o] = [conn[o] EXCEPT !.inbox = Append(@, r)]
  <2>1. PICK R : /\ R \subseteq {p[2] : p \in {q \in server[s].table : q[1] = i}}
                 /\ conn' = [o \in 1..Len(conn) |->
                       IF o \in R
                       THEN [conn[o] EXCEPT !.inbox = Append(@, r)]
                       ELSE conn[o]]
    <3> DEFINE to == {p[2] : p \in {q \in server[s].table : q[1] = i}}
               R == {o \in to : /\ server[s].ready
                                /\ conn[o].alive /\ ~conn[o].gone /\ conn[o].link = "up"}
    <3>1. conn' = [o \in 1..Len(conn) |->
                       IF o \in R
                       THEN [conn[o] EXCEPT !.inbox = Append(@, r)]
                       ELSE conn[o]]
      BY <1>7 DEF SendReply
    <3>2. R \subseteq to
      OBVIOUS
    <3> HIDE DEF R
    <3>3. QED
      BY <3>1, <3>2
  <2>2. \A p \in x.table : MadeOn(p[1], p[2])
    BY <1>4 DEF GoodService
  <2>3. \A o \in R : MadeOn(i, o)
    BY <1>2, <2>1, <2>2
  <2>4. QED
    BY <2>1, <2>3
<1>10. ASSUME NEW o \in 1..Len(conn)
       PROVE  /\ conn'[o] \in Connection
              /\ conn'[o].alive = conn[o].alive /\ conn'[o].gone = conn[o].gone
              /\ conn'[o].counter = conn[o].counter /\ conn'[o].clients = conn[o].clients
              /\ conn'[o].table = conn[o].table /\ conn'[o].index = conn[o].index
              /\ conn'[o].hand = conn[o].hand
              /\ \/ conn'[o].inbox = conn[o].inbox
                 \/ MadeOn(i, o) /\ conn'[o].inbox = Append(conn[o].inbox, r)
              /\ conn[o].inbox \in Seq(Reply)
  <2>1. conn[o] \in Connection
    BY <1>1, Entries
  <2>2. conn[o].inbox \in Seq(Reply)
    BY <2>1 DEF Connection
  <2>3. CASE conn'[o] = conn[o]
    BY <2>1, <2>2, <2>3
  <2>4. CASE MadeOn(i, o) /\ conn'[o] = [conn[o] EXCEPT !.inbox = Append(@, r)]
    <3>1. PICK q : q = Append(conn[o].inbox, r)
      OBVIOUS
    <3>2. q \in Seq(Reply) /\ conn'[o] = [conn[o] EXCEPT !.inbox = q]
      BY <1>8, <2>2, <2>4, <3>1, Added
    <3>3. /\ conn'[o] \in Connection /\ conn'[o].inbox = q
          /\ conn'[o].alive = conn[o].alive /\ conn'[o].gone = conn[o].gone
          /\ conn'[o].counter = conn[o].counter /\ conn'[o].clients = conn[o].clients
          /\ conn'[o].table = conn[o].table /\ conn'[o].index = conn[o].index
          /\ conn'[o].hand = conn[o].hand
      BY <2>1, <3>2 DEF Connection
    <3>4. QED
      BY <2>2, <2>4, <3>1, <3>3
  <2>5. QED
    BY <1>9, <2>3, <2>4
<1>11. conn' \in Seq(Connection) /\ Len(conn') = Len(conn)
  <2>1. conn' = [o \in 1..Len(conn) |-> conn'[o]]
    BY DEF SendReply
  <2>2. conn' \in [1..Len(conn) -> Connection]
    BY <1>10, <2>1
  <2>3. QED
    BY <1>1, <2>2
<1>12. ClientTypes' /\ ClientsInv'
  <2>1. SameClients
    BY <1>10, <1>11 DEF SameClients
  <2>2. strayed' \in BOOLEAN /\ UNCHANGED <<misused, strayed, raced, belated, role>>
    BY <1>1 DEF Types, ClientTypes, undefVars, Others
  <2>3. QED
    BY <1>1, <2>1, <2>2, ClientsStay
<1>13. \A j, o : MadeOn(j, o)' <=> MadeOn(j, o)
  BY <1>1 DEF MadeOn
\* A reply that a client is sent is one it was sent before, or this one.
<1>14. ASSUME NEW o \in 1..Len(conn), NEW k \in DOMAIN conn'[o].inbox
       PROVE  \/ k \in DOMAIN conn[o].inbox /\ conn'[o].inbox[k] = conn[o].inbox[k]
              \/ MadeOn(i, o) /\ k = Len(conn[o].inbox) + 1 /\ conn'[o].inbox[k] = r
  <2>1. CASE conn'[o].inbox = conn[o].inbox
    BY <2>1
  <2>2. CASE MadeOn(i, o) /\ conn'[o].inbox = Append(conn[o].inbox, r)
    BY <1>8, <1>10, <2>2, AddedOne
  <2>3. QED
    BY <1>10, <2>1, <2>2
<1>15. RepliesAreTrue'
  <2> SUFFICES ASSUME NEW o \in 1..Len(conn)
               PROVE  /\ \A k \in DOMAIN conn'[o].inbox : MadeOn(conn[o].inbox[k].id, o)'
                      /\ \A k \in DOMAIN conn'[o].hand : MadeOn(conn[o].hand[k].id, o)'
    BY <1>11 DEF RepliesAreTrue
  <2>1. /\ \A k \in DOMAIN conn[o].inbox : MadeOn(conn[o].inbox[k].id, o)
        /\ \A k \in DOMAIN conn[o].hand : MadeOn(conn[o].hand[k].id, o)
    BY DEF IndInv, RepliesAreTrue
  <2>2. ASSUME NEW k \in DOMAIN conn'[o].inbox PROVE MadeOn(conn[o].inbox[k].id, o)'
    <3>1. PICK j : j = conn'[o].inbox[k].id
      OBVIOUS
    <3>2. MadeOn(j, o)
      BY <1>8, <1>14, <2>1, <3>1
    <3>3. QED
      BY <1>13, <3>1, <3>2 DEF MadeOn
  <2>3. ASSUME NEW k \in DOMAIN conn'[o].hand PROVE MadeOn(conn[o].hand[k].id, o)'
    <3>1. PICK j : j = conn'[o].hand[k].id
      OBVIOUS
    <3>2. MadeOn(j, o)
      BY <1>10, <2>1, <3>1
    <3>3. QED
      BY <1>13, <3>1, <3>2 DEF MadeOn
  <2>4. QED
    BY <2>2, <2>3
<1>16. HeardTypes'
  BY <1>1 DEF Types, HeardTypes, Others
<1>17. HeardInv'
  BY <1>1, HeardStays DEF IndInv, CallsInv
<1>18. \A j : LastHeard(j)' <=> LastHeard(j)
  BY <1>1 DEF LastHeard
<1>19. EndedIsForgotten'
  BY <1>1, <1>10, <1>11, <1>18 DEF IndInv, CallsInv, EndedIsForgotten, Redis, RabbitMQ
<1>20. SocketStages'
  <2> SUFFICES ASSUME Socket
               PROVE  /\ \A t \in Server : \A j \in UnderWay(server'[t]) :
                           /\ ~LastHeard(j)
                           /\ \A o \in 1..Len(conn) : ~Ending(conn'[o].inbox, j)
                      /\ \A o \in 1..Len(conn) :
                           /\ \A k \in DOMAIN conn'[o].inbox : ~LastHeard(conn[o].inbox[k].id)'
                           /\ LastIsLast(conn'[o].inbox)
    BY <1>1, <1>11, <1>18 DEF SocketStages, Socket
  <2>1. /\ \A t \in Server : \A j \in UnderWay(server[t]) :
             ~LastHeard(j) /\ \A o \in 1..Len(conn) : ~Ending(conn[o].inbox, j)
        /\ \A o \in 1..Len(conn) :
             /\ \A k \in DOMAIN conn[o].inbox : ~LastHeard(conn[o].inbox[k].id)
             /\ LastIsLast(conn[o].inbox)
    BY DEF IndInv, CallsInv, SocketStages
  <2>2. ASSUME NEW t \in Server, NEW j \in UnderWay(server'[t])
        PROVE  j \in UnderWay(server[t]) /\ (final => j # i)
    <3>1. CASE t = s
      BY <1>1, <1>2, <1>4, <1>5, <2>2, <3>1
    <3>2. CASE t # s
      <4>1. server'[t] = server[t] /\ t \in Server
        BY <1>1, <1>4, <3>2
      <4>2. ~server[t].up
        BY <1>1, <1>2, <1>4, <3>2 DEF ServersInv, OneServer
      <4>3. server[t].inbox = <<>> /\ server[t].work = {}
        BY <1>1, <4>2 DEF ServersInv, GoodService
      <4>4. UnderWay(server[t]) = {}
        BY <4>3 DEF UnderWay
      <4>5. QED
        BY <2>2, <4>1, <4>4
    <3>3. QED
      BY <3>1, <3>2
  <2>3. ASSUME NEW t \in Server, NEW j \in UnderWay(server'[t]), NEW o \in 1..Len(conn),
               Ending(conn'[o].inbox, j)
        PROVE  FALSE
    <3>1. PICK k \in DOMAIN conn'[o].inbox : conn'[o].inbox[k].id = j /\ conn'[o].inbox[k].final
      BY <2>3 DEF Ending
    <3>2. ~Ending(conn[o].inbox, j) /\ (final => j # i)
      BY <2>1, <2>2, <2>3
    <3>3. CASE k \in DOMAIN conn[o].inbox /\ conn'[o].inbox[k] = conn[o].inbox[k]
      BY <3>1, <3>2, <3>3 DEF Ending
    <3>4. CASE conn'[o].inbox[k] = r
      BY <1>8, <3>1, <3>2, <3>4
    <3>5. QED
      BY <1>14, <3>3, <3>4
  <2>4. i \in UnderWay(server[s])
    BY <1>2, <1>4 DEF UnderWay
  <2>5. ASSUME NEW o \in 1..Len(conn), NEW k \in DOMAIN conn'[o].inbox
        PROVE  ~LastHeard(conn[o].inbox[k].id)'
    <3>1. PICK j : j = conn'[o].inbox[k].id
      OBVIOUS
    <3>2. ~LastHeard(j)
      BY <1>8, <1>14, <2>1, <2>4, <3>1
    <3>3. QED
      BY <1>1, <3>1, <3>2 DEF LastHeard
  <2>6. ASSUME NEW o \in 1..Len(conn) PROVE LastIsLast(conn'[o].inbox)
    <3> SUFFICES ASSUME NEW k \in DOMAIN conn'[o].inbox, NEW l \in DOMAIN conn'[o].inbox,
                        conn'[o].inbox[k].final, k < l, conn'[o].inbox[l].id = conn'[o].inbox[k].id
                 PROVE  FALSE
      BY DEF LastIsLast
    <3>1. DOMAIN conn[o].inbox = 1..Len(conn[o].inbox) /\ Len(conn[o].inbox) \in Nat
      BY <1>10
    <3>2. k \in DOMAIN conn[o].inbox /\ conn'[o].inbox[k] = conn[o].inbox[k]
      BY <1>14, <3>1
    <3>3. CASE l \in DOMAIN conn[o].inbox /\ conn'[o].inbox[l] = conn[o].inbox[l]
      BY <2>1, <3>2, <3>3 DEF LastIsLast
    <3>4. CASE conn'[o].inbox[l] = r
      <4>1. conn[o].inbox[k].final /\ conn[o].inbox[k].id = i
        BY <1>8, <3>2, <3>4
      <4>2. Ending(conn[o].inbox, i)
        BY <3>2, <4>1 DEF Ending
      <4>3. QED
        BY <2>1, <2>4, <4>2
    <3>5. QED
      BY <1>14, <3>3, <3>4
  <2>7. QED
    BY <2>1, <2>2, <2>3, <2>5, <2>6
<1>21. GrpcStages'
  BY <1>1 DEF IndInv, CallsInv, GrpcStages, Grpc, Others
<1>22. QED
  BY <1>6, <1>12, <1>15, <1>16, <1>17, <1>19, <1>20, <1>21 DEF IndInv, Types, CallsInv

LEMMA SocketSendReplyStep ==
  ASSUME IndInv, NEW s \in Server, NEW i \in Id, NEW final \in BOOLEAN,
         SocketSendReply(s, i, final), UNCHANGED Others
  PROVE  IndInv'
<1>1. Socket /\ ~Grpc
  BY DEF SocketSendReply, Socket, Grpc
<1>2. CASE SendReply(s, i, final)
  BY <1>1, <1>2, SendReplyStep
<1>3. CASE /\ FacilityReplies(s, i, final)
           /\ server' = [server EXCEPT ![s] = AfterReply(@, i, final)]
           /\ UNCHANGED <<kind, clientVars, asker, heard, queue, faults, undefVars>>
  <2>1. PICK x : x = server[s]
    OBVIOUS
  <2>2. PICK y : y = AfterReply(x, i, final)
    OBVIOUS
  <2>3. /\ x \in Service /\ GoodService(x) /\ x.up /\ i \in x.work
        /\ server' = [server EXCEPT ![s] = y]
    BY <1>3, <2>1, <2>2 DEF FacilityReplies, IndInv, Types, ServerTypes, ServersInv
  <2>4. y \in Service /\ y.up /\ GoodService(y) /\ UnderWay(y) \subseteq UnderWay(x)
    BY <2>1, <2>2, <2>3, ReplyFromGives
  <2>5. QED
    BY <1>3, <2>1, <2>3, <2>4, ServerAloneStep
<1>4. QED
  BY <1>2, <1>3 DEF SocketSendReply

-----------------------------------------------------------------------------
(* Replies on their way to the clients (Redis and RabbitMQ).               *)

\* Connection y has the clients and the tables of x.
Kept(x, y) ==
  /\ y.alive = x.alive /\ y.counter = x.counter /\ y.clients = x.clients
  /\ y.table = x.table /\ y.index = x.index /\ (x.gone => y.gone)

\* The replies a connection has are of its own requests.
OwnReplies(y, o) == /\ \A k \in DOMAIN y.inbox : MadeOn(y.inbox[k].id, o)
                    /\ \A k \in DOMAIN y.hand : MadeOn(y.hand[k].id, o)

\* A step of one connection, which keeps its clients.
LEMMA ConnectionAlone ==
  ASSUME IndInv, NEW o \in 1..Len(conn), NEW x, x = conn[o], NEW y \in Connection,
         conn' = [conn EXCEPT ![o] = y], Kept(x, y), OwnReplies(y, o),
         UNCHANGED <<kind, cur, lock, user, evicted, asker, heard, server, queue, misused, raced,
                     belated, Others>>,
         strayed' \in BOOLEAN, strayed' => strayed \/ Redis \/ Socket,
         Socket => y.inbox = <<>> \/ y.inbox = x.inbox
  PROVE  IndInv'
<1>1. /\ Types /\ ClientsInv /\ Longer /\ conn \in Seq(Connection) /\ Len(conn) \in Nat
  BY DEF IndInv, Types, ClientTypes, Longer
<1>2. /\ conn' \in Seq(Connection) /\ Len(conn') = Len(conn) /\ conn'[o] = y
      /\ \A p \in 1..Len(conn) : p # o => conn'[p] = conn[p]
  BY <1>1, Changed
<1>3. SameClients
  BY <1>1, <1>2 DEF SameClients, Kept
<1>4. ClientTypes' /\ ClientsInv'
  BY <1>1, <1>3, ClientsStay DEF Others
<1>5. ServerTypes' /\ ServersInv'
  BY <1>1, ServersStay DEF IndInv
<1>6. \A i, p : MadeOn(i, p)' <=> MadeOn(i, p)
  BY DEF MadeOn
<1>7. RepliesAreTrue'
  <2> SUFFICES ASSUME NEW p \in 1..Len(conn)
               PROVE  /\ \A k \in DOMAIN conn'[p].inbox : MadeOn(conn[p].inbox[k].id, p)'
                      /\ \A k \in DOMAIN conn'[p].hand : MadeOn(conn[p].hand[k].id, p)'
    BY <1>2 DEF RepliesAreTrue
  <2>1. PICK z : z = conn'[p]
    OBVIOUS
  <2>2. /\ \A k \in DOMAIN z.inbox : MadeOn(z.inbox[k].id, p)
        /\ \A k \in DOMAIN z.hand : MadeOn(z.hand[k].id, p)
    <3>1. CASE p = o
      BY <1>2, <2>1, <3>1 DEF OwnReplies
    <3>2. CASE p # o
      BY <1>2, <2>1, <3>2 DEF IndInv, RepliesAreTrue
    <3>3. QED
      BY <3>1, <3>2
  <2>3. /\ \A k \in DOMAIN z.inbox : MadeOn(z.inbox[k].id, p)'
        /\ \A k \in DOMAIN z.hand : MadeOn(z.hand[k].id, p)'
    BY <1>6, <2>2
  <2>4. QED
    BY <2>1, <2>3 DEF MadeOn
<1>8. \A s \in Server : \A i \in UnderWay(server'[s]) : i \in Id /\ i \in UnderWay(server[s])
  <2> SUFFICES ASSUME NEW s \in Server, NEW i \in UnderWay(server[s]) PROVE i \in Id
    OBVIOUS
  <2>1. server[s].inbox \in Seq(Id \X Nat) /\ server[s].work \in SUBSET Id
    BY DEF IndInv, Types, ServerTypes, Service
  <2>2. QED
    BY <2>1 DEF UnderWay
<1>9. Redis \/ RabbitMQ => \A p \in 1..Len(conn') : \A e \in conn'[p].table :
        e[1] \in 1..Len(asker) => p \in 1..Len(conn) /\ e \in conn[p].table
  BY <1>2, <1>3 DEF SameClients
<1>10. Socket => \A p \in 1..Len(conn') :
         conn'[p].inbox = <<>> \/ (p \in 1..Len(conn) /\ conn'[p].inbox = conn[p].inbox)
  BY <1>2
<1>11. HeardTypes' /\ CallsInv'
  BY <1>1, <1>2, <1>8, <1>9, <1>10, CallsStay DEF IndInv, Others
<1>12. QED
  BY <1>4, <1>5, <1>7, <1>11 DEF IndInv, Types

\* A connection takes a reply.
LEMMA TakeReplyStep ==
  ASSUME IndInv, Redis \/ RabbitMQ, NEW o \in 1..Len(conn), TakeReply(o), UNCHANGED Others
  PROVE  IndInv'
<1>1. /\ ~Socket /\ Types /\ conn \in Seq(Connection)
      /\ UNCHANGED <<kind, cur, lock, user, evicted, asker, heard, server, queue, misused, raced,
                     belated, strayed, Others>>
  BY DEF IndInv, Redis, RabbitMQ, Socket, Types, ClientTypes, TakeReply, undefVars
<1>2. PICK x : x = conn[o]
  OBVIOUS
<1>3. x \in Connection /\ x.inbox \in Seq(Reply) /\ x.inbox # <<>>
  <2>1. x \in Connection
    BY <1>1, <1>2, Entries
  <2>2. QED
    BY <1>2, <2>1 DEF Connection, TakeReply
<1>4. PICK h : h \in Seq(Reply) /\ h = <<Head(x.inbox)>>
  <2>1. PICK v : v = Head(x.inbox)
    OBVIOUS
  <2>2. v \in Reply
    BY <1>3, <2>1, Taken
  <2>3. <<v>> \in Seq(Reply)
    BY <2>2
  <2>4. QED
    BY <2>1, <2>3
<1>5. PICK t : t \in Seq(Reply) /\ t = Tail(x.inbox)
  BY <1>3, Taken
<1>6. PICK y : y = [x EXCEPT !.hand = h, !.inbox = t]
  OBVIOUS
<1>7. conn' = [conn EXCEPT ![o] = y]
  BY <1>1, <1>2, <1>4, <1>5, <1>6 DEF TakeReply
<1>8. y \in Connection /\ Kept(x, y) /\ y.inbox = t /\ y.hand = h
  BY <1>3, <1>4, <1>5, <1>6 DEF Connection, Kept
<1>9. OwnReplies(y, o)
  <2>1. \A k \in DOMAIN x.inbox : MadeOn(x.inbox[k].id, o)
    BY <1>2 DEF IndInv, RepliesAreTrue
  <2>2. DOMAIN h = {1} /\ h[1] = x.inbox[1] /\ 1 \in DOMAIN x.inbox
    BY <1>3, <1>4
  <2>3. \A k \in DOMAIN t : k + 1 \in DOMAIN x.inbox /\ t[k] = x.inbox[k + 1]
    BY <1>3, <1>5
  <2>4. QED
    BY <1>8, <2>1, <2>2, <2>3 DEF OwnReplies
<1>10. strayed' \in BOOLEAN
  BY <1>1 DEF Types, ClientTypes
<1>11. QED
  BY <1>1, <1>2, <1>7, <1>8, <1>9, <1>10, ConnectionAlone

\* A connection's thread ends: it does so in a freed one only where nobody waits for it.
LEMMA ReceiverEndsStep ==
  ASSUME IndInv, Redis \/ RabbitMQ, NEW o \in 1..Len(conn), ReceiverEnds(o), UNCHANGED Others
  PROVE  IndInv'
<1>1. /\ ~Socket /\ Types /\ conn \in Seq(Connection) /\ strayed' = (strayed \/ ~conn[o].alive)
      /\ UNCHANGED <<kind, cur, lock, user, evicted, asker, heard, server, queue, misused, raced,
                     belated, Others>>
  BY DEF IndInv, Redis, RabbitMQ, Socket, Types, ClientTypes, ReceiverEnds
<1>2. PICK x : x = conn[o]
  OBVIOUS
<1>3. x \in Connection /\ x.alive \in BOOLEAN
  <2>1. x \in Connection
    BY <1>1, <1>2, Entries
  <2>2. QED
    BY <2>1 DEF Connection
<1>4. PICK y : y = [x EXCEPT !.gone = TRUE, !.hand = <<>>]
  OBVIOUS
<1>5. conn' = [conn EXCEPT ![o] = y]
  BY <1>1, <1>2, <1>4 DEF ReceiverEnds
<1>6. y \in Connection /\ Kept(x, y) /\ y.inbox = x.inbox /\ y.hand = <<>>
  <2>1. <<>> \in Seq(Reply)
    OBVIOUS
  <2>2. QED
    BY <1>3, <1>4, <2>1 DEF Connection, Kept
<1>7. OwnReplies(y, o)
  BY <1>2, <1>6 DEF OwnReplies, IndInv, RepliesAreTrue
<1>8. RabbitMQ => conn[o].alive
  BY DEF ReceiverEnds, IndInv, ClientsInv, OneIsAlive
<1>9. strayed' \in BOOLEAN /\ (strayed' => strayed \/ Redis)
  BY <1>1, <1>2, <1>3, <1>8 DEF Types, ClientTypes
<1>10. QED
  BY <1>1, <1>2, <1>5, <1>6, <1>7, <1>9, ConnectionAlone

\* A connection is cut off.
LEMMA ClientCutStep ==
  ASSUME IndInv, NEW o \in 1..Len(conn), UNCHANGED Others,
         RedisRpcClientCut(o) \/ RabbitMQRpcClientCut(o)
  PROVE  IndInv'
<1>1. /\ ~Socket
      /\ UNCHANGED <<kind, cur, lock, user, evicted, asker, heard, server, queue, misused, raced,
                     belated, strayed, Others>>
  BY DEF Redis, RabbitMQ, Socket, RedisRpcClientCut, RabbitMQRpcClientCut, undefVars
<1>2. PICK x : x = conn[o]
  OBVIOUS
<1>3. x \in Connection /\ Types
  BY <1>2, Entries DEF IndInv, Types, ClientTypes
<1>4. PICK y : /\ y = [x EXCEPT !.gone = TRUE, !.inbox = <<>>]
                  \/ y = [x EXCEPT !.link = "broken", !.inbox = <<>>]
               /\ conn' = [conn EXCEPT ![o] = y]
  <2>1. CASE RedisRpcClientCut(o)
    <3>1. conn' = [conn EXCEPT ![o] = [x EXCEPT !.gone = TRUE, !.inbox = <<>>]]
      BY <1>2, <2>1 DEF RedisRpcClientCut
    <3>2. QED
      BY <3>1
  <2>2. CASE RabbitMQRpcClientCut(o)
    <3>1. conn' = [conn EXCEPT ![o] = [x EXCEPT !.link = "broken", !.inbox = <<>>]]
      BY <1>2, <2>2 DEF RabbitMQRpcClientCut
    <3>2. QED
      BY <3>1
  <2>3. QED
    BY <2>1, <2>2
<1>5. y \in Connection /\ Kept(x, y) /\ y.inbox = <<>> /\ y.hand = x.hand
  <2>1. <<>> \in Seq(Reply)
    OBVIOUS
  <2>2. QED
    BY <1>3, <1>4, <2>1 DEF Connection, Kept
<1>6. OwnReplies(y, o)
  BY <1>2, <1>5 DEF OwnReplies, IndInv, RepliesAreTrue
<1>7. strayed' \in BOOLEAN
  BY <1>1, <1>3 DEF Types, ClientTypes
<1>8. QED
  BY <1>1, <1>2, <1>4, <1>5, <1>6, <1>7, ConnectionAlone

\* What a reply does to its connection: the last one ends the request.
DispatchedIs(x, r, y) ==
  /\ y \in Connection /\ y.alive = x.alive /\ y.counter = x.counter
  /\ y.clients = x.clients /\ y.gone = x.gone /\ y.inbox = x.inbox /\ y.hand = <<>>
  /\ y.table = IF r.final THEN {p \in x.table : p[1] # r.id} ELSE x.table
  /\ y.index = Mirror(y.table)

LEMMA DispatchedKeeps ==
  ASSUME NEW x \in Connection, NEW r \in Reply, x.index = Mirror(x.table),
         NEW y, y = Dispatched(x, r)
  PROVE  DispatchedIs(x, r, y)
<1>1. PICK T : T = IF r.final THEN {p \in x.table : p[1] # r.id} ELSE x.table
  OBVIOUS
<1>2. PICK D : D = IF r.final THEN {p \in x.index : <<r.id, p[1]>> \notin x.table \/ p[2] # r.id}
                   ELSE x.index
  OBVIOUS
<1>3. x.table \in SUBSET (Id \X Nat) /\ x.index \in SUBSET (Nat \X Id)
  BY DEF Connection
<1>4. T \in SUBSET (Id \X Nat) /\ D \in SUBSET (Nat \X Id) /\ <<>> \in Seq(Reply)
  BY <1>1, <1>2, <1>3
<1>5. y = [x EXCEPT !.hand = <<>>, !.table = T, !.index = D]
  BY <1>1, <1>2 DEF Dispatched
<1>6. /\ y \in Connection /\ y.alive = x.alive /\ y.counter = x.counter
      /\ y.clients = x.clients /\ y.gone = x.gone /\ y.inbox = x.inbox /\ y.hand = <<>>
      /\ y.table = T /\ y.index = D
  BY <1>4, <1>5 DEF Connection
<1>7. ASSUME r.final PROVE D = Mirror(T)
  <2>1. ASSUME NEW e \in D PROVE e \in Mirror(T)
    <3>1. e \in x.index /\ (<<r.id, e[1]>> \notin x.table \/ e[2] # r.id)
      BY <1>2, <1>7, <2>1
    <3>2. PICK p \in x.table : e = <<p[2], p[1]>>
      BY <3>1 DEF Mirror
    <3>3. p = <<p[1], p[2]>> /\ e[1] = p[2] /\ e[2] = p[1]
      BY <1>3, <3>2
    <3>4. p[1] # r.id
      BY <3>1, <3>3
    <3>5. QED
      BY <1>1, <1>7, <3>2, <3>4 DEF Mirror
  <2>2. ASSUME NEW e \in Mirror(T) PROVE e \in D
    <3>1. PICK p \in T : e = <<p[2], p[1]>>
      BY <2>2 DEF Mirror
    <3>2. p \in x.table /\ p[1] # r.id
      BY <1>1, <1>7, <3>1
    <3>3. e \in x.index /\ e[2] # r.id
      BY <3>1, <3>2 DEF Mirror
    <3>4. QED
      BY <1>2, <1>7, <3>3
  <2>3. QED
    BY <2>1, <2>2, <1>4 DEF Mirror
<1>8. ASSUME ~r.final PROVE D = Mirror(T)
  <2>1. D = x.index /\ T = x.table
    BY <1>1, <1>2, <1>8
  <2>2. QED
    BY <2>1
<1>9. y.index = Mirror(y.table)
  <2>1. D = Mirror(T)
    BY <1>7, <1>8
  <2>2. QED
    BY <1>6, <2>1
<1>10. QED
  BY <1>1, <1>6, <1>9 DEF DispatchedIs

\* The calls made about a reply: none, or one, of whose request it is, that is
\* not late; and one only while the request waits for more.
LEMMA CallsAreTrue ==
  ASSUME IndInv, Redis \/ RabbitMQ, NEW o \in 1..Len(conn), conn[o].alive,
         NEW r \in Reply, MadeOn(r.id, o)
  PROVE  \/ CallsOf(o, r) = {}
         \/ /\ CallsOf(o, r) = {[by |-> asker[r.id].by, final |-> r.final, late |-> FALSE]}
            /\ ~LastHeard(r.id)
<1>1. ~Grpc /\ ClientsInv
  BY DEF IndInv, Redis, RabbitMQ, Grpc
<1>2. asker[r.id].o = o /\ r.id \in 1..Len(asker)
  BY DEF MadeOn
<1>3. ASSUME NEW q \in conn[o].clients, <<r.id, q[1]>> \in conn[o].table
      PROVE  /\ [by |-> q[2], final |-> r.final, late |-> Late(o, q[1], q[2])] =
                  [by |-> asker[r.id].by, final |-> r.final, late |-> FALSE]
             /\ ~LastHeard(r.id)
  <2>1. PICK p : p = <<r.id, q[1]>>
    OBVIOUS
  <2>2. p \in conn[o].table /\ p[1] = r.id /\ p[2] = q[1]
    BY <1>3, <2>1
  <2>3. asker[r.id].num = q[1]
    BY <1>1, <2>2 DEF ClientsInv, TablesAreTrue
  <2>4. \A e \in conn[o].clients : e[1] = asker[r.id].num => e[2] = asker[r.id].by
    BY <1>1, <1>2 DEF ClientsInv, AskersAreTrue
  <2>5. q[2] = asker[r.id].by
    BY <2>3, <2>4
  <2>6. ~user[q[2]].left /\ user[q[2]].o = o /\ user[q[2]].num = q[1]
    BY <1>1 DEF ClientsInv, ClientsAreUsers
  <2>7. user[q[2]].left = FALSE
    <3>1. q[2] \in Caller
      BY Entries DEF IndInv, Types, ClientTypes
    <3>2. user[q[2]].left \in BOOLEAN
      BY <3>1 DEF IndInv, Types, ClientTypes, Using
    <3>3. QED
      BY <2>6, <3>2
  <2>8. Late(o, q[1], q[2]) = FALSE
    BY <2>6, <2>7 DEF Late
  <2>9. ~LastHeard(r.id)
    BY <2>2 DEF IndInv, CallsInv, EndedIsForgotten, Reply
  <2>10. QED
    BY <2>5, <2>8, <2>9
<1>4. CASE \A q \in conn[o].clients : <<r.id, q[1]>> \notin conn[o].table
  BY <1>4 DEF CallsOf
<1>5. ASSUME NEW q \in conn[o].clients, <<r.id, q[1]>> \in conn[o].table
      PROVE  /\ CallsOf(o, r) = {[by |-> asker[r.id].by, final |-> r.final, late |-> FALSE]}
             /\ ~LastHeard(r.id)
  BY <1>3, <1>5 DEF CallsOf
<1>6. QED
  BY <1>4, <1>5

\* A request of which more is heard.
LEMMA HeardOne ==
  ASSUME Types, NEW i \in Id, NEW x \in Call, heard' = [heard EXCEPT ![i] = Append(@, x)]
  PROVE  /\ heard' \in [Id -> Seq(Call)]
         /\ \A j \in Id : j # i => heard'[j] = heard[j]
         /\ heard'[i] = Append(heard[i], x) /\ heard[i] \in Seq(Call)
         /\ Len(heard'[i]) = Len(heard[i]) + 1 /\ Len(heard[i]) \in Nat
         /\ \A k \in DOMAIN heard'[i] : \/ k \in DOMAIN heard[i] /\ heard'[i][k] = heard[i][k]
                                        \/ k = Len(heard[i]) + 1 /\ heard'[i][k] = x
<1>1. heard \in [Id -> Seq(Call)] /\ heard[i] \in Seq(Call)
  BY DEF Types, HeardTypes
<1>2. PICK h : h = Append(heard[i], x)
  OBVIOUS
<1>3. h \in Seq(Call) /\ Len(h) = Len(heard[i]) + 1 /\ Len(heard[i]) \in Nat
  BY <1>1, <1>2, Added
<1>4. heard' = [heard EXCEPT ![i] = h]
  BY <1>2
<1>5. heard' \in [Id -> Seq(Call)] /\ heard'[i] = h /\ \A j \in Id : j # i => heard'[j] = heard[j]
  BY <1>1, <1>3, <1>4
<1>6. \A k \in DOMAIN h : \/ k \in DOMAIN heard[i] /\ h[k] = heard[i][k]
                          \/ k = Len(heard[i]) + 1 /\ h[k] = x
  BY <1>1, <1>2, AddedOne
<1>7. QED
  BY <1>1, <1>2, <1>3, <1>5, <1>6

\* The callback of the client whose request it is hears a reply to it.
LEMMA HeardHome ==
  ASSUME Types, HeardInv, ~Grpc, UNCHANGED <<kind, asker>>, NEW i \in 1..Len(asker),
         i \in Id, NEW final \in BOOLEAN, ~LastHeard(i),
         heard' = [heard EXCEPT ![i] =
                     Append(@, [by |-> asker[i].by, final |-> final, late |-> FALSE])]
  PROVE  /\ HeardInv' /\ heard' \in [Id -> Seq(Call)]
         /\ \A j \in Id : LastHeard(j)' => LastHeard(j) \/ (j = i /\ final)
<1>1. asker[i].by \in Caller
  <2>1. asker \in Seq(Asking)
    BY DEF Types, ClientTypes
  <2>2. asker[i] \in Asking
    BY <2>1
  <2>3. QED
    BY <2>2 DEF Asking
<1>2. PICK x : x = [by |-> asker[i].by, final |-> final, late |-> FALSE]
  OBVIOUS
<1>3. x \in Call /\ x.by = asker[i].by /\ x.final = final /\ x.late = FALSE
  BY <1>1, <1>2 DEF Call
<1>4. /\ heard' \in [Id -> Seq(Call)]
      /\ \A j \in Id : j # i => heard'[j] = heard[j]
      /\ Len(heard'[i]) = Len(heard[i]) + 1 /\ Len(heard[i]) \in Nat
      /\ \A k \in DOMAIN heard'[i] : \/ k \in DOMAIN heard[i] /\ heard'[i][k] = heard[i][k]
                                     \/ k = Len(heard[i]) + 1 /\ heard'[i][k] = x
  <2>1. heard' = [heard EXCEPT ![i] = Append(@, x)]
    BY <1>2
  <2>2. QED
    BY <1>3, <2>1, HeardOne
<1>5. /\ i \notin 1..Len(asker') => heard'[i] = <<>>
      /\ \A k \in DOMAIN heard'[i] : heard'[i][k].final => k = Len(heard'[i])
      /\ \A k \in DOMAIN heard'[i] : ~heard'[i][k].late /\ heard'[i][k].by = asker[i].by
  BY <1>3, <1>4 DEF HeardInv, LastHeard
<1>6. \A j \in Id : j # i =>
        /\ j \notin 1..Len(asker') => heard'[j] = <<>>
        /\ \A k \in DOMAIN heard'[j] : heard'[j][k].final => k = Len(heard'[j])
        /\ \A k \in DOMAIN heard'[j] : ~heard'[j][k].late /\ heard'[j][k].by = asker[j].by
  BY <1>4 DEF HeardInv
<1>7. HeardInv'
  BY <1>5, <1>6 DEF HeardInv, Grpc
<1>8. \A j \in Id : LastHeard(j)' => LastHeard(j) \/ (j = i /\ final)
  BY <1>3, <1>4 DEF LastHeard
<1>9. QED
  BY <1>4, <1>7, <1>8

\* A reply is dispatched.
LEMMA DispatchReplyStep ==
  ASSUME IndInv, Redis \/ RabbitMQ, NEW o \in 1..Len(conn), DispatchReply(o), UNCHANGED Others
  PROVE  IndInv'
<1>1. /\ ~Grpc /\ ~Socket /\ Types /\ ClientsInv /\ conn \in Seq(Connection) /\ Len(conn) \in Nat
      /\ conn[o].alive /\ conn[o].hand # <<>> /\ Longer
      /\ UNCHANGED <<kind, cur, lock, user, evicted, asker, server, queue, undefVars, Others>>
  <2>1. ~Grpc /\ ~Socket
    BY DEF Redis, RabbitMQ, Grpc, Socket
  <2>2. Types /\ ClientsInv /\ conn \in Seq(Connection) /\ Len(conn) \in Nat
    BY DEF IndInv, Types, ClientTypes
  <2>3. /\ conn[o].alive /\ conn[o].hand # <<>>
        /\ UNCHANGED <<kind, cur, lock, user, evicted, asker, server, queue, undefVars>>
    BY DEF DispatchReply
  <2>4. QED
    BY <2>1, <2>2, <2>3 DEF Longer
<1>2. PICK x : x = conn[o]
  OBVIOUS
<1>3. PICK r : r = Head(x.hand)
  OBVIOUS
<1>4. x \in Connection /\ x.hand \in Seq(Reply) /\ x.hand # <<>>
  <2>1. x \in Connection
    BY <1>1, <1>2, Entries
  <2>2. QED
    BY <1>1, <1>2, <2>1 DEF Connection
<1>5. r \in Reply /\ r.id \in Id /\ r.final \in BOOLEAN /\ MadeOn(r.id, o)
  <2>1. r \in Reply /\ 1 \in DOMAIN x.hand /\ x.hand[1] = r
    BY <1>3, <1>4, Taken
  <2>2. MadeOn(r.id, o)
    BY <1>2, <2>1 DEF IndInv, RepliesAreTrue
  <2>3. QED
    BY <2>1, <2>2 DEF Reply
<1>6. PICK y : y = Dispatched(x, r)
  OBVIOUS
<1>7. conn' = [conn EXCEPT ![o] = y]
  BY <1>1, <1>2, <1>3, <1>6 DEF DispatchReply
<1>8. x.index = Mirror(x.table)
  BY <1>1, <1>2 DEF ClientsInv, TablesAreTrue, Mirror
<1>9. /\ y \in Connection /\ y.alive = x.alive /\ y.counter = x.counter
      /\ y.clients = x.clients /\ y.gone = x.gone /\ y.inbox = x.inbox /\ y.hand = <<>>
      /\ y.table = IF r.final THEN {p \in x.table : p[1] # r.id} ELSE x.table
      /\ y.index = Mirror(y.table)
  <2>1. x \in Connection /\ r \in Reply
    BY <1>4, <1>5
  <2>2. DispatchedIs(x, r, y)
    BY <2>1, <1>6, <1>8, DispatchedKeeps
  <2>3. QED
    BY <2>2 DEF DispatchedIs
<1>10. /\ conn' \in Seq(Connection) /\ Len(conn') = Len(conn) /\ conn'[o] = y
       /\ \A p \in 1..Len(conn) : p # o => conn'[p] = conn[p]
  BY <1>1, <1>7, <1>9, Changed
<1>11. \A p \in 1..Len(conn) :
         /\ conn'[p].alive = conn[p].alive /\ conn'[p].counter = conn[p].counter
         /\ conn'[p].clients = conn[p].clients /\ conn'[p].gone = conn[p].gone
         /\ conn'[p].table \subseteq conn[p].table
         /\ conn'[p].index = Mirror(conn'[p].table)
  <2>1. \A p \in 1..Len(conn) : conn[p].index = Mirror(conn[p].table)
    BY <1>1 DEF ClientsInv, TablesAreTrue, Mirror
  <2>2. y.table \subseteq x.table
    BY <1>9
  <2>3. QED
    BY <1>2, <1>9, <1>10, <2>1, <2>2
<1>12. ClientTypes'
  BY <1>1, <1>10 DEF Types, ClientTypes, undefVars, Others
<1>13. OneIsAlive' /\ ClientsAreUsers'
  BY <1>1, <1>10, <1>11 DEF ClientsInv, OneIsAlive, ClientsAreUsers, Numbered, Grpc, RabbitMQ
<1>14. PointersAreTrue'
  BY <1>1, <1>10, <1>11 DEF ClientsInv, PointersAreTrue, Numbered, Grpc, Redis, RabbitMQ
<1>15. UsersAreClients'
  BY <1>1, <1>10, <1>11 DEF ClientsInv, UsersAreClients, PointersAreTrue, Numbered, Grpc, undefVars
<1>16. AskersAreTrue'
  BY <1>1, <1>10, <1>11 DEF ClientsInv, AskersAreTrue, Grpc
<1>17. TablesAreTrue'
  <2> SUFFICES ASSUME NEW p \in 1..Len(conn)
               PROVE  /\ \A e \in conn'[p].table :
                           e[1] \in 1..Len(asker) /\ asker[e[1]].o = p /\ asker[e[1]].num = e[2]
                      /\ conn'[p].index = {<<e[2], e[1]>> : e \in conn'[p].table}
                      /\ conn'[p].alive => \A e \in conn'[p].table :
                           \/ belated \/ asker[e[1]].by \in evicted
                           \/ \E q \in conn'[p].clients : q[1] = e[2]
    BY <1>1, <1>10 DEF TablesAreTrue, Socket, Grpc, undefVars
  <2>1. /\ \A e \in conn[p].table :
             e[1] \in 1..Len(asker) /\ asker[e[1]].o = p /\ asker[e[1]].num = e[2]
        /\ conn[p].alive => \A e \in conn[p].table :
             \/ belated \/ asker[e[1]].by \in evicted
             \/ \E q \in conn[p].clients : q[1] = e[2]
    BY <1>1 DEF ClientsInv, TablesAreTrue
  <2>2. QED
    BY <1>11, <2>1 DEF Mirror
<1>18. FixedClients' /\ FreedIsNotUsed'
  BY <1>1 DEF ClientsInv, FixedClients, FreedIsNotUsed, Grpc, Socket, Redis, undefVars
<1>19. ServerTypes' /\ ServersInv'
  BY <1>1, ServersStay DEF IndInv
<1>20. RepliesAreTrue'
  <2>1. \A p \in 1..Len(conn') :
           /\ conn'[p].inbox = <<>> \/ (p \in 1..Len(conn) /\ conn'[p].inbox = conn[p].inbox)
           /\ conn'[p].hand = <<>> \/ (p \in 1..Len(conn) /\ conn'[p].hand = conn[p].hand)
    BY <1>2, <1>9, <1>10
  <2>2. QED
    BY <1>1, <2>1, RepliesStay DEF IndInv
<1>21. /\ HeardInv' /\ heard' \in [Id -> Seq(Call)]
       /\ \A j \in Id : LastHeard(j)' => LastHeard(j) \/ (j = r.id /\ r.final)
  <2>1. HeardInv /\ heard \in [Id -> Seq(Call)]
    BY <1>1 DEF IndInv, CallsInv, Types, HeardTypes
  <2>2. CASE heard' = heard
    BY <1>1, <2>1, <2>2, HeardStays DEF LastHeard
  <2>3. CASE heard' = [heard EXCEPT ![r.id] = @ \o SetToSeq(CallsOf(o, r))]
    <3>1. CASE CallsOf(o, r) = {}
      <4>1. SetToSeq(CallsOf(o, r)) = <<>>
        BY <3>1, SeqOfOne
      <4>2. heard[r.id] \o <<>> = heard[r.id]
        BY <1>5, <2>1
      <4>3. heard' = heard
        BY <1>5, <2>1, <2>3, <4>1, <4>2
      <4>4. QED
        BY <2>2, <4>3
    <3>2. CASE /\ CallsOf(o, r) = {[by |-> asker[r.id].by, final |-> r.final, late |-> FALSE]}
               /\ ~LastHeard(r.id)
      <4>1. PICK c : c = [by |-> asker[r.id].by, final |-> r.final, late |-> FALSE]
        OBVIOUS
      <4>2. SetToSeq(CallsOf(o, r)) = <<c>>
        BY <3>2, <4>1, SeqOfOne
      <4>3. heard[r.id] \o <<c>> = Append(heard[r.id], c)
        BY <1>5, <2>1, OneMore
      <4>4. heard' = [heard EXCEPT ![r.id] =
              Append(@, [by |-> asker[r.id].by, final |-> r.final, late |-> FALSE])]
        BY <2>3, <4>1, <4>2, <4>3
      <4>5. r.id \in 1..Len(asker)
        BY <1>5 DEF MadeOn
      <4>6. QED
        BY <1>1, <1>5, <2>1, <3>2, <4>4, <4>5, HeardHome
    <3>3. QED
      BY <1>1, <1>5, <3>1, <3>2, CallsAreTrue
  <2>4. QED
    BY <1>1, <1>2, <1>3, <2>2, <2>3 DEF DispatchReply
<1>22. HeardTypes'
  BY <1>1, <1>21 DEF Types, HeardTypes, Others
<1>23. EndedIsForgotten'
  <2> SUFFICES ASSUME NEW i \in Id, LastHeard(i)', NEW p \in 1..Len(conn),
                      NEW e \in conn'[p].table, e[1] = i
               PROVE  FALSE
    BY <1>10 DEF EndedIsForgotten
  <2>1. e \in conn[p].table /\ asker[e[1]].o = p
    BY <1>1, <1>11 DEF ClientsInv, TablesAreTrue
  <2>2. ~LastHeard(i)
    BY <2>1 DEF IndInv, CallsInv, EndedIsForgotten
  <2>3. i = r.id /\ r.final
    BY <1>21, <2>2
  <2>4. p = o
    BY <1>5, <2>1, <2>3 DEF MadeOn
  <2>5. QED
    BY <1>9, <1>10, <2>3, <2>4
<1>24. SocketStages' /\ GrpcStages'
  BY <1>1 DEF IndInv, CallsInv, SocketStages, GrpcStages, Socket, Grpc, Others
<1>25. QED
  BY <1>12, <1>13, <1>14, <1>15, <1>16, <1>17, <1>18, <1>19, <1>20, <1>21, <1>22, <1>23, <1>24
     DEF IndInv, Types, ClientsInv, CallsInv

-----------------------------------------------------------------------------
(* Clients over sockets.                                                   *)

\* What holds of every state over sockets.
LEMMA OverSockets ==
  ASSUME IndInv, Socket
  PROVE  /\ ~Grpc /\ ~Redis /\ ~RabbitMQ /\ Types /\ ClientsInv /\ ServersInv
         /\ conn \in Seq(Connection) /\ Len(conn) \in Nat /\ user \in [Caller -> Using]
         /\ asker \in Seq(Asking) /\ cur \in 0..Len(conn) /\ server \in [Server -> Service]
         /\ {misused, strayed, raced, belated} \subseteq BOOLEAN
BY DEF IndInv, Socket, Redis, RabbitMQ, Grpc, Types, ClientTypes, ServerTypes

\* A second client is refused.
LEMMA SocketRefusesStep ==
  ASSUME IndInv, Socket, NEW c \in Caller, user[c].at = "out",
         user' = [user EXCEPT ![c].at = "refused"],
         UNCHANGED <<kind, conn, cur, lock, evicted, asker, heard, server, queue, lost, faults,
                     undefVars, Others>>
  PROVE  IndInv'
<1>1. /\ ~Grpc /\ ~Redis /\ ~RabbitMQ /\ Types /\ ClientsInv
      /\ conn \in Seq(Connection) /\ Len(conn) \in Nat /\ user \in [Caller -> Using]
  BY OverSockets
<1>2. Longer
  BY DEF Longer
<1>3. PICK x : x = [user[c] EXCEPT !.at = "refused"]
  OBVIOUS
<1>4. x \in Using /\ x.at = "refused" /\ x.o = user[c].o /\ x.num = user[c].num
      /\ x.left = user[c].left
  <2>1. user[c] \in Using
    BY <1>1
  <2>2. QED
    BY <1>3, <2>1 DEF Using, UserAt
<1>5. user' = [user EXCEPT ![c] = x]
  BY <1>3
<1>6. user' \in [Caller -> Using] /\ user'[c] = x /\ \A d \in Caller : d # c => user'[d] = user[d]
  BY <1>1, <1>4, <1>5, UserChanged
<1>7. ASSUME NEW d \in Caller
      PROVE  /\ user'[d].o = user[d].o /\ user'[d].num = user[d].num
             /\ user'[d].left = user[d].left
             /\ user'[d].at = "adding" <=> user[d].at = "adding"
             /\ Numbered(d)' <=> Numbered(d)
             /\ user'[d].at = "asking" =>
                  /\ Redis \/ RabbitMQ
                  /\ user'[d].id \in 1..Len(asker') /\ asker'[user'[d].id].o = user[d].o
  <2>1. CASE d = c
    BY <1>4, <1>6, <2>1 DEF Numbered
  <2>2. CASE d # c
    BY <1>1, <1>6, <2>2 DEF ClientsInv, PointersAreTrue, Numbered
  <2>3. QED
    BY <2>1, <2>2
<1>8. UNCHANGED raced
  BY DEF undefVars
<1>9. OneIsAlive' /\ PointersAreTrue' /\ ClientsAreUsers' /\ UsersAreClients'
  BY <1>1, <1>6, <1>7, <1>8, PeopleStay
<1>10. AskersAreTrue' /\ TablesAreTrue' /\ FixedClients' /\ FreedIsNotUsed'
  <2>1. AskersAreTrue' /\ TablesAreTrue' /\ FreedIsNotUsed'
    BY <1>1 DEF ClientsInv, AskersAreTrue, TablesAreTrue, FreedIsNotUsed, undefVars, Redis, Socket,
       Grpc
  <2>2. \A d \in Caller : user[d].at # "adding"
    BY <1>1 DEF ClientsInv, FixedClients
  <2>3. \A d \in Caller : user'[d].at # "adding"
    BY <1>4, <1>6, <2>2
  <2>4. \A o \in 1..Len(conn) :
          conn[o].counter = 1 /\ \E d \in Caller : conn[o].clients = {<<1, d>>}
    BY <1>1 DEF ClientsInv, FixedClients
  <2>5. FixedClients'
    BY <1>1, <2>3, <2>4 DEF FixedClients, Grpc, Socket
  <2>6. QED
    BY <2>1, <2>5
<1>11. ClientTypes'
  BY <1>1, <1>6 DEF Types, ClientTypes, undefVars, Others
<1>12. ServerTypes' /\ ServersInv' /\ RepliesAreTrue' /\ HeardTypes' /\ CallsInv'
  BY <1>1, <1>2, MessagesStay
<1>13. QED
  BY <1>9, <1>10, <1>11, <1>12 DEF IndInv, Types, ClientsInv

\* The first client has a connection made for it, and a number at once.
LEMMA SocketConnectsStep ==
  ASSUME IndInv, Socket, NEW c \in Caller, user[c].at = "out", cur = 0, lock = Nobody,
         conn' = Append(conn, [NewConnection("connecting") EXCEPT
                                 !.counter = 1, !.clients = {<<1, c>>}]),
         cur' = Len(conn) + 1,
         user' = [user EXCEPT ![c].at = "ready", ![c].o = cur', ![c].num = 1, ![c].left = FALSE],
         UNCHANGED <<kind, lock, evicted, asker, heard, server, queue, lost, faults,
                     undefVars, Others>>
  PROVE  IndInv'
<1>1. /\ ~Grpc /\ ~Redis /\ ~RabbitMQ /\ Types /\ ClientsInv
      /\ conn \in Seq(Connection) /\ Len(conn) \in Nat /\ user \in [Caller -> Using]
  BY OverSockets
<1>2. Longer
  BY DEF Longer
<1>3. PICK l : l = Len(conn) + 1
  OBVIOUS
<1>4. PICK z : z = NewConnection("connecting")
  OBVIOUS
<1>5. PICK C : C = {<<1, c>>}
  OBVIOUS
<1>6. PICK y : y = [z EXCEPT !.counter = 1, !.clients = C]
  OBVIOUS
<1>7. /\ y \in Connection /\ y.alive /\ y.counter = 1 /\ y.clients = C /\ y.table = {}
      /\ y.index = {} /\ y.inbox = <<>> /\ y.hand = <<>>
  <2>1. z \in Connection
    BY <1>4, NewIsConnection
  <2>2. /\ z.alive /\ z.table = {} /\ z.index = {} /\ z.inbox = <<>> /\ z.hand = <<>>
    BY <1>4 DEF NewConnection
  <2>3. C \in SUBSET (Nat \X Caller)
    BY <1>5
  <2>4. QED
    BY <1>6, <2>1, <2>2, <2>3 DEF Connection
<1>8. conn' = Append(conn, y)
  BY <1>4, <1>5, <1>6
<1>9. /\ conn' \in Seq(Connection) /\ Len(conn') = l /\ conn'[l] = y /\ l \in Nat
      /\ \A o \in 1..Len(conn) : o \in 1..Len(conn') /\ conn'[o] = conn[o] /\ o # l
      /\ \A o \in 1..Len(conn') : o \in 1..Len(conn) \/ o = l
      /\ l \in 1..Len(conn') /\ l # 0 /\ l \notin 1..Len(conn)
  <2>1. /\ conn' \in Seq(Connection) /\ Len(conn') = l /\ conn'[l] = y
        /\ \A o \in 1..Len(conn) : conn'[o] = conn[o]
    BY <1>1, <1>3, <1>7, <1>8, Added
  <2>2. QED
    BY <1>1, <1>3, <2>1
<1>10. PICK x : x = [user[c] EXCEPT !.at = "ready", !.o = l, !.num = 1, !.left = FALSE]
  OBVIOUS
<1>11. x \in Using /\ x.at = "ready" /\ x.o = l /\ x.num = 1 /\ x.left = FALSE
  <2>1. user[c] \in Using
    BY <1>1
  <2>2. QED
    BY <1>9, <1>10, <2>1 DEF Using, UserAt
<1>12. user' = [user EXCEPT ![c] = x]
  BY <1>1, <1>3, <1>10
<1>13. user' \in [Caller -> Using] /\ user'[c] = x /\ \A d \in Caller : d # c => user'[d] = user[d]
  BY <1>1, <1>11, <1>12, UserChanged
<1>14. \A d \in Caller : Numbered(d)' <=> (d = c \/ Numbered(d))
  BY <1>11, <1>13 DEF Numbered
<1>15. \A o \in 1..Len(conn) : ~conn[o].alive
  BY <1>1 DEF ClientsInv, OneIsAlive
<1>16. ClientTypes'
  BY <1>1, <1>3, <1>9, <1>13 DEF Types, ClientTypes, undefVars, Others
<1>17. OneIsAlive'
  BY <1>1, <1>3, <1>7, <1>9, <1>15 DEF OneIsAlive, Grpc, RabbitMQ
<1>18. \A d \in Caller : user[d].at \in {"adding", "ready", "asking"} => user[d].o \in 1..Len(conn)
  BY <1>1 DEF ClientsInv, PointersAreTrue
<1>19. PointersAreTrue'
  <2>1. \A d \in Caller :
          /\ user'[d].at \in {"adding", "ready", "asking"} => user'[d].o \in 1..Len(conn')
          /\ Numbered(d)' => user'[d].num \in 1..conn'[user'[d].o].counter
    <3> SUFFICES ASSUME NEW d \in Caller
                 PROVE  /\ user'[d].at \in {"adding", "ready", "asking"} => user'[d].o \in 1..Len(conn')
                        /\ Numbered(d)' => user'[d].num \in 1..conn'[user'[d].o].counter
      OBVIOUS
    <3>1. CASE d = c
      BY <1>7, <1>9, <1>11, <1>13, <3>1
    <3>2. CASE d # c
      <4>1. Numbered(d) => user[d].num \in 1..conn[user[d].o].counter
        BY <1>1 DEF ClientsInv, PointersAreTrue
      <4>2. Numbered(d) => user[d].o \in 1..Len(conn)
        BY <1>18 DEF Numbered
      <4>3. QED
        BY <1>9, <1>13, <1>14, <1>18, <3>2, <4>1, <4>2
    <3>3. QED
      BY <3>1, <3>2
  <2>2. \A d, e \in Caller : Numbered(d)' /\ Numbered(e)' /\ user'[d].o = user'[e].o
                             /\ user'[d].num = user'[e].num => d = e
    <3>1. \A d \in Caller : d # c /\ Numbered(d)' => Numbered(d) /\ user'[d].o # l
      BY <1>9, <1>13, <1>14, <1>18 DEF Numbered
    <3>2. \A d, e \in Caller : Numbered(d) /\ Numbered(e) /\ user[d].o = user[e].o
                               /\ user[d].num = user[e].num => d = e
      BY <1>1 DEF ClientsInv, PointersAreTrue
    <3>3. ASSUME NEW d \in Caller, NEW e \in Caller, Numbered(d)', Numbered(e)',
                 user'[d].o = user'[e].o, user'[d].num = user'[e].num
          PROVE  d = e
      <4>1. CASE d = c \/ e = c
        BY <1>11, <1>13, <3>1, <3>3, <4>1
      <4>2. CASE d # c /\ e # c
        <5>1. user'[d] = user[d] /\ user'[e] = user[e]
          BY <1>13, <4>2
        <5>2. QED
          BY <3>1, <3>2, <3>3, <4>2, <5>1
      <4>3. QED
        BY <4>1, <4>2
    <3>4. QED
      BY <3>3
  <2>3. \A d \in Caller : user'[d].at # "asking"
    BY <1>1, <1>11, <1>13 DEF ClientsInv, PointersAreTrue
  <2>4. QED
    BY <2>1, <2>2, <2>3 DEF PointersAreTrue
<1>20. ClientsAreUsers'
  <2> SUFFICES ASSUME NEW o \in 1..Len(conn'), conn'[o].alive, NEW p \in conn'[o].clients
               PROVE  /\ Numbered(p[2])' /\ ~user'[p[2]].left
                      /\ user'[p[2]].o = o /\ user'[p[2]].num = p[1]
    BY DEF ClientsAreUsers
  <2>1. o = l
    BY <1>9, <1>15
  <2>2. p[1] = 1 /\ p[2] = c
    BY <1>5, <1>7, <1>9, <2>1
  <2>3. QED
    BY <1>11, <1>13, <1>14, <2>1, <2>2
<1>21. UsersAreClients'
  <2> SUFFICES ASSUME NEW d \in Caller
               PROVE  /\ Numbered(d)' /\ ~user'[d].left /\ d \notin evicted' =>
                           IF conn'[user'[d].o].alive
                           THEN <<user'[d].num, d>> \in conn'[user'[d].o].clients ELSE raced'
                      /\ user'[d].at = "adding" /\ ~conn'[user'[d].o].alive => raced'
    BY DEF UsersAreClients
  <2>1. CASE d = c
    <3>1. user'[d].at = "ready" /\ user'[d].o = l /\ user'[d].num = 1
      BY <1>11, <1>13, <2>1
    <3>2. conn'[user'[d].o].alive /\ <<user'[d].num, d>> \in conn'[user'[d].o].clients
      BY <1>5, <1>7, <1>9, <2>1, <3>1
    <3>3. QED
      BY <3>1, <3>2
  <2>2. CASE d # c
    <3>1. user'[d] = user[d] /\ (Numbered(d)' <=> Numbered(d))
      BY <1>13, <1>14, <2>2
    <3>2. /\ Numbered(d) /\ ~user[d].left /\ d \notin evicted =>
               IF conn[user[d].o].alive
               THEN <<user[d].num, d>> \in conn[user[d].o].clients ELSE raced
          /\ user[d].at = "adding" /\ ~conn[user[d].o].alive => raced
      BY <1>1 DEF ClientsInv, UsersAreClients
    <3>3. Numbered(d) \/ user[d].at = "adding" => conn'[user[d].o] = conn[user[d].o]
      BY <1>9, <1>18 DEF Numbered
    <3>4. raced' = raced /\ evicted' = evicted
      BY DEF undefVars
    <3>5. QED
      BY <3>1, <3>2, <3>3, <3>4
  <2>3. QED
    BY <2>1, <2>2
<1>22. AskersAreTrue'
  BY <1>1, <1>9 DEF ClientsInv, AskersAreTrue, Grpc
<1>23. TablesAreTrue'
  <2> SUFFICES ASSUME NEW o \in 1..Len(conn')
               PROVE  /\ \A p \in conn'[o].table :
                           /\ p[1] \in 1..Len(asker) /\ asker[p[1]].o = o
                           /\ asker[p[1]].num = p[2]
                      /\ conn'[o].index = {<<p[2], p[1]>> : p \in conn'[o].table}
                      /\ conn'[o].table = {}
    BY DEF TablesAreTrue, Socket, Grpc
  <2>1. CASE o = l
    <3>1. conn'[o].table = {} /\ conn'[o].index = {}
      BY <1>7, <1>9, <2>1
    <3>2. QED
      BY <3>1
  <2>2. CASE o \in 1..Len(conn)
    <3>1. conn[o].table = {} /\ conn[o].index = {<<p[2], p[1]>> : p \in conn[o].table}
      BY <1>1, <2>2 DEF ClientsInv, TablesAreTrue
    <3>2. conn'[o] = conn[o]
      BY <1>9, <2>2
    <3>3. QED
      BY <3>1, <3>2
  <2>3. QED
    BY <1>9, <2>1, <2>2
<1>24. FixedClients' /\ FreedIsNotUsed'
  <2>1. \A o \in 1..Len(conn') : conn'[o].counter = 1 /\ \E d \in Caller : conn'[o].clients = {<<1, d>>}
    <3> SUFFICES ASSUME NEW o \in 1..Len(conn')
                 PROVE  conn'[o].counter = 1 /\ \E d \in Caller : conn'[o].clients = {<<1, d>>}
      OBVIOUS
    <3>1. CASE o = l
      BY <1>5, <1>7, <1>9, <3>1
    <3>2. CASE o \in 1..Len(conn)
      BY <1>1, <1>9, <3>2 DEF ClientsInv, FixedClients
    <3>3. QED
      BY <1>9, <3>1, <3>2
  <2>2. FixedClients'
    BY <1>1, <1>11, <1>13, <2>1 DEF ClientsInv, FixedClients, Grpc, Socket
  <2>3. FreedIsNotUsed'
    BY <1>1 DEF ClientsInv, FreedIsNotUsed, Socket, Redis, undefVars
  <2>4. QED
    BY <2>2, <2>3
<1>25. ServerTypes' /\ ServersInv' /\ RepliesAreTrue' /\ HeardTypes' /\ CallsInv'
  <2>1. \A o \in 1..Len(conn') :
           /\ conn'[o].inbox = <<>> \/ (o \in 1..Len(conn) /\ conn'[o].inbox = conn[o].inbox)
           /\ conn'[o].hand = <<>> \/ (o \in 1..Len(conn) /\ conn'[o].hand = conn[o].hand)
    BY <1>7, <1>9
  <2>2. QED
    BY <1>1, <1>2, <1>9, <2>1, MessagesStay
<1>26. QED
  BY <1>16, <1>17, <1>19, <1>20, <1>21, <1>22, <1>23, <1>24, <1>25 DEF IndInv, Types, ClientsInv

LEMMA SocketRpcClientStep ==
  ASSUME IndInv, NEW c \in Caller, SocketRpcClient(c), UNCHANGED Others
  PROVE  IndInv'
BY SocketRefusesStep, SocketConnectsStep DEF SocketRpcClient

LEMMA SocketHandleConnectStep ==
  ASSUME IndInv, NEW o \in 1..Len(conn), SocketHandleConnect(o), UNCHANGED Others
  PROVE  IndInv'
<1>1. /\ Socket /\ UNCHANGED <<kind, cur, lock, user, evicted, asker, heard, server, queue, misused,
                               raced, belated, strayed>>
  BY DEF SocketHandleConnect, undefVars
<1>2. conn \in Seq(Connection) /\ strayed \in BOOLEAN
  BY <1>1, OverSockets
<1>3. PICK x : x = conn[o]
  OBVIOUS
<1>4. x \in Connection
  BY <1>2, <1>3, Entries
<1>5. PICK l \in {"up", "dead"} : conn' = [conn EXCEPT ![o].link = l]
  BY DEF SocketHandleConnect
<1>6. PICK y : y = [x EXCEPT !.link = l]
  OBVIOUS
<1>7. conn' = [conn EXCEPT ![o] = y]
  BY <1>3, <1>5, <1>6
<1>8. y \in Connection /\ Kept(x, y) /\ y.inbox = x.inbox /\ y.hand = x.hand
  BY <1>4, <1>6 DEF Connection, Kept
<1>9. OwnReplies(y, o)
  BY <1>3, <1>8 DEF OwnReplies, IndInv, RepliesAreTrue
<1>10. QED
  BY <1>1, <1>2, <1>3, <1>7, <1>8, <1>9, ConnectionAlone

LEMMA SocketPendingHandlerStep ==
  ASSUME IndInv, NEW o \in 1..Len(conn), SocketPendingHandler(o), UNCHANGED Others
  PROVE  IndInv'
<1>1. /\ Socket /\ strayed' = (strayed \/ conn[o].link # "dead")
      /\ UNCHANGED <<kind, cur, lock, user, evicted, asker, heard, server, queue, misused,
                     raced, belated>>
  BY DEF SocketPendingHandler
<1>2. conn \in Seq(Connection) /\ strayed \in BOOLEAN
  BY <1>1, OverSockets
<1>3. PICK x : x = conn[o]
  OBVIOUS
<1>4. x \in Connection
  BY <1>2, <1>3, Entries
<1>5. PICK y : y = [x EXCEPT !.gone = TRUE]
  OBVIOUS
<1>6. conn' = [conn EXCEPT ![o] = y]
  BY <1>3, <1>5 DEF SocketPendingHandler
<1>7. y \in Connection /\ Kept(x, y) /\ y.inbox = x.inbox /\ y.hand = x.hand
  BY <1>4, <1>5 DEF Connection, Kept
<1>8. OwnReplies(y, o)
  BY <1>3, <1>7 DEF OwnReplies, IndInv, RepliesAreTrue
<1>9. strayed' \in BOOLEAN
  BY <1>1, <1>2
<1>10. QED
  BY <1>1, <1>3, <1>6, <1>7, <1>8, <1>9, ConnectionAlone

\* The callback of a socket's one client hears a message.
SocketHears(o, r) ==
  /\ heard' = [heard EXCEPT ![r.id] = @ \o SetToSeq(
       {[by |-> p[2], final |-> r.final, late |-> Late(o, p[1], p[2])] : p \in conn[o].clients})]
  /\ conn' = [conn EXCEPT ![o].inbox = Tail(@)]

LEMMA SocketHearsStep ==
  ASSUME IndInv, Socket, NEW o \in 1..Len(conn), conn[o].alive, conn[o].inbox # <<>>,
         NEW r, r = Head(conn[o].inbox),
         SocketHears(o, r),
         UNCHANGED <<kind, cur, lock, user, evicted, asker, server, queue, misused, strayed, raced,
                     belated, Others>>
  PROVE  IndInv'
<1>1. /\ ~Grpc /\ ~Redis /\ ~RabbitMQ /\ Types /\ ClientsInv /\ strayed \in BOOLEAN
      /\ conn \in Seq(Connection) /\ Len(conn) \in Nat /\ user \in [Caller -> Using]
  BY OverSockets
<1>2. Longer
  BY DEF Longer
<1>3. PICK x : x = conn[o]
  OBVIOUS
<1>4. x \in Connection /\ x.inbox \in Seq(Reply) /\ x.inbox # <<>>
  <2>1. x \in Connection
    BY <1>1, <1>3, Entries
  <2>2. QED
    BY <1>3, <2>1 DEF Connection
<1>5. r \in Reply /\ r.id \in Id /\ r.final \in BOOLEAN /\ MadeOn(r.id, o) /\ ~LastHeard(r.id)
      /\ 1 \in DOMAIN x.inbox /\ x.inbox[1] = r
  <2>1. r \in Reply /\ 1 \in DOMAIN x.inbox /\ x.inbox[1] = r
    BY <1>3, <1>4, Taken
  <2>2. MadeOn(r.id, o) /\ ~LastHeard(r.id)
    BY <1>3, <2>1 DEF IndInv, RepliesAreTrue, CallsInv, SocketStages
  <2>3. QED
    BY <2>1, <2>2 DEF Reply
\* The connection keeps the messages behind the first.
<1>6. PICK t : t \in Seq(Reply) /\ t = Tail(x.inbox)
  BY <1>4, Taken
<1>7. \A k \in DOMAIN t : k \in Nat /\ k + 1 \in DOMAIN x.inbox /\ t[k] = x.inbox[k + 1]
  BY <1>4, <1>6, Taken
<1>8. PICK y : y = [x EXCEPT !.inbox = t]
  OBVIOUS
<1>9. y \in Connection /\ Kept(x, y) /\ y.inbox = t /\ y.hand = x.hand
  BY <1>4, <1>6, <1>8 DEF Connection, Kept
<1>10. conn' = [conn EXCEPT ![o] = y]
  BY <1>3, <1>6, <1>8 DEF SocketHears
<1>11. /\ conn' \in Seq(Connection) /\ Len(conn') = Len(conn) /\ conn'[o] = y
       /\ \A p \in 1..Len(conn) : p # o => conn'[p] = conn[p]
  BY <1>1, <1>9, <1>10, Changed
<1>12. SameClients
  BY <1>3, <1>9, <1>11 DEF SameClients, Kept
<1>13. ClientTypes' /\ ClientsInv'
  BY <1>1, <1>12, ClientsStay DEF Others
<1>14. ServerTypes' /\ ServersInv'
  BY <1>1, <1>2, ServersStay DEF IndInv
<1>15. \A i, p : MadeOn(i, p)' <=> MadeOn(i, p)
  BY DEF MadeOn
<1>16. ASSUME NEW p \in 1..Len(conn), NEW k \in DOMAIN conn'[p].inbox
       PROVE  \/ p # o /\ conn'[p] = conn[p]
              \/ /\ p = o /\ k \in DOMAIN t /\ conn'[p].inbox[k] = x.inbox[k + 1]
                 /\ k + 1 \in DOMAIN x.inbox
  BY <1>7, <1>9, <1>11
<1>17. \A p \in 1..Len(conn) : \A k \in DOMAIN conn'[p].inbox : MadeOn(conn'[p].inbox[k].id, p)
  BY <1>3, <1>16 DEF IndInv, RepliesAreTrue
<1>18. RepliesAreTrue'
  <2>1. \A p \in 1..Len(conn) : \A k \in DOMAIN conn'[p].hand : MadeOn(conn'[p].hand[k].id, p)
    BY <1>3, <1>9, <1>11 DEF IndInv, RepliesAreTrue
  <2>2. QED
    BY <1>11, <1>17, <2>1 DEF RepliesAreTrue, MadeOn
<1>19. PICK c : c = [by |-> asker[r.id].by, final |-> r.final, late |-> FALSE]
  OBVIOUS
<1>20. {[by |-> p[2], final |-> r.final, late |-> Late(o, p[1], p[2])] : p \in conn[o].clients} = {c}
  <2>1. PICK d \in Caller : conn[o].clients = {<<1, d>>}
    BY <1>1 DEF ClientsInv, FixedClients
  <2>2. r.id \in 1..Len(asker) /\ asker[r.id].o = o
    BY <1>5 DEF MadeOn
  <2>3. asker[r.id].num = 1
    <3>1. asker[r.id].num \in 1..1
      BY <1>1, <2>2 DEF ClientsInv, AskersAreTrue, FixedClients
    <3>2. QED
      BY <3>1
  <2>4. PICK p : p = <<1, d>>
    OBVIOUS
  <2>5. conn[o].clients = {p} /\ p[1] = 1 /\ p[2] = d
    BY <2>1, <2>4
  <2>6. p[2] = asker[r.id].by
    <3>1. \A e \in conn[o].clients : e[1] = asker[r.id].num => e[2] = asker[r.id].by
      BY <1>1, <2>2 DEF ClientsInv, AskersAreTrue
    <3>2. QED
      BY <2>3, <2>5, <3>1
  <2>7. ~user[p[2]].left /\ user[p[2]].o = o /\ user[p[2]].num = p[1]
    BY <1>1, <2>5 DEF ClientsInv, ClientsAreUsers
  <2>8. user[p[2]].left \in BOOLEAN
    BY <1>1, <2>5 DEF Using
  <2>9. Late(o, p[1], p[2]) = FALSE
    BY <2>7, <2>8 DEF Late
  <2>10. [by |-> p[2], final |-> r.final, late |-> Late(o, p[1], p[2])] = c
    BY <1>19, <2>6, <2>9
  <2>11. QED
    BY <2>5, <2>10
<1>21. heard \in [Id -> Seq(Call)] /\ HeardInv
  BY <1>1 DEF IndInv, CallsInv, Types, HeardTypes
<1>22. heard' = [heard EXCEPT ![r.id] = Append(@, c)]
  <2>1. heard' = [heard EXCEPT ![r.id] = @ \o SetToSeq({c})]
    BY <1>20 DEF SocketHears
  <2>2. SetToSeq({c}) = <<c>>
    BY SeqOfOne
  <2>3. heard[r.id] \o <<c>> = Append(heard[r.id], c)
    BY <1>5, <1>21, OneMore
  <2>4. QED
    BY <2>1, <2>2, <2>3
<1>23. /\ HeardInv' /\ heard' \in [Id -> Seq(Call)]
       /\ \A j \in Id : LastHeard(j)' => LastHeard(j) \/ (j = r.id /\ r.final)
  <2>1. heard' = [heard EXCEPT ![r.id] =
              Append(@, [by |-> asker[r.id].by, final |-> r.final, late |-> FALSE])]
    BY <1>19, <1>22
  <2>2. r.id \in 1..Len(asker)
    BY <1>5 DEF MadeOn
  <2>3. QED
    BY <1>1, <1>5, <1>21, <2>1, <2>2, HeardHome
<1>24. HeardTypes'
  BY <1>1, <1>23 DEF Types, HeardTypes, Others
<1>25. SocketStages'
  <2>1. /\ \A s \in Server : \A i \in UnderWay(server[s]) :
             ~LastHeard(i) /\ \A p \in 1..Len(conn) : ~Ending(conn[p].inbox, i)
        /\ \A p \in 1..Len(conn) :
             /\ \A k \in DOMAIN conn[p].inbox : ~LastHeard(conn[p].inbox[k].id)
             /\ LastIsLast(conn[p].inbox)
    BY DEF IndInv, CallsInv, SocketStages
  <2>2. \A s \in Server : \A i \in UnderWay(server[s]) : i \in Id
    <3> SUFFICES ASSUME NEW s \in Server, NEW i \in UnderWay(server[s]) PROVE i \in Id
      OBVIOUS
    <3>1. server[s].inbox \in Seq(Id \X Nat) /\ server[s].work \in SUBSET Id
      BY <1>1 DEF Types, ServerTypes, Service
    <3>2. QED
      BY <3>1 DEF UnderWay
  <2>3. ASSUME NEW s \in Server, NEW i \in UnderWay(server[s]) PROVE ~LastHeard(i)'
    <3>1. ~LastHeard(i) /\ ~Ending(x.inbox, i) /\ i \in Id
      BY <1>3, <2>1, <2>2
    <3>2. ~(i = r.id /\ r.final)
      BY <1>5, <3>1 DEF Ending
    <3>3. QED
      BY <1>23, <3>1, <3>2
  <2>4. ASSUME NEW s \in Server, NEW i \in UnderWay(server[s]), NEW p \in 1..Len(conn)
        PROVE  ~Ending(conn'[p].inbox, i)
    BY <1>3, <1>16, <2>1 DEF Ending
  <2>5. ASSUME NEW p \in 1..Len(conn), NEW k \in DOMAIN conn'[p].inbox
        PROVE  ~LastHeard(conn[p].inbox[k].id)'
    <3>1. PICK j : j = conn'[p].inbox[k].id
      OBVIOUS
    <3>2. MadeOn(j, p) /\ j \in Id
      <4>1. MadeOn(j, p)
        BY <1>17, <3>1
      <4>2. Len(asker) \in Nat /\ Len(asker) <= MaxId /\ MaxId \in Nat
        BY <1>1, <1>2, AskersStay, RpcAssumption DEF Types, ClientTypes
      <4>3. QED
        BY <4>1, <4>2 DEF MadeOn, Id
    <3>3. ~LastHeard(j) /\ ~(j = r.id /\ r.final)
      <4>1. CASE p # o /\ conn'[p] = conn[p]
        BY <1>5, <2>1, <3>1, <3>2, <4>1 DEF MadeOn
      <4>2. CASE /\ p = o /\ k \in DOMAIN t /\ conn'[p].inbox[k] = x.inbox[k + 1]
                 /\ k + 1 \in DOMAIN x.inbox
        <5>1. k \in DOMAIN t /\ k \in Nat /\ 1 <= k /\ 1 < k + 1
          <6>1. DOMAIN t = 1..Len(t) /\ Len(t) \in Nat
            BY <1>6
          <6>2. QED
            BY <4>2, <6>1
        <5>2. PICK m : m = k + 1
          OBVIOUS
        <5>3. m \in DOMAIN x.inbox /\ 1 < m /\ x.inbox[m].id = j
          BY <3>1, <4>2, <5>1, <5>2
        <5>4. ~LastHeard(j)
          BY <1>3, <2>1, <4>2, <5>3
        <5>5. x.inbox[1].final => x.inbox[m].id # x.inbox[1].id
          BY <1>3, <1>5, <2>1, <5>3 DEF LastIsLast
        <5>6. QED
          BY <1>5, <5>3, <5>4, <5>5
      <4>3. QED
        BY <1>16, <4>1, <4>2
    <3>4. ~LastHeard(j)'
      BY <1>23, <3>2, <3>3
    <3>5. QED
      BY <3>1, <3>4 DEF LastHeard
  <2>6. ASSUME NEW p \in 1..Len(conn) PROVE LastIsLast(conn'[p].inbox)
    <3>1. CASE p # o
      BY <1>11, <2>1, <3>1
    <3>2. CASE p = o
      <4>1. LastIsLast(x.inbox)
        BY <1>3, <2>1, <3>2
      <4>2. \A k, l \in DOMAIN t : k < l => k + 1 < l + 1
        BY <1>7
      <4>3. LastIsLast(t)
        BY <1>7, <4>1, <4>2 DEF LastIsLast
      <4>4. QED
        BY <1>9, <1>11, <3>2, <4>3
    <3>3. QED
      BY <3>1, <3>2
  <2>7. QED
    BY <1>11, <2>3, <2>4, <2>5, <2>6 DEF SocketStages, UnderWay
<1>26. EndedIsForgotten' /\ GrpcStages'
  BY <1>1 DEF IndInv, CallsInv, EndedIsForgotten, GrpcStages, Redis, RabbitMQ, Grpc, Others
<1>27. QED
  BY <1>13, <1>14, <1>18, <1>23, <1>24, <1>25, <1>26 DEF IndInv, Types, CallsInv

LEMMA SocketHandleReadStep ==
  ASSUME IndInv, NEW o \in 1..Len(conn), SocketHandleRead(o), UNCHANGED Others
  PROVE  IndInv'
<1>1. /\ Socket /\ conn[o].alive
      /\ UNCHANGED <<kind, cur, lock, user, evicted, asker, server, queue, misused,
                     raced, belated, strayed>>
  BY DEF SocketHandleRead, undefVars
<1>2. CASE /\ conn[o].link = "broken" /\ conn' = [conn EXCEPT ![o].link = "dead"]
           /\ UNCHANGED heard
  <2>1. conn \in Seq(Connection) /\ strayed \in BOOLEAN
    BY <1>1, OverSockets
  <2>2. PICK x : x = conn[o]
    OBVIOUS
  <2>3. x \in Connection
    BY <2>1, <2>2, Entries
  <2>4. PICK y : y = [x EXCEPT !.link = "dead"]
    OBVIOUS
  <2>5. conn' = [conn EXCEPT ![o] = y]
    BY <1>2, <2>2, <2>4
  <2>6. y \in Connection /\ Kept(x, y) /\ y.inbox = x.inbox /\ y.hand = x.hand
    BY <2>3, <2>4 DEF Connection, Kept
  <2>7. OwnReplies(y, o)
    BY <2>2, <2>6 DEF OwnReplies, IndInv, RepliesAreTrue
  <2>8. QED
    BY <1>1, <1>2, <2>1, <2>2, <2>5, <2>6, <2>7, ConnectionAlone
<1>3. CASE ~(conn[o].link = "broken" /\ conn' = [conn EXCEPT ![o].link = "dead"] /\ UNCHANGED heard)
  <2>1. PICK r : r = Head(conn[o].inbox)
    OBVIOUS
  <2>2. /\ conn[o].inbox # <<>> /\ conn' = [conn EXCEPT ![o].inbox = Tail(@)]
        /\ heard' = [heard EXCEPT ![Head(conn[o].inbox).id] = @ \o SetToSeq(
             {[by |-> p[2], final |-> Head(conn[o].inbox).final, late |-> Late(o, p[1], p[2])] :
                p \in conn[o].clients})]
    BY <1>3, Zenon DEF SocketHandleRead
  <2>3. QED
    BY <1>1, <2>1, <2>2, SocketHearsStep DEF SocketHears
<1>4. QED
  BY <1>2, <1>3

\* The connections lose messages at most, and the servers have no more to do.
LEMMA SocketMessagesGo ==
  ASSUME IndInv, Socket, SameClients,
         UNCHANGED <<kind, cur, lock, user, asker, heard, evicted, misused, strayed, raced, belated,
                     Others>>,
         \A o \in 1..Len(conn) : /\ conn'[o].inbox = <<>> \/ conn'[o].inbox = conn[o].inbox
                                 /\ conn'[o].hand = conn[o].hand,
         ServerTypes', ServersInv',
         \A s \in Server : UnderWay(server'[s]) \subseteq UnderWay(server[s])
  PROVE  IndInv'
<1>1. /\ ~Grpc /\ ~Redis /\ ~RabbitMQ /\ Types /\ ClientsInv /\ Len(conn) \in Nat
      /\ strayed \in BOOLEAN
  BY OverSockets
<1>2. Longer /\ Len(conn') = Len(conn)
  BY DEF Longer, SameClients
<1>3. ClientTypes' /\ ClientsInv'
  BY <1>1, ClientsStay DEF Others
<1>4. \A o \in 1..Len(conn') :
        /\ conn'[o].inbox = <<>> \/ (o \in 1..Len(conn) /\ conn'[o].inbox = conn[o].inbox)
        /\ conn'[o].hand = <<>> \/ (o \in 1..Len(conn) /\ conn'[o].hand = conn[o].hand)
  BY <1>2
<1>5. RepliesAreTrue'
  BY <1>1, <1>2, <1>4, RepliesStay DEF IndInv
<1>6. \A s \in Server : \A i \in UnderWay(server'[s]) : i \in Id /\ i \in UnderWay(server[s])
  <2> SUFFICES ASSUME NEW s \in Server, NEW i \in UnderWay(server[s]) PROVE i \in Id
    OBVIOUS
  <2>1. server[s].inbox \in Seq(Id \X Nat) /\ server[s].work \in SUBSET Id
    BY <1>1 DEF Types, ServerTypes, Service
  <2>2. QED
    BY <2>1 DEF UnderWay
<1>7. HeardTypes' /\ CallsInv'
  BY <1>1, <1>2, <1>4, <1>6, CallsStay DEF IndInv, Others
<1>8. QED
  BY <1>3, <1>5, <1>7 DEF IndInv, Types

LEMMA SocketRemoveRpcClientStep ==
  ASSUME IndInv, NEW c \in Caller, SocketRemoveRpcClient(c), UNCHANGED Others
  PROVE  IndInv'
<1>1. /\ Socket /\ user[c].at = "ready" /\ lock = Nobody /\ cur' = 0
      /\ user' = [user EXCEPT ![c].left = TRUE] /\ Longer
      /\ UNCHANGED <<kind, lock, asker, heard, server, queue, misused, strayed, raced, belated>>
  BY DEF SocketRemoveRpcClient, undefVars, Longer
<1>2. /\ ~Grpc /\ ~Redis /\ ~RabbitMQ /\ Types /\ ClientsInv
      /\ conn \in Seq(Connection) /\ Len(conn) \in Nat /\ user \in [Caller -> Using]
      /\ cur \in 0..Len(conn)
  BY <1>1, OverSockets
<1>3. PICK u : u = [user[c] EXCEPT !.left = TRUE]
  OBVIOUS
<1>4. u \in Using /\ u.at = "ready" /\ u.o = user[c].o /\ u.num = user[c].num /\ u.left = TRUE
  <2>1. user[c] \in Using
    BY <1>2
  <2>2. QED
    BY <1>1, <1>3, <2>1 DEF Using
<1>5. user' = [user EXCEPT ![c] = u]
  BY <1>1, <1>3
<1>6. user' \in [Caller -> Using] /\ user'[c] = u /\ \A d \in Caller : d # c => user'[d] = user[d]
  BY <1>2, <1>4, <1>5, UserChanged
<1>7. \A d \in Caller :
        /\ user'[d].o = user[d].o /\ user'[d].num = user[d].num /\ user'[d].at = user[d].at
        /\ Numbered(d)' <=> Numbered(d)
  BY <1>1, <1>4, <1>6 DEF Numbered
<1>8. /\ conn' \in Seq(Connection) /\ Len(conn') = Len(conn)
      /\ \A o \in 1..Len(conn) :
           /\ conn'[o].counter = conn[o].counter /\ conn'[o].clients = conn[o].clients
           /\ conn'[o].table = conn[o].table /\ conn'[o].index = conn[o].index
           /\ conn'[o].inbox = conn[o].inbox /\ conn'[o].hand = conn[o].hand
           /\ ~conn'[o].alive
  <2>1. \A o \in 1..Len(conn) : conn[o].alive <=> o = cur
    BY <1>2 DEF ClientsInv, OneIsAlive
  <2>2. CASE cur = 0
    BY <1>2, <2>1, <2>2 DEF SocketRemoveRpcClient
  <2>3. CASE cur # 0
    <3>1. cur \in 1..Len(conn)
      BY <1>2, <2>3
    <3>2. PICK x : x = conn[cur]
      OBVIOUS
    <3>3. PICK y : y = [x EXCEPT !.alive = FALSE, !.running = FALSE]
      OBVIOUS
    <3>4. conn' = [conn EXCEPT ![cur] = y]
      BY <2>3, <3>2, <3>3 DEF SocketRemoveRpcClient
    <3>5. x \in Connection
      BY <1>2, <3>1, <3>2, Entries
    <3>6. /\ y \in Connection /\ y.counter = x.counter /\ y.clients = x.clients
          /\ y.table = x.table /\ y.index = x.index
          /\ y.inbox = x.inbox /\ y.hand = x.hand /\ y.alive = FALSE
      BY <3>3, <3>5 DEF Connection
    <3>7. /\ conn' \in Seq(Connection) /\ Len(conn') = Len(conn) /\ conn'[cur] = y
          /\ \A o \in 1..Len(conn) : o # cur => conn'[o] = conn[o]
      BY <1>2, <3>1, <3>4, <3>6, Changed
    <3>8. QED
      BY <2>1, <3>2, <3>6, <3>7
  <2>4. QED
    BY <2>2, <2>3
<1>9. /\ evicted' \subseteq Caller /\ evicted \subseteq evicted'
      /\ cur # 0 => \A d \in Caller : d # c /\ <<1, d>> \in conn[cur].clients => d \in evicted'
  <2>1. evicted \subseteq Caller
    BY <1>2 DEF Types, ClientTypes
  <2>2. evicted' = IF cur = 0 THEN evicted
                   ELSE evicted \cup {d \in Caller \ {c} : <<1, d>> \in conn[cur].clients}
    BY DEF SocketRemoveRpcClient
  <2>3. QED
    BY <2>1, <2>2
<1>10. ClientTypes'
  BY <1>1, <1>2, <1>6, <1>8, <1>9 DEF Types, ClientTypes, Others
<1>11. OneIsAlive'
  <2>1. \A o \in 1..Len(conn) : o # 0
    BY <1>2
  <2>2. QED
    BY <1>1, <1>2, <1>8, <2>1 DEF OneIsAlive, Grpc, RabbitMQ
<1>12. PointersAreTrue'
  <2>1. \A d \in Caller :
          /\ user[d].at \in {"adding", "ready", "asking"} => user[d].o \in 1..Len(conn)
          /\ Numbered(d) => user[d].num \in 1..conn[user[d].o].counter
    BY <1>2 DEF ClientsInv, PointersAreTrue
  <2>2. \A d \in Caller : Numbered(d) => user[d].num \in 1..conn'[user[d].o].counter
    BY <1>8, <2>1 DEF Numbered
  <2>3. \A d, e \in Caller : Numbered(d) /\ Numbered(e) /\ user[d].o = user[e].o
                             /\ user[d].num = user[e].num => d = e
    BY <1>2 DEF ClientsInv, PointersAreTrue
  <2>4. \A d \in Caller : user[d].at # "asking"
    BY <1>2 DEF ClientsInv, PointersAreTrue
  <2>5. QED
    BY <1>7, <1>8, <2>1, <2>2, <2>3, <2>4 DEF PointersAreTrue
<1>13. ClientsAreUsers'
  BY <1>8 DEF ClientsAreUsers
<1>14. UsersAreClients'
  <2> SUFFICES ASSUME NEW d \in Caller
               PROVE  /\ Numbered(d)' /\ ~user'[d].left /\ d \notin evicted' =>
                           IF conn'[user'[d].o].alive
                           THEN <<user'[d].num, d>> \in conn'[user'[d].o].clients ELSE raced'
                      /\ user'[d].at = "adding" /\ ~conn'[user'[d].o].alive => raced'
    BY DEF UsersAreClients
  <2>1. user'[d].at # "adding"
    BY <1>1, <1>2, <1>7 DEF ClientsInv, FixedClients
  <2>2. ASSUME Numbered(d)', ~user'[d].left, d \notin evicted'
        PROVE  raced /\ ~conn'[user'[d].o].alive
    <3>1. d # c /\ user'[d] = user[d] /\ Numbered(d) /\ d \notin evicted
      BY <1>4, <1>6, <1>7, <1>9, <2>2
    <3>2. user[d].o \in 1..Len(conn)
      BY <1>2, <3>1 DEF ClientsInv, PointersAreTrue, Numbered
    <3>3. ~conn'[user'[d].o].alive
      BY <1>8, <3>1, <3>2
    <3>4. IF conn[user[d].o].alive
          THEN <<user[d].num, d>> \in conn[user[d].o].clients ELSE raced
      BY <1>2, <2>2, <3>1 DEF ClientsInv, UsersAreClients
    <3>5. ~conn[user[d].o].alive
      <4> SUFFICES ASSUME conn[user[d].o].alive PROVE FALSE
        OBVIOUS
      <4>1. user[d].o = cur /\ cur # 0
        BY <1>2, <3>2 DEF ClientsInv, OneIsAlive
      <4>2. PICK e \in Caller : conn[user[d].o].clients = {<<1, e>>}
        BY <1>1, <1>2, <3>2 DEF ClientsInv, FixedClients
      <4>3. <<1, d>> \in conn[cur].clients
        BY <3>4, <4>1, <4>2
      <4>4. QED
        BY <1>9, <2>2, <3>1, <4>1, <4>3
    <3>6. QED
      BY <3>3, <3>4, <3>5
  <2>3. QED
    BY <1>1, <2>1, <2>2
<1>15. AskersAreTrue'
  <2> SUFFICES ASSUME NEW i \in 1..Len(asker)
               PROVE  asker[i].o \in 1..Len(conn') /\ asker[i].num \in 1..conn'[asker[i].o].counter
                      /\ ~conn'[asker[i].o].alive
    BY <1>1 DEF AskersAreTrue
  <2>1. asker[i].o \in 1..Len(conn) /\ asker[i].num \in 1..conn[asker[i].o].counter
    BY <1>2 DEF ClientsInv, AskersAreTrue
  <2>2. QED
    BY <1>8, <2>1
<1>16. TablesAreTrue'
  BY <1>1, <1>2, <1>8, <1>9, TablesStay DEF ClientsInv
<1>17. FixedClients' /\ FreedIsNotUsed'
  <2>1. /\ \A d \in Caller : user[d].at # "adding"
        /\ \A o \in 1..Len(conn) :
             conn[o].counter = 1 /\ \E d \in Caller : conn[o].clients = {<<1, d>>}
    BY <1>1, <1>2 DEF ClientsInv, FixedClients
  <2>2. FixedClients'
    <3>1. \A d \in Caller : user'[d].at # "adding"
      BY <1>7, <2>1
    <3>2. \A o \in 1..Len(conn') :
            conn'[o].counter = 1 /\ \E d \in Caller : conn'[o].clients = {<<1, d>>}
      BY <1>8, <2>1
    <3>3. QED
      BY <1>1, <1>2, <3>1, <3>2 DEF FixedClients, Grpc, Socket
  <2>3. FreedIsNotUsed'
    BY <1>1, <1>2, <1>9 DEF ClientsInv, FreedIsNotUsed, Socket, Redis
  <2>4. QED
    BY <2>2, <2>3
<1>18. ServerTypes' /\ ServersInv' /\ RepliesAreTrue' /\ HeardTypes' /\ CallsInv'
  BY <1>1, <1>2, <1>8, MessagesStay
<1>19. QED
  BY <1>10, <1>11, <1>12, <1>13, <1>14, <1>15, <1>16, <1>17, <1>18 DEF IndInv, Types, ClientsInv

\* A request over a socket is made, and sent if it can be.
LEMMA SocketAsksStep ==
  ASSUME IndInv, Socket, NEW c \in Caller, user[c].at = "ready", Len(asker) < MaxId,
         asker' = Append(asker, AsCaller(c)),
         server' = [s \in Server |->
           IF server[s].up /\ conn[user[c].o].link = "up"
           THEN [server[s] EXCEPT !.inbox = Append(@, <<Len(asker) + 1, user[c].o>>)]
           ELSE server[s]],
         belated' = (belated \/ user[c].left),
         UNCHANGED <<kind, clientVars, heard, queue, misused, strayed, raced, Others>>
  PROVE  IndInv'
<1>1. /\ ~Grpc /\ ~Redis /\ ~RabbitMQ /\ Types /\ ClientsInv /\ ServersInv
      /\ conn \in Seq(Connection) /\ Len(conn) \in Nat /\ user \in [Caller -> Using]
      /\ asker \in Seq(Asking) /\ belated \in BOOLEAN
  BY OverSockets
<1>2. PICK o : o = user[c].o
  OBVIOUS
<1>3. PICK i : i = Len(asker) + 1
  OBVIOUS
<1>4. PICK a : a = AsCaller(c)
  OBVIOUS
<1>5. user[c] \in Using /\ o \in Nat /\ user[c].left \in BOOLEAN
  <2>1. user[c] \in Using
    BY <1>1
  <2>2. QED
    BY <1>2, <2>1 DEF Using
<1>6. a \in Asking /\ a.by = c /\ a.o = o /\ a.num = user[c].num
  BY <1>2, <1>4, <1>5 DEF AsCaller, Asking, Using
<1>7. i \in Id /\ i \notin 1..Len(asker) /\ i \in Nat
  BY <1>1, <1>3, RpcAssumption DEF Id
<1>8. asker' = Append(asker, a)
  BY <1>4
<1>9. Longer
  BY <1>6, <1>8 DEF Longer
<1>10. /\ asker' \in Seq(Asking) /\ Len(asker') = i /\ asker'[i] = a
       /\ \A j \in 1..Len(asker) : asker'[j] = asker[j] /\ j \in 1..Len(asker')
       /\ \A j \in 1..Len(asker') : j \in 1..Len(asker) \/ j = i
       /\ i \in 1..Len(asker') /\ Len(asker') <= MaxId
  <2>1. /\ asker' \in Seq(Asking) /\ Len(asker') = i /\ asker'[i] = a
        /\ \A j \in 1..Len(asker) : asker'[j] = asker[j]
    BY <1>1, <1>3, <1>6, <1>8, Added
  <2>2. QED
    BY <1>1, <1>3, <2>1, RpcAssumption
<1>11. /\ UNCHANGED <<kind, conn, cur, lock, user, evicted, heard, queue, misused, strayed, raced, Others>>
       /\ belated' \in BOOLEAN /\ (belated => belated')
  BY <1>1, <1>5 DEF clientVars
<1>12. ClientTypes'
  BY <1>1, <1>10, <1>11 DEF Types, ClientTypes, Others
<1>13. Numbered(c) /\ o \in 1..Len(conn) /\ user[c].num \in 1..conn[o].counter
  BY <1>1, <1>2 DEF ClientsInv, PointersAreTrue, Numbered
<1>14. OneIsAlive' /\ PointersAreTrue' /\ ClientsAreUsers' /\ UsersAreClients'
  <2>1. \A d \in Caller : user[d].at # "asking"
    BY <1>1 DEF ClientsInv, PointersAreTrue
  <2>2. OneIsAlive' /\ ClientsAreUsers' /\ UsersAreClients'
    BY <1>1, <1>11 DEF ClientsInv, OneIsAlive, ClientsAreUsers, UsersAreClients, Numbered, Grpc,
       RabbitMQ
  <2>3. PointersAreTrue'
    BY <1>1, <1>11, <2>1 DEF ClientsInv, PointersAreTrue, Numbered, Grpc, Redis, RabbitMQ
  <2>4. QED
    BY <2>2, <2>3
<1>15. AskersAreTrue'
  <2> SUFFICES ASSUME NEW j \in 1..Len(asker')
               PROVE  /\ asker'[j].o \in 1..Len(conn)
                      /\ asker'[j].num \in 1..conn[asker'[j].o].counter
                      /\ conn[asker'[j].o].alive => \A p \in conn[asker'[j].o].clients :
                           p[1] = asker'[j].num => p[2] = asker'[j].by
    BY <1>11 DEF AskersAreTrue
  <2>1. CASE j \in 1..Len(asker)
    <3>1. asker'[j] = asker[j]
      BY <1>10, <2>1
    <3>2. QED
      BY <1>1, <2>1, <3>1 DEF ClientsInv, AskersAreTrue
  <2>2. CASE j = i
    <3>1. asker'[j].o = o /\ asker'[j].num = user[c].num /\ asker'[j].by = c
      BY <1>6, <1>10, <2>2
    <3>2. ASSUME conn[o].alive, NEW p \in conn[o].clients, p[1] = user[c].num
          PROVE  p[2] = c
      <4>1. Numbered(p[2]) /\ user[p[2]].o = o /\ user[p[2]].num = p[1]
        BY <1>1, <1>13, <3>2 DEF ClientsInv, ClientsAreUsers
      <4>2. p[2] \in Caller
        BY <1>1, <1>13, Entries
      <4>3. QED
        BY <1>1, <1>2, <1>13, <3>2, <4>1, <4>2 DEF ClientsInv, PointersAreTrue
    <3>3. QED
      BY <1>13, <3>1, <3>2
  <2>3. QED
    BY <1>10, <2>1, <2>2
<1>16. TablesAreTrue'
  <2>1. \A q \in 1..Len(conn) : conn[q].table = {} /\ conn[q].index = {<<p[2], p[1]>> : p \in conn[q].table}
    BY <1>1 DEF ClientsInv, TablesAreTrue
  <2>2. QED
    BY <1>11, <2>1 DEF TablesAreTrue
<1>17. FixedClients' /\ FreedIsNotUsed'
  <2>1. FixedClients /\ FreedIsNotUsed
    BY <1>1 DEF ClientsInv
  <2>2. FixedClients'
    BY <1>1, <1>11, <2>1 DEF FixedClients, Grpc, Socket
  <2>3. FreedIsNotUsed'
    BY <1>1, <1>11, <2>1 DEF FreedIsNotUsed, Redis, Socket
  <2>4. QED
    BY <2>2, <2>3
<1>18. MadeOn(i, o)'
  BY <1>6, <1>10 DEF MadeOn
<1>19. \A s \in Server : i \notin UnderWay(server[s])
  <2> SUFFICES ASSUME NEW s \in Server, i \in UnderWay(server[s]) PROVE i \in 1..Len(asker)
    BY <1>7
  <2>1. GoodService(server[s])
    BY <1>1 DEF ServersInv
  <2>2. QED
    BY <2>1 DEF GoodService, UnderWay, MadeOn
<1>20. /\ ServerTypes' /\ ServersInv'
       /\ \A s \in Server : UnderWay(server'[s]) \subseteq UnderWay(server[s]) \cup {i}
  <2>1. server' = [s \in Server |-> server'[s]]
    OBVIOUS
  <2>2. \A s \in Server :
          \/ server'[s] = server[s]
          \/ /\ server[s].up /\ (Socket \/ Grpc => i \notin UnderWay(server[s]))
             /\ server'[s] = [server[s] EXCEPT !.inbox = Append(@, <<i, o>>)]
    BY <1>2, <1>3, <1>19
  <2>3. QED
    BY <1>1, <1>5, <1>7, <1>9, <1>11, <1>18, <2>1, <2>2, ServersGet
<1>21. RepliesAreTrue'
  BY <1>1, <1>9, <1>11, RepliesStay DEF IndInv
<1>22. \A s \in Server : \A j \in UnderWay(server'[s]) :
         j \in Id /\ (j \in UnderWay(server[s]) \/ j \notin 1..Len(asker))
  <2> SUFFICES ASSUME NEW s \in Server, NEW j \in UnderWay(server[s]) PROVE j \in Id
    BY <1>7, <1>20
  <2>1. server[s].inbox \in Seq(Id \X Nat) /\ server[s].work \in SUBSET Id
    BY <1>1 DEF Types, ServerTypes, Service
  <2>2. QED
    BY <2>1 DEF UnderWay
<1>23. HeardTypes' /\ CallsInv'
  BY <1>1, <1>9, <1>11, <1>22, CallsStay DEF IndInv, Others
<1>24. QED
  BY <1>12, <1>14, <1>15, <1>16, <1>17, <1>20, <1>21, <1>23 DEF IndInv, Types, ClientsInv

LEMMA SocketSendRequestStep ==
  ASSUME IndInv, NEW c \in Caller, SocketSendRequest(c), UNCHANGED Others
  PROVE  IndInv'
<1>1. Socket /\ ~Grpc /\ user[c].at = "ready" /\ Len(asker) < MaxId
  BY DEF SocketSendRequest, Socket, Grpc
<1>2. CASE ~conn[user[c].o].alive /\ Misuse(c)
  BY <1>1, <1>2, MisuseStep
<1>3. CASE /\ asker' = Append(asker, AsCaller(c))
           /\ server' = [s \in Server |->
                IF server[s].up /\ conn[user[c].o].link = "up"
                THEN [server[s] EXCEPT !.inbox = Append(@, <<Len(asker) + 1, user[c].o>>)]
                ELSE server[s]]
           /\ belated' = (belated \/ user[c].left)
           /\ UNCHANGED <<kind, clientVars, heard, queue, faults, misused, strayed, raced>>
  BY <1>1, <1>3, SocketAsksStep
<1>4. QED
  BY <1>2, <1>3 DEF SocketSendRequest

\* A connection over a socket breaks: no message of it is on its way any more.
LEMMA SocketBreaksStep ==
  ASSUME IndInv, NEW o \in 1..Len(conn), SocketBreaks(o), UNCHANGED Others
  PROVE  IndInv'
<1>1. /\ Socket
      /\ UNCHANGED <<kind, cur, lock, user, asker, heard, evicted, queue, misused, strayed, raced,
                     belated>>
  BY DEF SocketBreaks, undefVars
<1>2. /\ ~Grpc /\ ~Redis /\ ~RabbitMQ /\ Types /\ ServersInv
      /\ conn \in Seq(Connection) /\ server \in [Server -> Service] /\ Longer
  BY <1>1, OverSockets DEF Longer
<1>3. PICK x : x = conn[o]
  OBVIOUS
<1>4. x \in Connection /\ <<>> \in Seq(Reply)
  BY <1>2, <1>3, Entries
<1>5. PICK y : y = [x EXCEPT !.link = "broken", !.inbox = <<>>]
  OBVIOUS
<1>6. y \in Connection /\ Kept(x, y) /\ y.inbox = <<>> /\ y.hand = x.hand
  BY <1>4, <1>5 DEF Connection, Kept
<1>7. conn' = [conn EXCEPT ![o] = y]
  BY <1>3, <1>5 DEF SocketBreaks
<1>8. /\ conn' \in Seq(Connection) /\ Len(conn') = Len(conn) /\ conn'[o] = y
      /\ \A p \in 1..Len(conn) : p # o => conn'[p] = conn[p]
  BY <1>2, <1>6, <1>7, Changed
<1>9. /\ SameClients
      /\ \A p \in 1..Len(conn) : /\ conn'[p].inbox = <<>> \/ conn'[p].inbox = conn[p].inbox
                                 /\ conn'[p].hand = conn[p].hand
  BY <1>3, <1>6, <1>8 DEF SameClients, Kept
<1>10. ASSUME NEW s \in Server
       PROVE  /\ server'[s] \in Service /\ (server'[s].up <=> server[s].up)
              /\ GoodService(server[s])'
              /\ UnderWay(server'[s]) \subseteq UnderWay(server[s])
  <2>1. PICK z : z = server[s]
    OBVIOUS
  <2>2. z \in Service /\ z.inbox \in Seq(Id \X Nat) /\ GoodService(z)
    BY <1>2, <2>1 DEF Service, ServersInv
  <2>3. PICK q, b : q = Without(b, o) /\ b = z.inbox
    OBVIOUS
  <2>4. /\ q \in Seq(Id \X Nat)
        /\ \A k \in DOMAIN q : \E j \in DOMAIN z.inbox : q[k] = z.inbox[j]
        /\ (\A k, l \in DOMAIN z.inbox : z.inbox[k][1] = z.inbox[l][1] => k = l) =>
             \A k, l \in DOMAIN q : q[k][1] = q[l][1] => k = l
    <3>1. b \in Seq(Id \X Nat)
      BY <2>2, <2>3
    <3>2. /\ Without(b, o) \in Seq(Id \X Nat)
          /\ \A k \in DOMAIN Without(b, o) : \E j \in DOMAIN b :
               Without(b, o)[k] = b[j] /\ b[j][2] # o
          /\ (\A k, l \in DOMAIN b : b[k][1] = b[l][1] => k = l) =>
               \A k, l \in DOMAIN Without(b, o) :
                 Without(b, o)[k][1] = Without(b, o)[l][1] => k = l
      BY <3>1, WithoutKeeps
    <3>3. QED
      BY <2>3, <3>2
  <2>5. PICK w : w = [z EXCEPT !.inbox = q]
    OBVIOUS
  <2>6. server'[s] = w
    BY <2>1, <2>3, <2>5 DEF SocketBreaks
  <2>7. /\ w \in Service /\ w.inbox = q /\ w.up = z.up /\ w.table = z.table
        /\ w.index = z.index /\ w.work = z.work
    BY <2>2, <2>4, <2>5 DEF Service
  <2>8. /\ \A k \in DOMAIN z.inbox : MadeOn(z.inbox[k][1], z.inbox[k][2])
        /\ \A p \in z.table : MadeOn(p[1], p[2])
        /\ z.work \subseteq 1..Len(asker)
        /\ ~z.up => z.inbox = <<>> /\ z.work = {}
        /\ z.index = {<<p[2], p[1]>> : p \in z.table}
        /\ \A k, l \in DOMAIN z.inbox : z.inbox[k][1] = z.inbox[l][1] => k = l
        /\ \A k \in DOMAIN z.inbox : z.inbox[k][1] \notin z.work
    BY <1>1, <2>2 DEF GoodService
  <2>9. ~w.up => w.inbox = <<>> /\ w.work = {}
    <3>1. z.inbox = <<>> => DOMAIN z.inbox = {}
      OBVIOUS
    <3>2. DOMAIN q = {} => q = <<>>
      BY <2>4
    <3>3. QED
      BY <2>4, <2>7, <2>8, <3>1, <3>2
  <2>10. GoodService(w)
    BY <1>1, <1>2, <2>4, <2>7, <2>8, <2>9 DEF GoodService
  <2>11. GoodService(w)'
    BY <1>1, <1>2, <2>10, ServicesStay
  <2>12. UnderWay(w) \subseteq UnderWay(z)
    BY <2>4, <2>7 DEF UnderWay
  <2>13. QED
    BY <2>1, <2>6, <2>7, <2>11, <2>12 DEF GoodService
<1>11. server' \in [Server -> Service]
  BY <1>10 DEF SocketBreaks
<1>12. OneServer'
  <2>1. \A s, t \in Server : server[s].up /\ server[t].up => s = t
    BY <1>1, <1>2 DEF ServersInv, OneServer
  <2>2. \A s, t \in Server : server'[s].up /\ server'[t].up => s = t
    BY <1>10, <2>1
  <2>3. QED
    BY <2>2 DEF OneServer
<1>13. queue' \in Seq(Id \X Nat) /\ QueueIsTrue'
  BY <1>1, QueueStays
<1>14. ServerTypes' /\ ServersInv'
  BY <1>1, <1>2, <1>10, <1>11, <1>12, <1>13, ServersStep
<1>15. QED
  BY <1>1, <1>9, <1>10, <1>14, SocketMessagesGo

\* The server of the socket ends, and its connections break.
LEMMA SocketServerDiesStep ==
  ASSUME IndInv, NEW s \in Server, SocketServerDies(s), UNCHANGED Others
  PROVE  IndInv'
<1>1. /\ Socket /\ server' = [server EXCEPT ![s] = Down]
      /\ UNCHANGED <<kind, cur, lock, user, asker, heard, evicted, queue, misused, strayed, raced,
                     belated>>
  BY DEF SocketServerDies, undefVars
<1>2. /\ ~Grpc /\ ~Redis /\ ~RabbitMQ /\ Types /\ ServersInv /\ Len(conn) \in Nat
      /\ conn \in Seq(Connection) /\ server \in [Server -> Service] /\ Longer
  BY <1>1, OverSockets DEF Longer
<1>3. ASSUME NEW o \in 1..Len(conn)
      PROVE  /\ conn'[o] \in Connection /\ Kept(conn[o], conn'[o])
             /\ conn'[o].inbox = <<>> \/ conn'[o].inbox = conn[o].inbox
             /\ conn'[o].hand = conn[o].hand
  <2>1. PICK x : x = conn[o]
    OBVIOUS
  <2>2. x \in Connection /\ <<>> \in Seq(Reply)
    BY <1>2, <2>1, Entries
  <2>3. PICK y : y = [x EXCEPT !.link = "broken", !.inbox = <<>>]
    OBVIOUS
  <2>4. y \in Connection /\ Kept(x, y) /\ y.inbox = <<>> /\ y.hand = x.hand
    BY <2>2, <2>3 DEF Connection, Kept
  <2>5. conn'[o] = x \/ conn'[o] = y
    BY <2>1, <2>3 DEF SocketServerDies
  <2>6. Kept(x, x)
    BY DEF Kept
  <2>7. QED
    BY <2>1, <2>2, <2>4, <2>5, <2>6
<1>4. conn' \in Seq(Connection) /\ Len(conn') = Len(conn)
  <2>1. conn' \in [1..Len(conn) -> Connection]
    BY <1>3 DEF SocketServerDies
  <2>2. QED
    BY <1>2, <2>1
<1>5. SameClients
  BY <1>3, <1>4 DEF SameClients, Kept
<1>6. ServerTypes' /\ ServersInv'
  <2>1. queue' \in Seq(Id \X Nat) /\ QueueIsTrue'
    BY <1>1, QueueStays
  <2>2. QED
    BY <1>1, <1>2, <2>1, OneServerStep, DownIsGood
<1>7. \A t \in Server : UnderWay(server'[t]) \subseteq UnderWay(server[t])
  <2> SUFFICES ASSUME NEW t \in Server PROVE UnderWay(server'[t]) \subseteq UnderWay(server[t])
    OBVIOUS
  <2>1. CASE t = s
    BY <1>1, <1>2, <2>1, DownIsGood
  <2>2. CASE t # s
    BY <1>1, <1>2, <2>2
  <2>3. QED
    BY <2>1, <2>2
<1>8. QED
  BY <1>1, <1>3, <1>5, <1>6, <1>7, SocketMessagesGo

LEMMA SocketRpcServerStep ==
  ASSUME IndInv, NEW s \in Server, SocketRpcServer(s), UNCHANGED Others
  PROVE  IndInv'
BY ServerStartsStep DEF SocketRpcServer

-----------------------------------------------------------------------------
(* The calls of gRPC.                                                      *)

\* What holds of every state of gRPC.
LEMMA OverGrpc ==
  ASSUME IndInv, Grpc
  PROVE  /\ ~Socket /\ ~Redis /\ ~RabbitMQ /\ Types /\ ClientsInv /\ ServersInv
         /\ conn \in Seq(Connection) /\ Len(conn) \in Nat /\ user \in [Caller -> Using]
         /\ asker \in Seq(Asking) /\ cur \in 0..Len(conn) /\ server \in [Server -> Service]
         /\ {misused, strayed, raced, belated} \subseteq BOOLEAN /\ lock = Nobody
         /\ reactor \in [Id -> Reactor] /\ heard \in [Id -> Seq(Call)] /\ HeardInv
         /\ \A i \in Id : /\ Writing(reactor[i]) /\ GoodCall(i, reactor[i], heard[i])
                          /\ LastQueued(reactor[i]) => \A s \in Server : i \notin UnderWay(server[s])
<1>1. ~Socket /\ ~Redis /\ ~RabbitMQ
  BY DEF Socket, Redis, RabbitMQ, Grpc
<1>2. /\ Types /\ ClientsInv /\ ServersInv
      /\ conn \in Seq(Connection) /\ Len(conn) \in Nat /\ user \in [Caller -> Using]
      /\ asker \in Seq(Asking) /\ cur \in 0..Len(conn) /\ server \in [Server -> Service]
      /\ {misused, strayed, raced, belated} \subseteq BOOLEAN
  BY DEF IndInv, Types, ClientTypes, ServerTypes
<1>3. lock = Nobody
  BY <1>2 DEF ClientsInv, FixedClients
<1>4. reactor \in [Id -> Reactor] /\ heard \in [Id -> Seq(Call)] /\ HeardInv
  BY <1>2 DEF IndInv, CallsInv, Types, HeardTypes
<1>5. \A i \in Id : /\ Writing(reactor[i]) /\ GoodCall(i, reactor[i], heard[i])
                    /\ LastQueued(reactor[i]) => \A s \in Server : i \notin UnderWay(server[s])
  BY DEF IndInv, CallsInv, GrpcStages
<1>6. QED
  BY <1>1, <1>2, <1>3, <1>4, <1>5

\* The clients stay as they are.
LEMMA GrpcClientsStay ==
  ASSUME IndInv, Grpc, UNCHANGED <<kind, clientVars, asker, undefVars, role>>
  PROVE  ClientTypes' /\ ClientsInv' /\ RepliesAreTrue' /\ Longer
<1>1. /\ Types /\ ClientsInv /\ conn \in Seq(Connection) /\ strayed \in BOOLEAN /\ Longer
  BY OverGrpc DEF Longer
<1>2. UNCHANGED <<kind, conn, cur, lock, user, asker, evicted, misused, strayed, raced, belated, role>>
  BY DEF clientVars, undefVars
<1>3. SameClients
  BY <1>1, <1>2 DEF SameClients
<1>4. ClientTypes' /\ ClientsInv'
  BY <1>1, <1>2, <1>3, ClientsStay
<1>5. RepliesAreTrue'
  BY <1>1, <1>2, RepliesStay DEF IndInv
<1>6. QED
  BY <1>1, <1>4, <1>5

\* What a step has to keep of the calls.
GoodCalls ==
  /\ reactor \in [Id -> Reactor] /\ heard \in [Id -> Seq(Call)] /\ HeardInv
  /\ \A i \in Id : /\ Writing(reactor[i]) /\ GoodCall(i, reactor[i], heard[i])
                   /\ LastQueued(reactor[i]) => \A s \in Server : i \notin UnderWay(server[s])

LEMMA GoodCallsAre ==
  ASSUME IndInv, Grpc, kind' = kind, single' = single, ClientTypes', ClientsInv', ServerTypes',
         ServersInv', RepliesAreTrue', GoodCalls'
  PROVE  IndInv'
<1>1. single \in BOOLEAN /\ ~Redis /\ ~RabbitMQ /\ ~Socket
  BY OverGrpc DEF Types, HeardTypes
<1>2. HeardTypes' /\ HeardInv'
  BY <1>1 DEF GoodCalls, HeardTypes
<1>3. EndedIsForgotten' /\ SocketStages'
  BY <1>1 DEF EndedIsForgotten, SocketStages, Redis, RabbitMQ, Socket
<1>4. GrpcStages'
  BY DEF GoodCalls, GrpcStages
<1>5. QED
  BY <1>2, <1>3, <1>4 DEF IndInv, Types, CallsInv

\* The callbacks were told h of a call, none of it after the last.
EndsOnce(h) == \A k \in DOMAIN h : h[k].final => k = Len(h)

\* A step of one call.
LEMMA OneCallStep ==
  ASSUME IndInv, Grpc, UNCHANGED <<kind, asker, role, single>>, NEW i \in Id, NEW x \in Reactor,
         reactor' = [reactor EXCEPT ![i] = x], NEW h \in Seq(Call),
         heard' = [heard EXCEPT ![i] = h], i \in 1..Len(asker) \/ h = <<>>, EndsOnce(h),
         GoodCall(i, x, h), Writing(x),
         LastQueued(x) => \A s \in Server : i \notin UnderWay(server'[s]),
         \A s \in Server : UnderWay(server'[s]) \subseteq UnderWay(server[s])
  PROVE  GoodCalls'
<1>1. /\ reactor \in [Id -> Reactor] /\ heard \in [Id -> Seq(Call)] /\ HeardInv
      /\ \A j \in Id : /\ Writing(reactor[j]) /\ GoodCall(j, reactor[j], heard[j])
                       /\ LastQueued(reactor[j]) => \A s \in Server : j \notin UnderWay(server[s])
  BY OverGrpc
<1>2. /\ reactor' \in [Id -> Reactor] /\ reactor'[i] = x
      /\ \A j \in Id : j # i => reactor'[j] = reactor[j]
  BY <1>1
<1>3. /\ heard' \in [Id -> Seq(Call)] /\ heard'[i] = h
      /\ \A j \in Id : j # i => heard'[j] = heard[j]
  BY <1>1
<1>4. HeardInv'
  <2> SUFFICES ASSUME NEW j \in Id
               PROVE  /\ j \notin 1..Len(asker) => heard'[j] = <<>>
                      /\ \A k \in DOMAIN heard'[j] : heard'[j][k].final => k = Len(heard'[j])
    BY DEF HeardInv, Grpc
  <2>1. CASE j = i
    BY <1>3, <2>1 DEF EndsOnce
  <2>2. CASE j # i
    BY <1>1, <1>3, <2>2 DEF HeardInv
  <2>3. QED
    BY <2>1, <2>2
<1>5. ASSUME NEW j \in Id
      PROVE  /\ Writing(reactor'[j]) /\ GoodCall(j, reactor[j], heard[j])'
             /\ LastQueued(reactor'[j]) => \A s \in Server : j \notin UnderWay(server'[s])
  <2>1. PICK y : y = reactor'[j]
    OBVIOUS
  <2>2. PICK g : g = heard'[j]
    OBVIOUS
  <2>3. /\ Writing(y) /\ GoodCall(j, y, g)
        /\ LastQueued(y) => \A s \in Server : j \notin UnderWay(server'[s])
    <3>1. CASE j = i
      BY <1>2, <1>3, <2>1, <2>2, <3>1
    <3>2. CASE j # i
      BY <1>1, <1>2, <1>3, <2>1, <2>2, <3>2
    <3>3. QED
      BY <3>1, <3>2
  <2>4. GoodCall(j, y, g)'
    BY <2>3 DEF GoodCall
  <2>5. QED
    BY <2>1, <2>2, <2>3, <2>4 DEF GoodCall
<1>6. QED
  BY <1>2, <1>3, <1>4, <1>5 DEF GoodCalls

\* A step of one call that the servers do not see.
LEMMA CallAlone ==
  ASSUME IndInv, Grpc, UNCHANGED <<kind, clientVars, asker, undefVars, server, queue, role, single>>,
         NEW i \in Id, i \in 1..Len(asker), NEW x \in Reactor,
         reactor' = [reactor EXCEPT ![i] = x], NEW h \in Seq(Call),
         heard' = [heard EXCEPT ![i] = h], EndsOnce(h),
         GoodCall(i, x, h), Writing(x), LastQueued(x) => LastQueued(reactor[i])
  PROVE  IndInv'
<1>1. ClientTypes' /\ ClientsInv' /\ RepliesAreTrue' /\ Longer
  BY GrpcClientsStay
<1>2. ServerTypes' /\ ServersInv'
  BY <1>1, OverGrpc, ServersStay
<1>3. LastQueued(x) => \A s \in Server : i \notin UnderWay(server'[s])
  BY OverGrpc
<1>4. \A s \in Server : UnderWay(server'[s]) \subseteq UnderWay(server[s])
  OBVIOUS
<1>5. GoodCalls'
  BY <1>3, <1>4, OneCallStep
<1>6. QED
  BY <1>1, <1>2, <1>5, GoodCallsAre

Final(h) == \E k \in DOMAIN h : h[k].final
Belated(h) == \E k \in DOMAIN h : h[k].late
OnceBelated(h) == \A k, l \in DOMAIN h : h[k].late /\ h[l].late => k = l

\* What is known of one call.
LEMMA OneReactor ==
  ASSUME IndInv, Grpc, NEW i \in Id
  PROVE  /\ reactor[i] \in Reactor /\ heard[i] \in Seq(Call) /\ EndsOnce(heard[i])
         /\ reactor \in [Id -> Reactor] /\ heard \in [Id -> Seq(Call)]
         /\ Writing(reactor[i]) /\ GoodCall(i, reactor[i], heard[i])
         /\ heard = [heard EXCEPT ![i] = heard[i]]
<1>1. /\ reactor \in [Id -> Reactor] /\ heard \in [Id -> Seq(Call)] /\ HeardInv
      /\ Writing(reactor[i]) /\ GoodCall(i, reactor[i], heard[i])
  BY OverGrpc
<1>2. EndsOnce(heard[i])
  BY <1>1 DEF HeardInv, EndsOnce
<1>3. QED
  BY <1>1, <1>2

LEMMA GoodCallIs ==
  ASSUME NEW i, NEW x, NEW h
  PROVE  GoodCall(i, x, h) <=>
           /\ i \notin 1..Len(asker) => x = NoReactor
           /\ Final(h) => x.at = "over" \/ (single /\ x.reads = 1 /\ role[asker[i].by] = "native")
           /\ OnceBelated(h)
           /\ Belated(h) => x.stopped /\ x.hand = "none"
BY DEF GoodCall, Final, Belated, OnceBelated

\* One thing more is told, of which nothing was told for the last time.
LEMMA OneTold ==
  ASSUME NEW h \in Seq(Call), NEW y \in Call, ~Final(h)
  PROVE  /\ Append(h, y) \in Seq(Call) /\ EndsOnce(Append(h, y))
         /\ Final(Append(h, y)) => y.final
         /\ Belated(Append(h, y)) => Belated(h) \/ y.late
         /\ OnceBelated(h) /\ (~Belated(h) \/ ~y.late) => OnceBelated(Append(h, y))
<1>1. PICK g : g = Append(h, y)
  OBVIOUS
<1>2. g \in Seq(Call) /\ Len(g) = Len(h) + 1
  BY <1>1, Added
<1>3. \A k \in DOMAIN g : \/ k \in DOMAIN h /\ g[k] = h[k]
                          \/ k = Len(h) + 1 /\ g[k] = y
  BY <1>1, AddedOne
<1>4. EndsOnce(g) /\ (Final(g) => y.final) /\ (Belated(g) => Belated(h) \/ y.late)
  BY <1>2, <1>3 DEF EndsOnce, Final, Belated
<1>5. OnceBelated(h) /\ (~Belated(h) \/ ~y.late) => OnceBelated(g)
  BY <1>3 DEF OnceBelated, Belated
<1>6. QED
  BY <1>1, <1>2, <1>4, <1>5

\* The callback belongs to one of the clients.
LEMMA SomeClient ==
  ASSUME IndInv, Grpc, NEW i \in 1..Len(asker), role[asker[i].by] \in {"remote", "facility"}
  PROVE  (CHOOSE p \in conn[asker[i].o].clients : TRUE)[2] \in Caller
<1>1. /\ conn \in Seq(Connection) /\ asker \in Seq(Asking) /\ FixedClients
  BY OverGrpc DEF ClientsInv
<1>2. asker[i] \in Asking
  BY <1>1
<1>3. asker[i].by \in Caller
  BY <1>2 DEF Asking
<1>4. asker[i].o \in 1..Len(conn)
  BY <1>1, <1>3 DEF FixedClients
<1>5. conn[asker[i].o].clients # {}
  BY <1>1, <1>4 DEF FixedClients
<1>6. (CHOOSE p \in conn[asker[i].o].clients : TRUE) \in conn[asker[i].o].clients
  BY <1>5
<1>7. QED
  BY <1>1, <1>4, <1>6, Entries

\* The reader takes what there is to read, and the callback hears of it.
LEMMA GrpcOnReadDoneStep ==
  ASSUME IndInv, NEW i \in 1..Len(asker), i \in Id, GrpcOnReadDone(i),
         role[asker[i].by] \in {"remote", "facility"}, UNCHANGED <<role, single>>
  PROVE  IndInv'
<1>1. /\ Grpc /\ reactor[i].at = "open"
      /\ UNCHANGED <<kind, clientVars, asker, undefVars, server, queue>>
  BY DEF GrpcOnReadDone
<1>2. PICK r : r = reactor[i]
  OBVIOUS
<1>3. PICK h : h = heard[i]
  OBVIOUS
<1>4. /\ r \in Reactor /\ h \in Seq(Call) /\ EndsOnce(h) /\ Writing(r) /\ GoodCall(i, r, h)
      /\ reactor \in [Id -> Reactor] /\ heard = [heard EXCEPT ![i] = h]
  BY <1>1, <1>2, <1>3, OneReactor
<1>5. ~Final(h) /\ OnceBelated(h) /\ (Belated(h) => r.stopped /\ r.hand = "none")
  BY <1>1, <1>2, <1>4, GoodCallIs
<1>6. CASE reactor[i].hand = "none" /\ Readable(i)
  <2>1. PICK d : d \in {"none", "reply"} /\ d = IF r.stopped THEN "none" ELSE "reply"
    OBVIOUS
  <2>2. PICK w : w \in Nat /\ w = r.wire - 1
    BY <1>2, <1>4, <1>6 DEF Reactor, Readable
  <2>3. PICK x : x = [r EXCEPT !.wire = w, !.reads = 1, !.hand = d]
    OBVIOUS
  <2>4. /\ x \in Reactor /\ x.at = r.at /\ x.stopped = r.stopped /\ x.hand = d
        /\ x.writes = r.writes /\ x.resps = r.resps
    <3>1. /\ r \in Reactor /\ w \in Nat /\ d \in {"none", "reply", "done"} /\ 1 \in 0..1
      BY <1>4, <2>1, <2>2
    <3>2. QED
      BY <2>3, <3>1 DEF Reactor
  <2>5. reactor' = [reactor EXCEPT ![i] = x] /\ heard' = heard
    BY <1>2, <1>4, <1>6, <2>1, <2>2, <2>3 DEF GrpcOnReadDone
  <2>6. GoodCall(i, x, h)
    BY <1>5, <2>1, <2>4, GoodCallIs
  <2>7. Writing(x) /\ (LastQueued(x) => LastQueued(r))
    BY <1>4, <2>4 DEF Writing, LastQueued
  <2>8. QED
    BY <1>1, <1>2, <1>4, <2>4, <2>5, <2>6, <2>7, CallAlone
<1>7. CASE reactor[i].hand = "reply"
  <2>1. PICK b : b \in Caller /\ b = (CHOOSE p \in conn[asker[i].o].clients : TRUE)[2]
    BY <1>1, SomeClient
  <2>2. PICK y : y = [by |-> b, final |-> FALSE, late |-> r.stopped]
    OBVIOUS
  <2>3. y \in Call /\ y.final = FALSE /\ y.late = r.stopped
    BY <1>4, <2>1, <2>2 DEF Call, Reactor
  <2>4. PICK x : x = [r EXCEPT !.hand = "none"]
    OBVIOUS
  <2>5. /\ x \in Reactor /\ x.stopped = r.stopped /\ x.hand = "none"
        /\ x.writes = r.writes /\ x.resps = r.resps
    BY <1>4, <2>4 DEF Reactor
  <2>6. PICK g : g = Append(h, y)
    OBVIOUS
  <2>7. reactor' = [reactor EXCEPT ![i] = x] /\ heard' = [heard EXCEPT ![i] = g]
    BY <1>2, <1>3, <1>4, <1>7, <2>1, <2>2, <2>4, <2>6 DEF GrpcOnReadDone
  <2>8. /\ g \in Seq(Call) /\ EndsOnce(g) /\ ~Final(g) /\ ~Belated(h)
        /\ (Belated(g) => r.stopped) /\ OnceBelated(g)
    BY <1>2, <1>4, <1>5, <1>7, <2>3, <2>6, OneTold
  <2>9. GoodCall(i, x, g)
    BY <2>5, <2>8, GoodCallIs
  <2>10. Writing(x) /\ (LastQueued(x) => LastQueued(r))
    BY <1>4, <2>5 DEF Writing, LastQueued
  <2>11. QED
    BY <1>1, <1>2, <2>5, <2>7, <2>8, <2>9, <2>10, CallAlone
<1>8. QED
  BY <1>6, <1>7 DEF GrpcOnReadDone

\* A call is over: one that was told to stop leaks, the last callback ends another.
LEMMA GrpcOnDoneStep ==
  ASSUME IndInv, NEW i \in 1..Len(asker), i \in Id, GrpcOnDone(i),
         role[asker[i].by] \in {"remote", "facility"}, UNCHANGED <<role, single>>
  PROVE  IndInv'
<1>1. /\ Grpc /\ reactor[i].at = "open"
      /\ UNCHANGED <<kind, clientVars, asker, undefVars, server, queue>>
  BY DEF GrpcOnDone
<1>2. PICK r : r = reactor[i]
  OBVIOUS
<1>3. PICK h : h = heard[i]
  OBVIOUS
<1>4. /\ r \in Reactor /\ h \in Seq(Call) /\ EndsOnce(h) /\ Writing(r) /\ GoodCall(i, r, h)
      /\ reactor \in [Id -> Reactor] /\ heard = [heard EXCEPT ![i] = h]
  BY <1>1, <1>2, <1>3, OneReactor
<1>5. ~Final(h) /\ OnceBelated(h) /\ (Belated(h) => r.stopped /\ r.hand = "none")
  BY <1>1, <1>2, <1>4, GoodCallIs
<1>6. CASE reactor[i].hand = "none"
  <2>1. PICK x : x = IF r.stopped THEN [r EXCEPT !.at = "leaked"] ELSE [r EXCEPT !.hand = "done"]
    OBVIOUS
  <2>2. /\ x \in Reactor /\ x.stopped = r.stopped /\ (r.stopped => x.hand = r.hand)
        /\ x.writes = r.writes /\ x.resps = r.resps
    <3>1. CASE r.stopped
      BY <1>4, <2>1, <3>1 DEF Reactor
    <3>2. CASE ~r.stopped
      BY <1>4, <2>1, <3>2 DEF Reactor
    <3>3. QED
      BY <3>1, <3>2
  <2>3. reactor' = [reactor EXCEPT ![i] = x] /\ heard' = heard
    BY <1>2, <1>4, <1>6, <2>1 DEF GrpcOnDone
  <2>4. GoodCall(i, x, h)
    BY <1>5, <2>2, GoodCallIs
  <2>5. Writing(x) /\ (LastQueued(x) => LastQueued(r))
    BY <1>4, <2>2 DEF Writing, LastQueued
  <2>6. QED
    BY <1>1, <1>2, <1>4, <2>2, <2>3, <2>4, <2>5, CallAlone
<1>7. CASE reactor[i].hand = "done"
  <2>1. PICK b : b \in Caller /\ b = (CHOOSE p \in conn[asker[i].o].clients : TRUE)[2]
    BY <1>1, SomeClient
  <2>2. PICK y : y = [by |-> b, final |-> TRUE, late |-> r.stopped]
    OBVIOUS
  <2>3. y \in Call /\ y.late = r.stopped
    BY <1>4, <2>1, <2>2 DEF Call, Reactor
  <2>4. PICK x : x = [r EXCEPT !.hand = "none", !.at = "over"]
    OBVIOUS
  <2>5. /\ x \in Reactor /\ x.stopped = r.stopped /\ x.hand = "none" /\ x.at = "over"
        /\ x.writes = r.writes /\ x.resps = r.resps
    BY <1>4, <2>4 DEF Reactor
  <2>6. PICK g : g = Append(h, y)
    OBVIOUS
  <2>7. reactor' = [reactor EXCEPT ![i] = x] /\ heard' = [heard EXCEPT ![i] = g]
    BY <1>2, <1>3, <1>4, <1>7, <2>1, <2>2, <2>4, <2>6 DEF GrpcOnDone
  <2>8. /\ g \in Seq(Call) /\ EndsOnce(g) /\ (Belated(g) => r.stopped) /\ OnceBelated(g)
    BY <1>2, <1>4, <1>5, <1>7, <2>3, <2>6, OneTold
  <2>9. GoodCall(i, x, g)
    BY <2>5, <2>8, GoodCallIs
  <2>10. Writing(x) /\ (LastQueued(x) => LastQueued(r))
    BY <1>4, <2>5 DEF Writing, LastQueued
  <2>11. QED
    BY <1>1, <1>2, <2>5, <2>7, <2>8, <2>9, <2>10, CallAlone
<1>8. QED
  BY <1>6, <1>7 DEF GrpcOnDone

LEMMA GrpcCallFailsStep ==
  ASSUME IndInv, NEW i \in 1..Len(asker), i \in Id, GrpcCallFails(i), UNCHANGED <<role, single>>
  PROVE  IndInv'
<1>1. /\ Grpc /\ reactor[i].at = "open" /\ heard' = heard
      /\ UNCHANGED <<kind, clientVars, asker, undefVars, server, queue>>
  BY DEF GrpcCallFails
<1>2. PICK r : r = reactor[i]
  OBVIOUS
<1>3. PICK h : h = heard[i]
  OBVIOUS
<1>4. /\ r \in Reactor /\ h \in Seq(Call) /\ EndsOnce(h) /\ Writing(r) /\ GoodCall(i, r, h)
      /\ reactor \in [Id -> Reactor] /\ heard = [heard EXCEPT ![i] = h]
  BY <1>1, <1>2, <1>3, OneReactor
<1>5. PICK x : x = [r EXCEPT !.closed = TRUE, !.wire = 0]
  OBVIOUS
<1>6. /\ x \in Reactor /\ x.at = r.at /\ x.stopped = r.stopped /\ x.hand = r.hand
      /\ x.reads = r.reads /\ x.writes = r.writes /\ x.resps = r.resps
  BY <1>4, <1>5 DEF Reactor
<1>7. reactor' = [reactor EXCEPT ![i] = x]
  BY <1>2, <1>4, <1>5 DEF GrpcCallFails
<1>8. GoodCall(i, x, h)
  BY <1>4, <1>6, GoodCallIs
<1>9. Writing(x) /\ (LastQueued(x) => LastQueued(r))
  BY <1>4, <1>6 DEF Writing, LastQueued
<1>10. QED
  BY <1>1, <1>2, <1>4, <1>6, <1>7, <1>8, <1>9, CallAlone

\* The facility of gRPC's own: the answer of a call with one answer is the last.
LEMMA GrpcOneCallReactorStep ==
  ASSUME IndInv, NEW i \in 1..Len(asker), i \in Id, GrpcOneCallReactor(i),
         role[asker[i].by] = "native", UNCHANGED <<role, single>>
  PROVE  IndInv'
<1>1. /\ Grpc /\ reactor[i].at = "open" /\ single \in BOOLEAN
      /\ UNCHANGED <<kind, clientVars, asker, undefVars, server, queue>>
  BY DEF GrpcOneCallReactor, IndInv, Types, HeardTypes
<1>2. PICK r : r = reactor[i]
  OBVIOUS
<1>3. PICK h : h = heard[i]
  OBVIOUS
<1>4. /\ r \in Reactor /\ h \in Seq(Call) /\ EndsOnce(h) /\ Writing(r) /\ GoodCall(i, r, h)
      /\ reactor \in [Id -> Reactor] /\ heard = [heard EXCEPT ![i] = h]
  BY <1>1, <1>2, <1>3, OneReactor
<1>5. /\ OnceBelated(h) /\ (Belated(h) => r.stopped /\ r.hand = "none")
      /\ Final(h) => single /\ r.reads = 1
  BY <1>1, <1>2, <1>4, GoodCallIs
<1>6. CASE /\ Readable(i)
           /\ reactor' = [reactor EXCEPT ![i].wire = @ - 1, ![i].reads = 1]
           /\ heard' = [heard EXCEPT ![i] = Append(@,
                [by |-> asker[i].by, final |-> single, late |-> FALSE])]
  <2>1. asker[i].by \in Caller
    <3>1. asker[i] \in Asking
      BY <1>1, OverGrpc
    <3>2. QED
      BY <3>1 DEF Asking
  <2>2. PICK y : y = [by |-> asker[i].by, final |-> single, late |-> FALSE]
    OBVIOUS
  <2>3. y \in Call /\ y.final = single /\ y.late = FALSE
    BY <1>1, <2>1, <2>2 DEF Call
  <2>4. PICK w : w \in Nat /\ w = r.wire - 1
    BY <1>2, <1>4, <1>6 DEF Reactor, Readable
  <2>5. PICK x : x = [r EXCEPT !.wire = w, !.reads = 1]
    OBVIOUS
  <2>6. /\ x \in Reactor /\ x.reads = 1 /\ x.stopped = r.stopped /\ x.hand = r.hand
        /\ x.writes = r.writes /\ x.resps = r.resps
    <3>1. r \in Reactor /\ w \in Nat /\ 1 \in 0..1
      BY <1>4, <2>4
    <3>2. QED
      BY <2>5, <3>1 DEF Reactor
  <2>7. PICK g : g = Append(h, y)
    OBVIOUS
  <2>8. reactor' = [reactor EXCEPT ![i] = x] /\ heard' = [heard EXCEPT ![i] = g]
    BY <1>2, <1>3, <1>4, <1>6, <2>2, <2>4, <2>5, <2>7
  <2>9. ~Final(h)
    BY <1>2, <1>5, <1>6 DEF Readable
  <2>10. /\ g \in Seq(Call) /\ EndsOnce(g) /\ (Final(g) => single) /\ (Belated(g) => Belated(h))
         /\ OnceBelated(g)
    BY <1>4, <1>5, <2>3, <2>7, <2>9, OneTold
  <2>11. GoodCall(i, x, g)
    BY <1>5, <2>6, <2>10, GoodCallIs
  <2>12. Writing(x) /\ (LastQueued(x) => LastQueued(r))
    BY <1>4, <2>6 DEF Writing, LastQueued
  <2>13. QED
    BY <1>1, <1>2, <2>6, <2>8, <2>10, <2>11, <2>12, CallAlone
<1>7. CASE reactor' = [reactor EXCEPT ![i].at = "over"] /\ UNCHANGED heard
  <2>1. PICK x : x = [r EXCEPT !.at = "over"]
    OBVIOUS
  <2>2. /\ x \in Reactor /\ x.at = "over" /\ x.stopped = r.stopped /\ x.hand = r.hand
        /\ x.writes = r.writes /\ x.resps = r.resps
    BY <1>4, <2>1 DEF Reactor
  <2>3. reactor' = [reactor EXCEPT ![i] = x] /\ heard' = heard
    BY <1>2, <1>4, <1>7, <2>1
  <2>4. GoodCall(i, x, h)
    BY <1>5, <2>2, GoodCallIs
  <2>5. Writing(x) /\ (LastQueued(x) => LastQueued(r))
    BY <1>4, <2>2 DEF Writing, LastQueued
  <2>6. QED
    BY <1>1, <1>2, <1>4, <2>2, <2>3, <2>4, <2>5, CallAlone
<1>8. QED
  BY <1>6, <1>7 DEF GrpcOneCallReactor

LEMMA GrpcRunSyncClientStep ==
  ASSUME IndInv, NEW i \in 1..Len(asker), i \in Id, GrpcRunSyncClient(i),
         UNCHANGED <<role, single>>
  PROVE  IndInv'
<1>1. /\ Grpc /\ reactor[i].at = "open"
      /\ UNCHANGED <<kind, clientVars, asker, undefVars, server, queue>>
  BY DEF GrpcRunSyncClient
<1>2. PICK r : r = reactor[i]
  OBVIOUS
<1>3. PICK h : h = heard[i]
  OBVIOUS
<1>4. /\ r \in Reactor /\ h \in Seq(Call) /\ EndsOnce(h) /\ Writing(r) /\ GoodCall(i, r, h)
      /\ reactor \in [Id -> Reactor] /\ heard = [heard EXCEPT ![i] = h]
  BY <1>1, <1>2, <1>3, OneReactor
<1>5. /\ OnceBelated(h) /\ (Belated(h) => r.stopped /\ r.hand = "none")
  BY <1>4, GoodCallIs
<1>6. PICK x : x = [r EXCEPT !.at = "over", !.wire = 0]
  OBVIOUS
<1>7. /\ x \in Reactor /\ x.at = "over" /\ x.stopped = r.stopped /\ x.hand = r.hand
      /\ x.writes = r.writes /\ x.resps = r.resps
  BY <1>4, <1>6 DEF Reactor
<1>8. asker[i].by \in Caller
  <2>1. asker[i] \in Asking
    BY <1>1, OverGrpc
  <2>2. QED
    BY <2>1 DEF Asking
<1>9. PICK y : y = [by |-> asker[i].by, final |-> TRUE, late |-> FALSE]
  OBVIOUS
<1>10. y \in Call /\ y.late = FALSE
  BY <1>8, <1>9 DEF Call
<1>11. PICK g : g = <<y>>
  OBVIOUS
<1>12. g \in Seq(Call) /\ EndsOnce(g) /\ ~Belated(g) /\ OnceBelated(g)
  <2>1. g \in Seq(Call) /\ DOMAIN g = {1} /\ g[1] = y /\ Len(g) = 1
    BY <1>10, <1>11
  <2>2. QED
    BY <1>10, <2>1 DEF EndsOnce, Belated, OnceBelated
<1>13. reactor' = [reactor EXCEPT ![i] = x] /\ (heard' = heard \/ heard' = [heard EXCEPT ![i] = g])
  BY <1>2, <1>4, <1>6, <1>9, <1>11 DEF GrpcRunSyncClient
<1>14. GoodCall(i, x, h) /\ GoodCall(i, x, g)
  BY <1>5, <1>7, <1>12, GoodCallIs
<1>15. Writing(x) /\ (LastQueued(x) => LastQueued(r))
  BY <1>4, <1>7 DEF Writing, LastQueued
<1>16. CASE heard' = heard
  BY <1>1, <1>2, <1>4, <1>7, <1>13, <1>14, <1>15, <1>16, CallAlone
<1>17. CASE heard' = [heard EXCEPT ![i] = g]
  BY <1>1, <1>2, <1>7, <1>12, <1>13, <1>14, <1>15, <1>17, CallAlone
<1>18. QED
  BY <1>13, <1>16, <1>17

\* A reply has been written, and the next one is.
LEMMA GrpcOnWriteDoneStep ==
  ASSUME IndInv, NEW i \in Id, GrpcOnWriteDone(i), UNCHANGED <<role, single>>
  PROVE  IndInv'
<1>1. /\ Grpc /\ reactor[i].writes > 0 /\ heard' = heard
      /\ UNCHANGED <<kind, clientVars, asker, undefVars, server, queue>>
  BY DEF GrpcOnWriteDone
<1>2. PICK r : r = reactor[i]
  OBVIOUS
<1>3. PICK h : h = heard[i]
  OBVIOUS
<1>4. /\ r \in Reactor /\ h \in Seq(Call) /\ EndsOnce(h) /\ Writing(r) /\ GoodCall(i, r, h)
      /\ reactor \in [Id -> Reactor] /\ heard = [heard EXCEPT ![i] = h]
  BY <1>1, <1>2, <1>3, OneReactor
<1>5. i \in 1..Len(asker)
  <2>1. NoReactor.writes = 0
    BY DEF NoReactor
  <2>2. QED
    BY <1>1, <1>2, <1>4, <2>1, GoodCallIs
<1>6. r.resps \in Seq(BOOLEAN) /\ r.writes = 1 /\ r.resps # <<>> /\ r.wire \in Nat /\ r.closed \in BOOLEAN
  BY <1>1, <1>2, <1>4 DEF Reactor, Writing
<1>7. PICK q : q \in Seq(BOOLEAN) /\ q = Tail(r.resps)
  BY <1>6, Taken
<1>8. PICK n : n \in Nat /\ n = IF q = <<>> THEN r.writes - 1 ELSE r.writes
  BY <1>6
<1>9. PICK w : w \in Nat /\ w = IF r.closed THEN r.wire ELSE r.wire + 1
  BY <1>6
<1>10. PICK b : b \in BOOLEAN /\ b = (r.closed \/ FALSE)
  BY <1>6
<1>11. PICK z : z = [r EXCEPT !.wire = w, !.closed = b]
  OBVIOUS
<1>12. z = Written(r, FALSE)
  BY <1>4, <1>9, <1>10, <1>11 DEF Written, Reactor
<1>13. /\ z \in Reactor /\ z.at = r.at /\ z.stopped = r.stopped /\ z.hand = r.hand
       /\ z.reads = r.reads /\ z.writes = r.writes /\ z.resps = r.resps
  BY <1>4, <1>9, <1>10, <1>11 DEF Reactor
<1>14. PICK x : x = [z EXCEPT !.resps = q, !.writes = n]
  OBVIOUS
<1>15. /\ x \in Reactor /\ x.at = z.at /\ x.stopped = z.stopped /\ x.hand = z.hand
       /\ x.reads = z.reads /\ x.writes = n /\ x.resps = q
  BY <1>7, <1>8, <1>13, <1>14 DEF Reactor
<1>16. reactor' = [reactor EXCEPT ![i] = x]
  <2>1. x = NextWrite(r)
    BY <1>7, <1>8, <1>12, <1>13, <1>14 DEF NextWrite
  <2>2. reactor' = [reactor EXCEPT ![i] = NextWrite(@)]
    BY DEF GrpcOnWriteDone
  <2>3. QED
    BY <1>2, <2>1, <2>2
<1>17. GoodCall(i, x, h)
  BY <1>4, <1>5, <1>13, <1>15, GoodCallIs
<1>18. Writing(x)
  BY <1>6, <1>8, <1>15 DEF Writing
<1>19. LastQueued(x) => LastQueued(r)
  <2>1. \A k \in DOMAIN q : k + 1 \in DOMAIN r.resps /\ q[k] = r.resps[k + 1]
    BY <1>6, <1>7, Taken
  <2>2. QED
    BY <1>15, <2>1 DEF LastQueued
<1>20. QED
  BY <1>1, <1>2, <1>4, <1>5, <1>15, <1>16, <1>17, <1>18, <1>19, CallAlone

\* A facility has a reply: it is written, or waits for its turn.
LEMMA GrpcHandleRespStep ==
  ASSUME IndInv, NEW s \in Server, NEW i \in Id, NEW final \in BOOLEAN,
         GrpcHandleResp(s, i, final), UNCHANGED <<role, single>>
  PROVE  IndInv'
<1>1. /\ Grpc /\ server[s].up /\ i \in server[s].work /\ heard' = heard
      /\ UNCHANGED <<kind, clientVars, asker, undefVars, queue>>
  BY DEF GrpcHandleResp, FacilityReplies
<1>2. PICK r : r = reactor[i]
  OBVIOUS
<1>3. PICK h : h = heard[i]
  OBVIOUS
<1>4. /\ r \in Reactor /\ h \in Seq(Call) /\ EndsOnce(h) /\ Writing(r) /\ GoodCall(i, r, h)
      /\ reactor \in [Id -> Reactor] /\ heard = [heard EXCEPT ![i] = h]
  BY <1>1, <1>2, <1>3, OneReactor
<1>5. PICK x : x = server[s]
  OBVIOUS
<1>6. x \in Service /\ GoodService(x) /\ x.up /\ i \in x.work /\ Types /\ ServersInv
  BY <1>1, <1>5, OverGrpc DEF ServersInv
<1>7. i \in 1..Len(asker) /\ \E p \in x.table : p[1] = i
  <2>1. x.work \subseteq 1..Len(asker) /\ x.work \subseteq {p[1] : p \in x.table}
    BY <1>1, <1>6 DEF GoodService
  <2>2. QED
    BY <1>6, <2>1
<1>8. PICK y : y = AfterReply(x, i, final)
  OBVIOUS
<1>9. /\ y \in Service /\ GoodService(y) /\ UnderWay(y) \subseteq UnderWay(x)
      /\ final => i \notin UnderWay(y)
  BY <1>1, <1>5, <1>6, <1>8, ReplyFromGives
<1>10. /\ server' = [server EXCEPT ![s] = y]
       /\ reactor' = [reactor EXCEPT ![i] = GrpcPushReply(@, final)]
  BY <1>5, <1>7, <1>8 DEF GrpcHandleResp
<1>11. ServerTypes' /\ ServersInv'
  <2>1. queue' \in Seq(Id \X Nat) /\ QueueIsTrue'
    BY <1>1, QueueStays
  <2>2. QED
    BY <1>1, <1>6, <1>9, <1>10, <2>1, OneServerStep
<1>12. r.resps \in Seq(BOOLEAN) /\ r.writes \in Nat
  BY <1>4 DEF Reactor
<1>13. PICK q : q = Append(r.resps, final)
  OBVIOUS
<1>14. /\ q \in Seq(BOOLEAN) /\ q # <<>>
       /\ \A k \in DOMAIN q : \/ k \in DOMAIN r.resps /\ q[k] = r.resps[k]
                              \/ k = Len(r.resps) + 1 /\ q[k] = final
  <2>1. q \in Seq(BOOLEAN) /\ q # <<>>
    BY <1>12, <1>13
  <2>2. QED
    BY <1>12, <1>13, <2>1, AddedOne
<1>15. PICK n : n \in Nat /\ n = IF r.resps = <<>> THEN r.writes + 1 ELSE r.writes
  BY <1>12
<1>16. PICK z : z = [r EXCEPT !.resps = q, !.writes = n]
  OBVIOUS
<1>17. /\ z \in Reactor /\ z.at = r.at /\ z.stopped = r.stopped /\ z.hand = r.hand
       /\ z.reads = r.reads /\ z.writes = n /\ z.resps = q
  BY <1>4, <1>14, <1>15, <1>16 DEF Reactor
<1>18. reactor' = [reactor EXCEPT ![i] = z]
  <2>1. z = GrpcPushReply(r, final)
    BY <1>4, <1>13, <1>15, <1>16 DEF GrpcPushReply, Reactor
  <2>2. QED
    BY <1>2, <1>10, <2>1
<1>19. GoodCall(i, z, h)
  BY <1>4, <1>7, <1>17, GoodCallIs
<1>20. Writing(z)
  BY <1>4, <1>12, <1>14, <1>15, <1>17 DEF Writing
<1>21. LastQueued(z) => final
  <2>1. i \in UnderWay(server[s])
    BY <1>1 DEF UnderWay
  <2>2. ~LastQueued(r)
    BY <1>1, <1>2, <2>1, OverGrpc
  <2>3. QED
    BY <1>14, <1>17, <2>2 DEF LastQueued
<1>22. server \in [Server -> Service]
  BY <1>1, OverGrpc
<1>23. LastQueued(z) => \A t \in Server : i \notin UnderWay(server'[t])
  <2> SUFFICES ASSUME final, NEW t \in Server PROVE i \notin UnderWay(server'[t])
    BY <1>21
  <2>1. CASE t = s
    BY <1>9, <1>10, <1>22, <2>1
  <2>2. CASE t # s
    <3>1. server'[t] = server[t] /\ ~server[t].up /\ GoodService(server[t])
      BY <1>1, <1>6, <1>10, <1>22, <2>2 DEF ServersInv, OneServer
    <3>2. server[t].inbox = <<>> /\ server[t].work = {}
      BY <3>1 DEF GoodService
    <3>3. QED
      BY <3>1, <3>2 DEF UnderWay
  <2>3. QED
    BY <2>1, <2>2
<1>24. \A t \in Server : UnderWay(server'[t]) \subseteq UnderWay(server[t])
  <2> SUFFICES ASSUME NEW t \in Server PROVE UnderWay(server'[t]) \subseteq UnderWay(server[t])
    OBVIOUS
  <2>1. CASE t = s
    BY <1>5, <1>9, <1>10, <1>22, <2>1
  <2>2. CASE t # s
    BY <1>10, <1>22, <2>2
  <2>3. QED
    BY <2>1, <2>2
<1>25. GoodCalls'
  BY <1>1, <1>4, <1>7, <1>17, <1>18, <1>19, <1>20, <1>23, <1>24, OneCallStep
<1>26. ClientTypes' /\ ClientsInv' /\ RepliesAreTrue'
  BY <1>1, GrpcClientsStay
<1>27. QED
  BY <1>1, <1>11, <1>25, <1>26, GoodCallsAre

\* The server forgets a call when its last reply has been written.
LEMMA GrpcEndHandlingStep ==
  ASSUME IndInv, NEW s \in Server, NEW i \in Id, GrpcEndHandling(s, i), UNCHANGED <<role, single>>
  PROVE  IndInv'
<1>1. /\ Grpc /\ reactor[i].writes > 0 /\ Head(reactor[i].resps) /\ heard' = heard
      /\ UNCHANGED <<kind, clientVars, asker, undefVars, queue>>
  BY Zenon DEF GrpcEndHandling
<1>2. PICK r : r = reactor[i]
  OBVIOUS
<1>3. PICK h : h = heard[i]
  OBVIOUS
<1>4. /\ r \in Reactor /\ h \in Seq(Call) /\ EndsOnce(h) /\ Writing(r) /\ GoodCall(i, r, h)
      /\ reactor \in [Id -> Reactor] /\ heard = [heard EXCEPT ![i] = h]
  BY <1>1, <1>2, <1>3, OneReactor
<1>5. i \in 1..Len(asker)
  <2>1. NoReactor.writes = 0
    BY DEF NoReactor
  <2>2. reactor[i].writes > 0
    BY Zenon, <1>1
  <2>3. QED
    BY <1>2, <1>4, <2>1, <2>2, GoodCallIs
<1>6. LastQueued(r)
  <2>1. r.resps \in Seq(BOOLEAN) /\ r.resps # <<>>
    <3>1. r.writes > 0
      BY Zenon, <1>1, <1>2
    <3>2. QED
      BY <1>4, <3>1 DEF Reactor, Writing
  <2>2. 1 \in DOMAIN r.resps /\ r.resps[1] = Head(r.resps)
    BY <2>1, Taken
  <2>3. Head(r.resps)
    BY Zenon, <1>1, <1>2
  <2>4. QED
    BY Zenon, <2>2, <2>3 DEF LastQueued
<1>7. \A t \in Server : i \notin UnderWay(server[t])
  BY Zenon, <1>1, <1>2, <1>6, OverGrpc
<1>8. PICK x : x = server[s]
  OBVIOUS
<1>9. x \in Service /\ GoodService(x) /\ Types /\ ServersInv /\ server \in [Server -> Service]
  BY <1>8, OverGrpc DEF ServersInv, GrpcEndHandling
<1>10. PICK t : t = {p \in x.table : p[1] # i}
  OBVIOUS
<1>11. t \in SUBSET (Id \X Nat) /\ t \subseteq x.table
  BY <1>9, <1>10 DEF Service
<1>12. PICK y : y = [x EXCEPT !.table = t]
  OBVIOUS
<1>13. /\ y \in Service /\ y.up = x.up /\ y.inbox = x.inbox /\ y.work = x.work /\ y.index = x.index
       /\ y.table = t
  BY <1>9, <1>11, <1>12 DEF Service
<1>14. UnderWay(y) = UnderWay(x)
  BY <1>13 DEF UnderWay
<1>15. GoodService(y)
  <2>1. Grpc /\ ~Socket
    BY <1>1, OverGrpc
  <2>2. /\ \A k \in DOMAIN x.inbox : MadeOn(x.inbox[k][1], x.inbox[k][2])
        /\ \A p \in x.table : MadeOn(p[1], p[2])
        /\ x.work \subseteq 1..Len(asker)
        /\ ~x.up => x.inbox = <<>> /\ x.work = {}
        /\ x.work \subseteq {p[1] : p \in x.table}
        /\ \A k, l \in DOMAIN x.inbox : x.inbox[k][1] = x.inbox[l][1] => k = l
        /\ \A k \in DOMAIN x.inbox : x.inbox[k][1] \notin x.work
    BY <1>9, <2>1 DEF GoodService
  <2>3. i \notin x.work
    BY <1>7, <1>8 DEF UnderWay
  <2>4. x.work \subseteq {p[1] : p \in t}
    BY <1>10, <2>2, <2>3
  <2>5. QED
    BY <1>11, <1>13, <2>1, <2>2, <2>4 DEF GoodService
<1>16. server' = [server EXCEPT ![s] = y]
  <2>1. server' = [server EXCEPT ![s].table = {p \in @ : p[1] # i}]
    BY Zenon DEF GrpcEndHandling
  <2>2. QED
    BY <1>8, <1>10, <1>12, <2>1
<1>17. ServerTypes' /\ ServersInv'
  <2>1. queue' \in Seq(Id \X Nat) /\ QueueIsTrue'
    BY <1>1, QueueStays
  <2>2. x.up => server[s].up
    BY <1>8
  <2>3. UNCHANGED <<kind, asker>>
    BY <1>1
  <2>4. QED
    BY <1>9, <1>13, <1>15, <1>16, <2>1, <2>2, <2>3, OneServerStep
<1>18. \A u \in Server : UnderWay(server'[u]) \subseteq UnderWay(server[u])
  <2> SUFFICES ASSUME NEW u \in Server PROVE UnderWay(server'[u]) \subseteq UnderWay(server[u])
    OBVIOUS
  <2>1. CASE u = s
    BY <1>8, <1>9, <1>14, <1>16, <2>1
  <2>2. CASE u # s
    BY <1>9, <1>16, <2>2
  <2>3. QED
    BY <2>1, <2>2
<1>19. PICK w : w \in Nat /\ w = IF r.closed THEN r.wire ELSE r.wire + 1
  BY <1>4 DEF Reactor
<1>20. PICK b : b \in BOOLEAN /\ b = (r.closed \/ TRUE)
  BY <1>4 DEF Reactor
<1>21. PICK v : v = [r EXCEPT !.wire = w, !.closed = b]
  OBVIOUS
<1>22. v = Written(r, TRUE)
  BY <1>4, <1>19, <1>20, <1>21 DEF Written, Reactor
<1>23. /\ v \in Reactor /\ v.at = r.at /\ v.stopped = r.stopped /\ v.hand = r.hand
       /\ v.reads = r.reads
  BY <1>4, <1>19, <1>20, <1>21 DEF Reactor
<1>24. PICK z : z = [v EXCEPT !.resps = <<>>, !.writes = 0]
  OBVIOUS
<1>25. /\ z \in Reactor /\ z.at = r.at /\ z.stopped = r.stopped /\ z.hand = r.hand
       /\ z.reads = r.reads /\ z.writes = 0 /\ z.resps = <<>>
  <2>1. <<>> \in Seq(BOOLEAN)
    OBVIOUS
  <2>2. QED
    BY <1>23, <1>24, <2>1 DEF Reactor
<1>26. reactor' = [reactor EXCEPT ![i] = z]
  <2>1. reactor' = [reactor EXCEPT ![i] = [Written(@, TRUE) EXCEPT !.resps = <<>>, !.writes = 0]]
    BY Zenon DEF GrpcEndHandling
  <2>2. QED
    BY <1>2, <1>22, <1>24, <2>1
<1>27. GoodCall(i, z, h)
  BY <1>4, <1>5, <1>25, GoodCallIs
<1>28. Writing(z) /\ ~LastQueued(z)
  BY <1>25 DEF Writing, LastQueued
<1>29. Grpc /\ UNCHANGED <<kind, clientVars, asker, undefVars>>
  BY <1>1
<1>30. heard' = [heard EXCEPT ![i] = h]
  BY <1>1, <1>4
<1>31. GoodCalls'
  BY <1>4, <1>5, <1>18, <1>25, <1>26, <1>27, <1>28, <1>29, <1>30, OneCallStep
<1>32. ClientTypes' /\ ClientsInv' /\ RepliesAreTrue'
  BY <1>29, GrpcClientsStay
<1>33. QED
  BY <1>17, <1>29, <1>31, <1>32, GoodCallsAre

\* The servers change, and what is known of each call stays true.
LEMMA GrpcServersAlone ==
  ASSUME IndInv, Grpc, UNCHANGED <<kind, clientVars, asker, undefVars, role, single>>,
         ServerTypes', ServersInv', GoodCalls'
  PROVE  IndInv'
BY GrpcClientsStay, GoodCallsAre

\* The server ends, and its calls.
LEMMA GrpcServerDiesStep ==
  ASSUME IndInv, NEW s \in Server, GrpcServerDies(s), UNCHANGED <<role, single>>
  PROVE  IndInv'
<1>1. /\ Grpc /\ server' = [server EXCEPT ![s] = Down]
      /\ UNCHANGED <<kind, clientVars, asker, heard, queue, undefVars>>
  BY DEF GrpcServerDies, ServerDies
<1>2. /\ Types /\ ServersInv /\ server \in [Server -> Service]
      /\ reactor \in [Id -> Reactor] /\ heard \in [Id -> Seq(Call)] /\ HeardInv
  BY <1>1, OverGrpc
<1>3. PICK x : x = server[s]
  OBVIOUS
<1>4. x \in Service /\ GoodService(x)
  BY <1>2, <1>3 DEF ServersInv
<1>5. PICK D : D = {p[1] : p \in x.table \cup Range(x.inbox)}
  OBVIOUS
<1>6. D \subseteq 1..Len(asker)
  <2> SUFFICES ASSUME NEW p \in x.table \cup Range(x.inbox) PROVE p[1] \in 1..Len(asker)
    BY <1>5
  <2>1. CASE p \in x.table
    BY <1>4, <2>1 DEF GoodService, MadeOn
  <2>2. CASE p \in Range(x.inbox)
    BY <1>4, <2>2 DEF GoodService, MadeOn, Range
  <2>3. QED
    BY <2>1, <2>2
<1>7. ServerTypes' /\ ServersInv'
  <2>1. queue' \in Seq(Id \X Nat) /\ QueueIsTrue'
    BY <1>1, QueueStays
  <2>2. QED
    BY <1>1, <1>2, <2>1, OneServerStep, DownIsGood
<1>8. \A t \in Server : UnderWay(server'[t]) \subseteq UnderWay(server[t])
  <2> SUFFICES ASSUME NEW t \in Server PROVE UnderWay(server'[t]) \subseteq UnderWay(server[t])
    OBVIOUS
  <2>1. CASE t = s
    BY <1>1, <1>2, <2>1, DownIsGood
  <2>2. CASE t # s
    BY <1>1, <1>2, <2>2
  <2>3. QED
    BY <2>1, <2>2
<1>9. reactor' = [i \in Id |-> IF i \in D
        THEN [reactor[i] EXCEPT !.closed = TRUE, !.resps = <<>>, !.writes = 0] ELSE reactor[i]]
  BY <1>3, <1>5 DEF GrpcServerDies
<1>10. ASSUME NEW i \in Id
       PROVE  /\ reactor'[i] \in Reactor /\ Writing(reactor'[i])
              /\ GoodCall(i, reactor[i], heard[i])'
              /\ LastQueued(reactor'[i]) => \A t \in Server : i \notin UnderWay(server'[t])
  <2>1. PICK r : r = reactor[i]
    OBVIOUS
  <2>2. PICK h : h = heard[i]
    OBVIOUS
  <2>3. /\ r \in Reactor /\ Writing(r) /\ GoodCall(i, r, h)
        /\ LastQueued(r) => \A t \in Server : i \notin UnderWay(server'[t])
    BY <1>1, <1>8, <2>1, <2>2, OverGrpc
  <2>4. PICK z : z = [r EXCEPT !.closed = TRUE, !.resps = <<>>, !.writes = 0]
    OBVIOUS
  <2>5. /\ z \in Reactor /\ z.at = r.at /\ z.stopped = r.stopped /\ z.hand = r.hand
        /\ z.reads = r.reads /\ z.writes = 0 /\ z.resps = <<>>
    <3>1. <<>> \in Seq(BOOLEAN)
      OBVIOUS
    <3>2. QED
      BY <2>3, <2>4, <3>1 DEF Reactor
  <2>6. Writing(z) /\ ~LastQueued(z)
    BY <2>5 DEF Writing, LastQueued
  <2>7. i \in D => GoodCall(i, z, h)
    BY <1>6, <2>3, <2>5, GoodCallIs
  <2>8. PICK y : y = reactor'[i]
    OBVIOUS
  <2>9. y = r \/ (i \in D /\ y = z)
    BY <1>9, <2>1, <2>4, <2>8
  <2>10. GoodCall(i, y, h)'
    <3>1. GoodCall(i, y, h)
      BY <2>3, <2>7, <2>9
    <3>2. QED
      BY <1>1, <3>1 DEF GoodCall
  <2>11. heard'[i] = h
    BY <1>1, <2>2
  <2>12. QED
    BY <2>3, <2>5, <2>6, <2>8, <2>9, <2>10, <2>11 DEF GoodCall
<1>11. GoodCalls'
  <2>1. HeardInv'
    BY <1>1, <1>2, HeardStays DEF Longer
  <2>2. reactor' \in [Id -> Reactor] /\ heard' \in [Id -> Seq(Call)]
    BY <1>1, <1>2, <1>9, <1>10
  <2>3. QED
    BY <1>10, <2>1, <2>2 DEF GoodCalls
<1>12. QED
  BY <1>1, <1>7, <1>11, GrpcServersAlone

\* A service is registered where no other is, or stays with its builder.
LEMMA GrpcRegisterServiceStep ==
  ASSUME IndInv, NEW s \in Server, GrpcRegisterService(s), UNCHANGED <<role, single>>
  PROVE  IndInv'
<1>1. /\ Grpc /\ UNCHANGED Others
      /\ UNCHANGED <<kind, clientVars, asker, heard, queue, undefVars>>
  BY DEF GrpcRegisterService, Others
<1>2. CASE /\ \A p \in Server : ~server[p].up
           /\ server' = [server EXCEPT ![s] = [Down EXCEPT !.up = TRUE]]
  <2>1. PICK x : x = [Down EXCEPT !.up = TRUE]
    OBVIOUS
  <2>2. x \in Service /\ GoodService(x) /\ UnderWay(x) = {}
    BY <2>1, DownIsGood
  <2>3. server' = [server EXCEPT ![s] = x]
    BY <1>2, <2>1
  <2>4. QED
    BY <1>1, <1>2, <2>2, <2>3, ServerAloneStep
<1>3. CASE UNCHANGED server
  <2>1. ServersInv /\ Types
    BY <1>1, OverGrpc
  <2>2. ServerTypes' /\ ServersInv'
    BY <1>1, <1>3, <2>1, ServersStay DEF Longer
  <2>3. QED
    BY <1>1, <1>3, <2>2, ServersAlone
<1>4. QED
  BY <1>2, <1>3 DEF GrpcRegisterService

\* The builder's service gets its calls.
LEMMA GrpcBuildAndStartStep ==
  ASSUME IndInv, GrpcBuildAndStart, UNCHANGED <<role, single>>
  PROVE  IndInv'
<1>1. /\ Grpc /\ UNCHANGED Others
      /\ UNCHANGED <<kind, clientVars, asker, heard, queue, undefVars>>
      /\ server' = [s \in Server |-> [server[s] EXCEPT !.ready = server[s].up]]
  BY DEF GrpcBuildAndStart, Others
<1>2. Types /\ ServersInv /\ server \in [Server -> Service] /\ Longer
  BY <1>1, OverGrpc DEF Longer
<1>3. ASSUME NEW s \in Server
      PROVE  /\ server'[s] \in Service /\ server'[s].up = server[s].up
             /\ GoodService(server[s])' /\ UnderWay(server'[s]) = UnderWay(server[s])
  <2>1. PICK x : x = server[s]
    OBVIOUS
  <2>2. x \in Service /\ GoodService(x)
    BY <1>2, <2>1 DEF ServersInv
  <2>3. PICK y : y = [x EXCEPT !.ready = x.up]
    OBVIOUS
  <2>4. /\ y \in Service /\ y.up = x.up /\ y.inbox = x.inbox /\ y.table = x.table
        /\ y.index = x.index /\ y.work = x.work
    BY <2>2, <2>3 DEF Service
  <2>5. GoodService(y) /\ UnderWay(y) = UnderWay(x)
    BY <2>2, <2>4 DEF GoodService, UnderWay
  <2>6. GoodService(y)'
    BY <1>1, <1>2, <2>5, ServicesStay
  <2>7. server'[s] = y
    BY <1>1, <2>1, <2>3
  <2>8. QED
    BY <2>1, <2>4, <2>5, <2>6, <2>7 DEF GoodService
<1>4. server' \in [Server -> Service]
  BY <1>1, <1>3
<1>5. OneServer'
  BY <1>1, <1>2, <1>3 DEF ServersInv, OneServer, Socket, Grpc
<1>6. queue' \in Seq(Id \X Nat) /\ QueueIsTrue'
  BY <1>1, QueueStays
<1>7. ServerTypes' /\ ServersInv'
  BY <1>1, <1>2, <1>3, <1>4, <1>5, <1>6, ServersStep
<1>8. QED
  BY <1>1, <1>3, <1>7, ServersAlone

\* The facility gets a call.
LEMMA GrpcServiceFuncStep ==
  ASSUME IndInv, NEW s \in Server, GrpcServiceFunc(s), UNCHANGED <<role, single>>
  PROVE  IndInv'
<1>1. /\ Grpc /\ UNCHANGED Others /\ server[s].up /\ server[s].inbox # <<>>
      /\ UNCHANGED <<kind, clientVars, asker, heard, queue, undefVars>>
  BY DEF GrpcServiceFunc, Others
<1>2. PICK x : x = server[s]
  OBVIOUS
<1>3. /\ x \in Service /\ GoodService(x) /\ x.up /\ server \in [Server -> Service]
      /\ ~Socket /\ ~RabbitMQ
  BY <1>1, <1>2, OverGrpc DEF ServersInv
<1>4. x.inbox \in Seq(Id \X Nat) /\ x.inbox # <<>> /\ x.up = TRUE
  BY <1>1, <1>2, <1>3 DEF Service
<1>5. PICK m : m \in Id \X Nat /\ m = Head(x.inbox)
  BY <1>4, Taken
<1>6. PICK q : q \in Seq(Id \X Nat) /\ q = Tail(x.inbox)
  BY <1>4, Taken
<1>7. PICK t : t \in SUBSET (Id \X Nat) /\ t = x.table \cup {m}
  BY <1>3, <1>5 DEF Service
<1>8. PICK w : w \in SUBSET Id /\ w = x.work \cup {m[1]}
  BY <1>3, <1>5 DEF Service
<1>9. PICK y : y = [x EXCEPT !.inbox = q, !.table = t, !.work = w]
  OBVIOUS
<1>10. y \in Service /\ y.up = x.up /\ y.inbox = q /\ y.table = t /\ y.work = w
  BY <1>3, <1>6, <1>7, <1>8, <1>9 DEF Service
<1>11. GoodService(y) /\ UnderWay(y) \subseteq UnderWay(x)
  BY <1>3, <1>4, <1>5, <1>6, <1>7, <1>8, <1>10, ServiceAccepts
<1>12. server' = [server EXCEPT ![s] = y]
  BY <1>2, <1>3, <1>5, <1>6, <1>7, <1>8, <1>9 DEF GrpcServiceFunc
<1>13. QED
  BY <1>1, <1>2, <1>10, <1>11, <1>12, ServerAloneStep

\* Callers come and go: those that share a sender point to it.
LEMMA GrpcPeopleStay ==
  ASSUME IndInv, Grpc, UNCHANGED <<kind, lock, undefVars, asker, role>>,
         conn' \in Seq(Connection), Len(conn) <= Len(conn'), cur' \in 0..Len(conn'),
         \A o \in 1..Len(conn') :
           /\ conn'[o].alive /\ conn'[o].clients # {}
           /\ conn'[o].table = {} /\ conn'[o].index = {}
           /\ conn'[o].inbox = <<>> \/ (o \in 1..Len(conn) /\ conn'[o].inbox = conn[o].inbox)
           /\ conn'[o].hand = <<>> \/ (o \in 1..Len(conn) /\ conn'[o].hand = conn[o].hand),
         user' \in [Caller -> Using],
         \A d \in Caller :
           /\ user'[d].at # "asking"
           /\ role[d] \in {"remote", "facility"} /\ user'[d].at # "out" => user'[d].o \in 1..Len(conn'),
         evicted \subseteq evicted', evicted' \subseteq Caller
  PROVE  ClientTypes' /\ ClientsInv' /\ RepliesAreTrue'
<1>1. /\ ~Socket /\ ~Redis /\ ~RabbitMQ /\ Types /\ ClientsInv /\ lock = Nobody /\ Longer
      /\ Len(conn) \in Nat /\ asker \in Seq(Asking)
      /\ UNCHANGED <<kind, lock, asker, role, misused, strayed, raced, belated>>
  BY OverGrpc DEF Longer, undefVars
<1>2. ClientTypes'
  BY <1>1 DEF Types, ClientTypes
<1>3. OneIsAlive' /\ PointersAreTrue' /\ ClientsAreUsers' /\ UsersAreClients' /\ AskersAreTrue'
  BY <1>1 DEF OneIsAlive, PointersAreTrue, ClientsAreUsers, UsersAreClients, AskersAreTrue, Grpc,
     RabbitMQ
<1>4. TablesAreTrue'
  <2>1. {<<p[2], p[1]>> : p \in {}} = {}
    OBVIOUS
  <2>2. \A o \in 1..Len(conn') : conn'[o].index = {<<p[2], p[1]>> : p \in conn'[o].table}
    BY <2>1
  <2>3. QED
    BY <2>2 DEF TablesAreTrue
<1>5. FixedClients'
  <2>1. \A i \in 1..Len(asker) : asker[i].o \in 1..Len(conn) => asker[i].o \in 1..Len(conn')
    <3>1. Len(conn') \in Nat
      OBVIOUS
    <3>2. QED
      BY <1>1, <3>1
  <2>2. \A c \in Caller : role[c] \in {"remote", "facility"} =>
          \A i \in 1..Len(asker) : asker[i].by = c => asker[i].o \in 1..Len(conn)
    BY <1>1 DEF ClientsInv, FixedClients
  <2>3. QED
    BY <1>1, <2>1, <2>2 DEF FixedClients, Grpc, Socket
<1>6. FreedIsNotUsed'
  BY <1>1 DEF ClientsInv, FreedIsNotUsed, Redis, Socket
<1>7. RepliesAreTrue'
  BY <1>1, RepliesStay DEF IndInv
<1>8. QED
  BY <1>2, <1>3, <1>4, <1>5, <1>6, <1>7 DEF ClientsInv

\* What is known of the senders.
LEMMA Senders ==
  ASSUME IndInv, Grpc
  PROVE  /\ \A o \in 1..Len(conn) : /\ conn[o] \in Connection /\ conn[o].alive /\ conn[o].clients # {}
                                    /\ conn[o].table = {} /\ conn[o].index = {}
         /\ \A d \in Caller :
              /\ user[d] \in Using /\ user[d].at # "asking"
              /\ role[d] \in {"remote", "facility"} /\ user[d].at # "out" =>
                   user[d].o \in 1..Len(conn)
<1>1. /\ ~Socket /\ ~Redis /\ ~RabbitMQ /\ conn \in Seq(Connection) /\ user \in [Caller -> Using]
      /\ OneIsAlive /\ PointersAreTrue /\ TablesAreTrue /\ FixedClients
  BY OverGrpc DEF ClientsInv
<1>2. {<<p[2], p[1]>> : p \in {}} = {}
  OBVIOUS
<1>3. \A o \in 1..Len(conn) : conn[o].table = {} /\ conn[o].index = {}
  BY <1>1, <1>2 DEF TablesAreTrue
<1>4. \A o \in 1..Len(conn) : conn[o] \in Connection /\ conn[o].alive /\ conn[o].clients # {}
  BY <1>1 DEF OneIsAlive, FixedClients
<1>5. \A d \in Caller :
        /\ user[d] \in Using /\ user[d].at # "asking"
        /\ role[d] \in {"remote", "facility"} /\ user[d].at # "out" => user[d].o \in 1..Len(conn)
  BY <1>1 DEF PointersAreTrue, FixedClients
<1>6. QED
  BY <1>3, <1>4, <1>5

\* Only the clients change, and the calls and servers do not.
LEMMA GrpcClientsAlone ==
  ASSUME IndInv, Grpc, UNCHANGED <<kind, asker, heard, server, queue, Others>>,
         ClientTypes', ClientsInv', RepliesAreTrue'
  PROVE  IndInv'
<1>1. /\ ~Socket /\ ~Redis /\ ~RabbitMQ /\ Types /\ ServersInv /\ Longer /\ Len(conn') \in Nat
  BY OverGrpc DEF Longer, ClientTypes
<1>2. ServerTypes' /\ ServersInv'
  BY <1>1, ServersStay
<1>3. \A s \in Server : \A i \in UnderWay(server'[s]) : i \in Id /\ i \in UnderWay(server[s])
  <2> SUFFICES ASSUME NEW s \in Server, NEW i \in UnderWay(server[s]) PROVE i \in Id
    OBVIOUS
  <2>1. server[s].inbox \in Seq(Id \X Nat) /\ server[s].work \in SUBSET Id
    BY <1>1 DEF Types, ServerTypes, Service
  <2>2. QED
    BY <2>1 DEF UnderWay
<1>4. HeardTypes' /\ CallsInv'
  BY <1>1, <1>3, CallsStay DEF IndInv, Others
<1>5. QED
  BY <1>2, <1>4 DEF IndInv, Types

\* A caller shares the sender, or makes one.
LEMMA GrpcSetRpcClientStep ==
  ASSUME IndInv, NEW c \in Caller, GrpcSetRpcClient(c), UNCHANGED <<role, single>>
  PROVE  IndInv'
<1>1. /\ Grpc /\ UNCHANGED <<kind, lock, evicted, asker, heard, server, queue, undefVars, Others>>
      /\ user' = [user EXCEPT ![c].at = "ready", ![c].o = cur', ![c].num = 1, ![c].left = FALSE]
  BY DEF GrpcSetRpcClient, Others
<1>2. /\ conn \in Seq(Connection) /\ Len(conn) \in Nat /\ cur \in 0..Len(conn)
      /\ user \in [Caller -> Using] /\ Types /\ evicted \subseteq Caller
  BY <1>1, OverGrpc DEF Types, ClientTypes
<1>3. /\ conn' \in Seq(Connection) /\ Len(conn) <= Len(conn') /\ cur' \in 1..Len(conn')
      /\ \A o \in 1..Len(conn') :
           /\ conn'[o].alive /\ conn'[o].clients # {}
           /\ conn'[o].table = {} /\ conn'[o].index = {}
           /\ conn'[o].inbox = <<>> \/ (o \in 1..Len(conn) /\ conn'[o].inbox = conn[o].inbox)
           /\ conn'[o].hand = <<>> \/ (o \in 1..Len(conn) /\ conn'[o].hand = conn[o].hand)
  <2>1. CASE cur # 0 /\ conn' = [conn EXCEPT ![cur].counter = @ + 1] /\ UNCHANGED cur
    <3>1. cur \in 1..Len(conn)
      BY <1>2, <2>1
    <3>2. PICK x : x = conn[cur]
      OBVIOUS
    <3>3. x \in Connection /\ x.alive /\ x.clients # {} /\ x.table = {} /\ x.index = {}
      BY <1>1, <3>1, <3>2, Senders
    <3>4. PICK n : n \in Nat /\ n = x.counter + 1
      BY <3>3 DEF Connection
    <3>5. PICK y : y = [x EXCEPT !.counter = n]
      OBVIOUS
    <3>6. /\ y \in Connection /\ y.alive = x.alive /\ y.clients = x.clients /\ y.table = x.table
          /\ y.index = x.index /\ y.inbox = x.inbox /\ y.hand = x.hand
      BY <3>3, <3>4, <3>5 DEF Connection
    <3>7. conn' = [conn EXCEPT ![cur] = y]
      BY <2>1, <3>2, <3>4, <3>5
    <3>8. /\ conn' \in Seq(Connection) /\ Len(conn') = Len(conn) /\ conn'[cur] = y
          /\ \A p \in 1..Len(conn) : p # cur => conn'[p] = conn[p]
      BY <1>2, <3>1, <3>6, <3>7, Changed
    <3>9. QED
      BY <1>1, <1>2, <2>1, <3>1, <3>2, <3>3, <3>6, <3>8, Senders
  <2>2. CASE /\ cur = 0
             /\ conn' = Append(conn, [NewConnection("up") EXCEPT
                                        !.counter = 1, !.clients = {<<1, c>>}])
             /\ cur' = Len(conn) + 1
    <3>1. PICK x : x = NewConnection("up")
      OBVIOUS
    <3>2. /\ x \in Connection /\ x.alive = TRUE /\ x.table = {} /\ x.index = {} /\ x.inbox = <<>>
          /\ x.hand = <<>>
      BY <3>1, NewIsConnection DEF NewConnection
    <3>3. PICK k : k \in SUBSET (Nat \X Caller) /\ k = {<<1, c>>}
      <4>1. {<<1, c>>} \in SUBSET (Nat \X Caller)
        OBVIOUS
      <4>2. QED
        BY <4>1
    <3>4. PICK y : y = [x EXCEPT !.counter = 1, !.clients = k]
      OBVIOUS
    <3>5. /\ y \in Connection /\ y.alive = TRUE /\ y.clients = k /\ y.table = {} /\ y.index = {}
          /\ y.inbox = <<>> /\ y.hand = <<>>
      BY <3>2, <3>3, <3>4 DEF Connection
    <3>6. conn' = Append(conn, y)
      BY <2>2, <3>1, <3>3, <3>4
    <3>7. /\ conn' \in Seq(Connection) /\ Len(conn') = Len(conn) + 1 /\ conn'[Len(conn) + 1] = y
          /\ \A p \in 1..Len(conn) : conn'[p] = conn[p]
      BY <1>2, <3>5, <3>6, Added
    <3>8. \A p \in 1..Len(conn') : p \in 1..Len(conn) \/ p = Len(conn) + 1
      BY <1>2, <3>7
    <3>9. k # {}
      BY <3>3
    <3>10. ASSUME NEW o \in 1..Len(conn')
           PROVE  /\ conn'[o].alive /\ conn'[o].clients # {}
                  /\ conn'[o].table = {} /\ conn'[o].index = {}
                  /\ conn'[o].inbox = <<>> \/ (o \in 1..Len(conn) /\ conn'[o].inbox = conn[o].inbox)
                  /\ conn'[o].hand = <<>> \/ (o \in 1..Len(conn) /\ conn'[o].hand = conn[o].hand)
      <4>1. CASE o \in 1..Len(conn)
        BY <1>1, <3>7, <4>1, Senders
      <4>2. CASE o = Len(conn) + 1
        BY <3>5, <3>7, <3>9, <4>2
      <4>3. QED
        BY <3>8, <4>1, <4>2
    <3>11. Len(conn) <= Len(conn') /\ cur' \in 1..Len(conn')
      BY <1>2, <2>2, <3>7
    <3>12. QED
      BY <3>7, <3>10, <3>11
  <2>3. QED
    BY <2>1, <2>2 DEF GrpcSetRpcClient
<1>4. PICK n : n \in Nat /\ n = cur'
  BY <1>3
<1>5. PICK x : x = user[c]
  OBVIOUS
<1>6. PICK y : y = [x EXCEPT !.at = "ready", !.o = n, !.num = 1, !.left = FALSE]
  OBVIOUS
<1>7. x \in Using
  BY <1>2, <1>5
<1>8. y \in Using /\ y.at = "ready" /\ y.o = n
  <2>1. "ready" \in UserAt /\ 1 \in Nat /\ FALSE \in BOOLEAN
    BY DEF UserAt
  <2>2. QED
    BY <1>4, <1>6, <1>7, <2>1 DEF Using
<1>9. user' = [user EXCEPT ![c] = y]
  BY <1>1, <1>2, <1>4, <1>5, <1>6
<1>10. user' \in [Caller -> Using] /\ user'[c] = y /\ \A d \in Caller : d # c => user'[d] = user[d]
  BY <1>2, <1>8, <1>9, UserChanged
<1>11. \A d \in Caller :
         /\ user'[d].at # "asking"
         /\ role[d] \in {"remote", "facility"} /\ user'[d].at # "out" => user'[d].o \in 1..Len(conn')
  <2> SUFFICES ASSUME NEW d \in Caller
               PROVE  /\ user'[d].at # "asking"
                      /\ role[d] \in {"remote", "facility"} /\ user'[d].at # "out" =>
                           user'[d].o \in 1..Len(conn')
    OBVIOUS
  <2>1. CASE d = c
    BY <1>3, <1>4, <1>8, <1>10, <2>1
  <2>2. CASE d # c
    <3>1. \A p : p \in 1..Len(conn) => p \in 1..Len(conn')
      BY <1>2, <1>3
    <3>2. QED
      BY <1>1, <1>10, <2>2, <3>1, Senders
  <2>3. QED
    BY <2>1, <2>2
<1>12. ClientTypes' /\ ClientsInv' /\ RepliesAreTrue'
  BY <1>1, <1>2, <1>3, <1>10, <1>11, GrpcPeopleStay DEF Others
<1>13. QED
  BY <1>1, <1>12, GrpcClientsAlone

\* One caller's place in the sender changes, and nothing else.
LEMMA GrpcUserStep ==
  ASSUME IndInv, Grpc, NEW c \in Caller, NEW x \in Using, user' = [user EXCEPT ![c] = x],
         x.at # "asking", role[c] \in {"remote", "facility"} /\ x.at # "out" => x.o \in 1..Len(conn),
         UNCHANGED <<kind, conn, cur, lock, evicted, asker, heard, server, queue, undefVars, Others>>
  PROVE  IndInv'
<1>1. /\ conn \in Seq(Connection) /\ Len(conn) \in Nat /\ cur \in 0..Len(conn) /\ Types
      /\ evicted \subseteq Caller
  BY OverGrpc DEF Types, ClientTypes
<1>2. user' \in [Caller -> Using] /\ user'[c] = x /\ \A d \in Caller : d # c => user'[d] = user[d]
  BY <1>1, UserChanged
<1>3. \A d \in Caller :
        /\ user'[d].at # "asking"
        /\ role[d] \in {"remote", "facility"} /\ user'[d].at # "out" => user'[d].o \in 1..Len(conn')
  <2> SUFFICES ASSUME NEW d \in Caller
               PROVE  /\ user'[d].at # "asking"
                      /\ role[d] \in {"remote", "facility"} /\ user'[d].at # "out" =>
                           user'[d].o \in 1..Len(conn)
    OBVIOUS
  <2>1. CASE d = c
    BY <1>2, <2>1
  <2>2. CASE d # c
    BY <1>2, <2>2, Senders
  <2>3. QED
    BY <2>1, <2>2
<1>4. \A o \in 1..Len(conn') :
        /\ conn'[o].alive /\ conn'[o].clients # {}
        /\ conn'[o].table = {} /\ conn'[o].index = {}
        /\ o \in 1..Len(conn) /\ conn'[o].inbox = conn[o].inbox /\ conn'[o].hand = conn[o].hand
  BY Senders
<1>5. conn' \in Seq(Connection) /\ Len(conn) <= Len(conn') /\ cur' \in 0..Len(conn')
  BY <1>1
<1>6. ClientTypes' /\ ClientsInv' /\ RepliesAreTrue'
  BY <1>1, <1>2, <1>3, <1>4, <1>5, GrpcPeopleStay DEF Others
<1>7. QED
  BY <1>6, GrpcClientsAlone

\* deregisterFacility lets the sender go: the caller is no client any more.
LEMMA RemoteForgetsStep ==
  ASSUME IndInv, NEW c \in Caller, RemoteForgets(c)
  PROVE  IndInv'
<1>1. /\ user[c].at = "ready" /\ user[c].left /\ lock # c
      /\ user' = [user EXCEPT ![c].at = "out", ![c].o = 0]
      /\ UNCHANGED <<kind, conn, cur, lock, evicted, asker, heard, server, queue, undefVars, Others>>
  BY DEF RemoteForgets, grpcVars, roleVars, Others
<1>2. /\ Types /\ ClientsInv /\ user \in [Caller -> Using] /\ conn \in Seq(Connection)
      /\ Len(conn) \in Nat
  BY DEF IndInv, Types, ClientTypes
<1>3. PICK x : x = user[c]
  OBVIOUS
<1>4. PICK y : y = [x EXCEPT !.at = "out", !.o = 0]
  OBVIOUS
<1>5. y \in Using /\ y.at = "out" /\ y.o = 0
  <2>1. x \in Using /\ "out" \in UserAt /\ 0 \in Nat
    BY <1>2, <1>3 DEF UserAt
  <2>2. QED
    BY <1>4, <2>1 DEF Using
<1>6. user' = [user EXCEPT ![c] = y]
  BY <1>1, <1>2, <1>3, <1>4
<1>7. CASE Grpc
  BY <1>1, <1>5, <1>6, <1>7, GrpcUserStep
<1>8. CASE ~Grpc
  <2>1. user' \in [Caller -> Using] /\ user'[c] = y /\ \A d \in Caller : d # c => user'[d] = user[d]
    BY <1>2, <1>5, <1>6, UserChanged
  <2>2. UNCHANGED <<kind, conn, cur, lock, evicted, asker, heard, server, queue, misused, strayed,
                    raced, belated, reactor, single, role>>
    BY <1>1 DEF undefVars, Others
  <2>3. ClientTypes'
    BY <1>2, <2>1, <2>2 DEF Types, ClientTypes
  <2>4. \A d \in Caller : /\ Numbered(d)' => d # c /\ Numbered(d)
                          /\ user'[d].at = "asking" => d # c /\ user[d].at = "asking"
                          /\ user'[d].at = "adding" => d # c /\ user[d].at = "adding"
    BY <1>5, <2>1 DEF Numbered
  <2>5. OneIsAlive' /\ AskersAreTrue' /\ TablesAreTrue' /\ FreedIsNotUsed'
    BY <1>2, <2>2 DEF ClientsInv, OneIsAlive, AskersAreTrue, TablesAreTrue, FreedIsNotUsed, Grpc,
       RabbitMQ, Socket, Redis
  <2>6. PointersAreTrue'
    <3> SUFFICES
          /\ \A d \in Caller :
               /\ user'[d].at \in {"adding", "ready", "asking"} => user'[d].o \in 1..Len(conn)
               /\ Numbered(d)' => user'[d].num \in 1..conn[user'[d].o].counter
          /\ \A d, e \in Caller :
               Numbered(d)' /\ Numbered(e)' /\ user'[d].o = user'[e].o /\ user'[d].num = user'[e].num
                 => d = e
          /\ \A d \in Caller : user'[d].at = "asking" =>
               /\ Redis \/ RabbitMQ
               /\ user'[d].id \in 1..Len(asker) /\ asker[user'[d].id].o = user'[d].o
      BY <2>2 DEF PointersAreTrue, Grpc, Redis, RabbitMQ
    <3>1. PointersAreTrue
      BY <1>2 DEF ClientsInv
    <3>2. QED
      BY <1>5, <1>8, <2>1, <2>4, <3>1 DEF PointersAreTrue
  <2>7. ClientsAreUsers'
    <3> SUFFICES ASSUME NEW o \in 1..Len(conn), conn[o].alive, NEW p \in conn[o].clients
                 PROVE  /\ Numbered(p[2])' /\ ~user'[p[2]].left
                        /\ user'[p[2]].o = o /\ user'[p[2]].num = p[1]
      BY <2>2 DEF ClientsAreUsers
    <3>1. /\ Numbered(p[2]) /\ ~user[p[2]].left /\ user[p[2]].o = o /\ user[p[2]].num = p[1]
      BY <1>2, <1>8 DEF ClientsInv, ClientsAreUsers
    <3>2. p[2] \in Caller
      BY <1>2, Entries
    <3>3. user'[p[2]] = user[p[2]]
      BY <1>1, <2>1, <3>1, <3>2
    <3>4. QED
      BY <3>1, <3>3 DEF Numbered
  <2>8. UsersAreClients'
    <3>1. UsersAreClients
      BY <1>2 DEF ClientsInv
    <3>2. \A d \in Caller :
            /\ Numbered(d)' /\ ~user'[d].left /\ d \notin evicted =>
                 IF conn[user'[d].o].alive THEN <<user'[d].num, d>> \in conn[user'[d].o].clients
                 ELSE raced
            /\ user'[d].at = "adding" /\ ~conn[user'[d].o].alive => raced
      BY <1>8, <2>1, <2>4, <3>1 DEF UsersAreClients
    <3>3. QED
      BY <2>2, <3>2 DEF UsersAreClients
  <2>9. FixedClients'
    <3>1. FixedClients
      BY <1>2 DEF ClientsInv
    <3>2. QED
      BY <1>8, <2>2, <2>4, <3>1 DEF FixedClients, Grpc, Socket
  <2>10. ServerTypes' /\ ServersInv' /\ RepliesAreTrue' /\ HeardTypes' /\ CallsInv'
    BY <1>1, <1>2, MessagesStay DEF Longer
  <2>11. QED
    BY <2>3, <2>5, <2>6, <2>7, <2>8, <2>9, <2>10 DEF IndInv, Types, ClientsInv
<1>9. QED
  BY <1>7, <1>8

\* The calls of everybody who shares the sender are told to stop.
LEMMA GrpcRemoveRpcClientStep ==
  ASSUME IndInv, NEW c \in Caller, GrpcRemoveRpcClient(c), UNCHANGED <<role, single>>
  PROVE  IndInv'
<1>1. /\ Grpc /\ user[c].at = "ready" /\ user' = [user EXCEPT ![c].left = TRUE]
      /\ UNCHANGED <<kind, lock, asker, heard, server, queue, undefVars, role, single>>
  BY DEF GrpcRemoveRpcClient
<1>2. /\ conn \in Seq(Connection) /\ Len(conn) \in Nat /\ cur \in 0..Len(conn)
      /\ user \in [Caller -> Using] /\ Types /\ evicted \subseteq Caller /\ ServersInv
      /\ reactor \in [Id -> Reactor] /\ heard \in [Id -> Seq(Call)] /\ HeardInv
  BY <1>1, OverGrpc DEF Types, ClientTypes
<1>3. PICK x : x = user[c]
  OBVIOUS
<1>4. PICK y : y = [x EXCEPT !.left = TRUE]
  OBVIOUS
<1>5. y \in Using /\ y.at = "ready" /\ y.o = x.o
  <2>1. x \in Using /\ x.at = "ready"
    BY <1>1, <1>2, <1>3
  <2>2. QED
    BY <1>4, <2>1 DEF Using
<1>6. user' = [user EXCEPT ![c] = y]
  BY <1>1, <1>2, <1>3, <1>4
<1>7. role[c] \in {"remote", "facility"} => y.o \in 1..Len(conn)
  BY <1>1, <1>3, <1>5, Senders
<1>8. CASE cur = 0
  <2>1. UNCHANGED <<conn, cur, evicted, Others>>
    BY <1>1, <1>8 DEF GrpcRemoveRpcClient, Others
  <2>2. QED
    BY <1>1, <1>5, <1>6, <1>7, <2>1, GrpcUserStep
<1>9. CASE cur # 0
  <2>1. cur \in 1..Len(conn)
    BY <1>2, <1>9
  <2>2. PICK u : u = conn[cur]
    OBVIOUS
  <2>3. u \in Connection /\ u.alive /\ u.clients # {} /\ u.table = {} /\ u.index = {}
    BY <1>1, <2>1, <2>2, Senders
  <2>4. PICK v : v = [u EXCEPT !.running = FALSE]
    OBVIOUS
  <2>5. /\ v \in Connection /\ v.alive = u.alive /\ v.clients = u.clients /\ v.table = u.table
        /\ v.index = u.index /\ v.inbox = u.inbox /\ v.hand = u.hand
    BY <2>3, <2>4 DEF Connection
  <2>6. conn' = [conn EXCEPT ![cur] = v]
    BY <1>9, <2>2, <2>4 DEF GrpcRemoveRpcClient
  <2>7. /\ conn' \in Seq(Connection) /\ Len(conn') = Len(conn) /\ conn'[cur] = v
        /\ \A p \in 1..Len(conn) : p # cur => conn'[p] = conn[p]
    BY <1>2, <2>1, <2>5, <2>6, Changed
  <2>8. /\ Len(conn) <= Len(conn')
        /\ \A o \in 1..Len(conn') :
             /\ conn'[o].alive /\ conn'[o].clients # {}
             /\ conn'[o].table = {} /\ conn'[o].index = {}
             /\ o \in 1..Len(conn) /\ conn'[o].inbox = conn[o].inbox /\ conn'[o].hand = conn[o].hand
    <3>1. Len(conn') = Len(conn) /\ Len(conn) <= Len(conn')
      BY <1>2, <2>7
    <3>2. ASSUME NEW o \in 1..Len(conn)
          PROVE  /\ conn'[o].alive /\ conn'[o].clients # {}
                 /\ conn'[o].table = {} /\ conn'[o].index = {}
                 /\ conn'[o].inbox = conn[o].inbox /\ conn'[o].hand = conn[o].hand
      <4>1. CASE o = cur
        BY <2>2, <2>3, <2>5, <2>7, <4>1
      <4>2. CASE o # cur
        BY <1>1, <2>7, <4>2, Senders
      <4>3. QED
        BY <4>1, <4>2
    <3>3. QED
      BY <3>1, <3>2
  <2>9. user' \in [Caller -> Using] /\ user'[c] = y /\ \A d \in Caller : d # c => user'[d] = user[d]
    BY <1>2, <1>5, <1>6, UserChanged
  <2>10. \A d \in Caller :
           /\ user'[d].at # "asking"
           /\ role[d] \in {"remote", "facility"} /\ user'[d].at # "out" => user'[d].o \in 1..Len(conn')
    <3> SUFFICES ASSUME NEW d \in Caller
                 PROVE  /\ user'[d].at # "asking"
                        /\ role[d] \in {"remote", "facility"} /\ user'[d].at # "out" =>
                             user'[d].o \in 1..Len(conn)
      BY <2>7
    <3>1. CASE d = c
      BY <1>5, <1>7, <2>9, <3>1
    <3>2. CASE d # c
      BY <1>1, <2>9, <3>2, Senders
    <3>3. QED
      BY <3>1, <3>2
  <2>11. evicted \subseteq evicted' /\ evicted' \subseteq Caller /\ cur' = 0 /\ cur' \in 0..Len(conn')
    BY <1>2, <1>9, <2>7 DEF GrpcRemoveRpcClient
  <2>12. ClientTypes' /\ ClientsInv' /\ RepliesAreTrue'
    BY <1>1, <2>7, <2>8, <2>9, <2>10, <2>11, GrpcPeopleStay
  <2>13. ServerTypes' /\ ServersInv'
    BY <1>1, <1>2, ServersStay DEF Longer
  <2>14. reactor' = [i \in Id |-> IF i \in Calls(cur)
           THEN [reactor[i] EXCEPT !.stopped = TRUE] ELSE reactor[i]]
    BY <1>9 DEF GrpcRemoveRpcClient
  <2>15. ASSUME NEW i \in Id
         PROVE  /\ reactor'[i] \in Reactor /\ Writing(reactor'[i])
                /\ GoodCall(i, reactor[i], heard[i])'
                /\ LastQueued(reactor'[i]) => \A t \in Server : i \notin UnderWay(server'[t])
    <3>1. PICK r : r = reactor[i]
      OBVIOUS
    <3>2. PICK h : h = heard[i]
      OBVIOUS
    <3>3. /\ r \in Reactor /\ Writing(r) /\ GoodCall(i, r, h)
          /\ LastQueued(r) => \A t \in Server : i \notin UnderWay(server'[t])
      BY <1>1, <3>1, <3>2, OverGrpc
    <3>4. PICK z : z = [r EXCEPT !.stopped = TRUE]
      OBVIOUS
    <3>5. /\ z \in Reactor /\ z.at = r.at /\ z.stopped /\ z.hand = r.hand
          /\ z.reads = r.reads /\ z.writes = r.writes /\ z.resps = r.resps
      BY <3>3, <3>4 DEF Reactor
    <3>6. Writing(z) /\ (LastQueued(z) => LastQueued(r))
      BY <3>3, <3>5 DEF Writing, LastQueued
    <3>7. i \in Calls(cur) => GoodCall(i, z, h)
      <4>1. i \in Calls(cur) => i \in 1..Len(asker)
        BY DEF Calls
      <4>2. QED
        BY <3>3, <3>5, <4>1, GoodCallIs
    <3>8. PICK w : w = reactor'[i]
      OBVIOUS
    <3>9. w = r \/ (i \in Calls(cur) /\ w = z)
      BY <2>14, <3>1, <3>4, <3>8
    <3>10. GoodCall(i, w, h)'
      <4>1. GoodCall(i, w, h)
        BY <3>3, <3>7, <3>9
      <4>2. QED
        BY <1>1, <4>1 DEF GoodCall
    <3>11. heard'[i] = h
      BY <1>1, <3>2
    <3>12. QED
      BY <3>3, <3>5, <3>6, <3>8, <3>9, <3>10, <3>11 DEF GoodCall
  <2>16. GoodCalls'
    <3>1. HeardInv'
      BY <1>1, <1>2, HeardStays DEF Longer
    <3>2. reactor' \in [Id -> Reactor] /\ heard' \in [Id -> Seq(Call)]
      BY <1>1, <1>2, <2>14, <2>15
    <3>3. QED
      BY <2>15, <3>1, <3>2 DEF GoodCalls
  <2>17. QED
    BY <1>1, <2>12, <2>13, <2>16, GoodCallsAre
<1>10. QED
  BY <1>8, <1>9

\* A call starts, with a reactor of its own.
LEMMA GrpcStartCallStep ==
  ASSUME IndInv, Grpc, NEW c \in Caller, user[c].at = "ready", GrpcStartCall(c),
         belated' \in BOOLEAN, belated => belated', UNCHANGED <<role, single>>
  PROVE  IndInv'
<1>1. /\ UNCHANGED <<kind, conn, cur, lock, user, evicted, heard, queue, misused, strayed, raced,
                     role, single>>
      /\ Len(asker) < MaxId
  BY DEF GrpcStartCall, clientVars
<1>2. /\ ~Socket /\ ~Redis /\ ~RabbitMQ /\ Types /\ ClientsInv /\ ServersInv
      /\ conn \in Seq(Connection) /\ Len(conn) \in Nat /\ user \in [Caller -> Using]
      /\ asker \in Seq(Asking) /\ server \in [Server -> Service]
      /\ reactor \in [Id -> Reactor] /\ heard \in [Id -> Seq(Call)] /\ HeardInv
  BY OverGrpc
<1>3. PICK o : o = user[c].o
  OBVIOUS
<1>4. PICK i : i = Len(asker) + 1
  OBVIOUS
<1>5. PICK a : a = AsCaller(c)
  OBVIOUS
<1>6. user[c] \in Using /\ o \in Nat
  <2>1. user[c] \in Using
    BY <1>2
  <2>2. QED
    BY <1>3, <2>1 DEF Using
<1>7. a \in Asking /\ a.by = c /\ a.o = o
  BY <1>3, <1>5, <1>6 DEF AsCaller, Asking, Using
<1>8. i \in Id /\ i \notin 1..Len(asker) /\ i \in Nat
  BY <1>1, <1>2, <1>4, RpcAssumption DEF Id
<1>9. asker' = Append(asker, a)
  BY <1>5 DEF GrpcStartCall
<1>10. Longer
  BY <1>1, <1>7, <1>9 DEF Longer
<1>11. /\ asker' \in Seq(Asking) /\ Len(asker') = i /\ asker'[i] = a
       /\ \A j \in 1..Len(asker) : asker'[j] = asker[j] /\ j \in 1..Len(asker')
       /\ \A j \in 1..Len(asker') : j \in 1..Len(asker) \/ j = i
       /\ i \in 1..Len(asker') /\ Len(asker') <= MaxId
  <2>1. /\ asker' \in Seq(Asking) /\ Len(asker') = i /\ asker'[i] = a
        /\ \A j \in 1..Len(asker) : asker'[j] = asker[j]
    BY <1>2, <1>4, <1>7, <1>9, Added
  <2>2. QED
    BY <1>1, <1>2, <1>4, <2>1, RpcAssumption
<1>12. ClientTypes'
  BY <1>1, <1>2, <1>11 DEF Types, ClientTypes
<1>13. ClientsInv'
  <2>1. \A d \in Caller : user[d].at # "asking"
    BY Senders
  <2>2. OneIsAlive' /\ ClientsAreUsers' /\ UsersAreClients' /\ AskersAreTrue'
    BY <1>1, <1>2 DEF ClientsInv, OneIsAlive, ClientsAreUsers, UsersAreClients, AskersAreTrue, Grpc,
       RabbitMQ
  <2>3. PointersAreTrue'
    BY <1>1, <2>1 DEF PointersAreTrue, Grpc
  <2>4. TablesAreTrue'
    <3>1. {<<p[2], p[1]>> : p \in {}} = {}
      OBVIOUS
    <3>2. \A q \in 1..Len(conn) :
            conn[q].table = {} /\ conn[q].index = {<<p[2], p[1]>> : p \in conn[q].table}
      BY <3>1, Senders
    <3>3. QED
      BY <1>1, <3>2 DEF TablesAreTrue
  <2>5. FixedClients'
    <3>1. FixedClients
      BY <1>2 DEF ClientsInv
    <3>2. role[c] \in {"remote", "facility"} => o \in 1..Len(conn)
      BY <1>3, Senders
    <3>3. ASSUME NEW d \in Caller, role[d] \in {"remote", "facility"},
                 NEW j \in 1..Len(asker'), asker'[j].by = d
          PROVE  asker'[j].o \in 1..Len(conn)
      <4>1. CASE j \in 1..Len(asker)
        BY <1>11, <3>1, <3>3, <4>1 DEF FixedClients
      <4>2. CASE j = i
        BY <1>7, <1>11, <3>2, <3>3, <4>2
      <4>3. QED
        BY <1>11, <4>1, <4>2
    <3>4. QED
      BY <1>1, <1>2, <3>1, <3>3 DEF FixedClients, Grpc, Socket
  <2>6. FreedIsNotUsed'
    BY <1>1, <1>2 DEF ClientsInv, FreedIsNotUsed, Redis, Socket
  <2>7. QED
    BY <2>2, <2>3, <2>4, <2>5, <2>6 DEF ClientsInv
<1>14. MadeOn(i, o)'
  BY <1>7, <1>11 DEF MadeOn
<1>15. \A s \in Server : i \notin UnderWay(server[s])
  <2> SUFFICES ASSUME NEW s \in Server, i \in UnderWay(server[s]) PROVE i \in 1..Len(asker)
    BY <1>8
  <2>1. GoodService(server[s])
    BY <1>2 DEF ServersInv
  <2>2. QED
    BY <2>1 DEF GoodService, UnderWay, MadeOn
<1>16. /\ ServerTypes' /\ ServersInv'
       /\ \A s \in Server : UnderWay(server'[s]) \subseteq UnderWay(server[s]) \cup {i}
  <2>1. server' = [s \in Server |-> server'[s]]
    BY DEF GrpcStartCall
  <2>2. \A s \in Server :
          \/ server'[s] = server[s]
          \/ /\ server[s].up /\ (Socket \/ Grpc => i \notin UnderWay(server[s]))
             /\ server'[s] = [server[s] EXCEPT !.inbox = Append(@, <<i, o>>)]
    BY <1>3, <1>4, <1>15 DEF GrpcStartCall
  <2>3. QED
    BY <1>1, <1>2, <1>6, <1>8, <1>10, <1>14, <2>1, <2>2, ServersGet
<1>17. RepliesAreTrue'
  BY <1>1, <1>2, <1>10, RepliesStay DEF IndInv
<1>18. reactor[i] = NoReactor /\ heard[i] = <<>>
  BY <1>2, <1>8, OverGrpc, GoodCallIs DEF HeardInv
<1>19. PICK b : b = ({s \in Server : server[s].up /\ server[s].ready} = {})
  OBVIOUS
<1>20. PICK x : x = [NoReactor EXCEPT !.at = "open", !.closed = b]
  OBVIOUS
<1>21. x \in Reactor /\ x.writes = 0 /\ x.resps = <<>>
  <2>1. NoReactor \in Reactor
    BY <1>2, <1>8, <1>18
  <2>2. b \in BOOLEAN
    BY <1>19
  <2>3. QED
    BY <1>20, <2>1, <2>2 DEF Reactor, NoReactor
<1>22. reactor' = [reactor EXCEPT ![i] = x]
  <2>1. reactor' = [reactor EXCEPT ![i].at = "open", ![i].closed = b]
    BY <1>4, <1>19 DEF GrpcStartCall
  <2>2. QED
    BY <1>2, <1>18, <1>20, <2>1
<1>23. /\ reactor' \in [Id -> Reactor] /\ reactor'[i] = x
       /\ \A j \in Id : j # i => reactor'[j] = reactor[j]
  BY <1>2, <1>8, <1>21, <1>22
<1>24. ASSUME NEW j \in Id
       PROVE  /\ Writing(reactor'[j]) /\ GoodCall(j, reactor[j], heard[j])'
              /\ LastQueued(reactor'[j]) => \A t \in Server : j \notin UnderWay(server'[t])
  <2>1. CASE j = i
    <3>1. Writing(x) /\ ~LastQueued(x)
      BY <1>21 DEF Writing, LastQueued
    <3>2. /\ reactor'[j] = x /\ heard'[j] = <<>> /\ j \in 1..Len(asker')
      BY <1>1, <1>11, <1>18, <1>23, <2>1
    <3>3. QED
      BY <3>1, <3>2 DEF GoodCall
  <2>2. CASE j # i
    <3>1. PICK r : r = reactor[j]
      OBVIOUS
    <3>2. PICK h : h = heard[j]
      OBVIOUS
    <3>3. /\ Writing(r) /\ GoodCall(j, r, h)
          /\ LastQueued(r) => \A t \in Server : j \notin UnderWay(server[t])
      BY <3>1, <3>2, OverGrpc
    <3>4. reactor'[j] = r /\ heard'[j] = h
      BY <1>1, <1>23, <2>2, <3>1, <3>2
    <3>5. j \notin 1..Len(asker') => j \notin 1..Len(asker)
      BY <1>11
    <3>6. (\E k \in DOMAIN h : h[k].final) => j \in 1..Len(asker) /\ asker'[j] = asker[j]
      BY <1>2, <1>11, <3>2 DEF HeardInv
    <3>7. GoodCall(j, r, h)'
      BY <1>1, <3>3, <3>5, <3>6 DEF GoodCall
    <3>8. LastQueued(r) => \A t \in Server : j \notin UnderWay(server'[t])
      BY <1>16, <2>2, <3>3
    <3>9. QED
      BY <3>3, <3>4, <3>7, <3>8 DEF GoodCall
  <2>3. QED
    BY <2>1, <2>2
<1>25. GoodCalls'
  <2>1. HeardInv'
    BY <1>1, <1>2, <1>10, HeardStays
  <2>2. QED
    BY <1>1, <1>2, <1>23, <1>24, <2>1 DEF GoodCalls
<1>26. QED
  BY <1>1, <1>12, <1>13, <1>16, <1>17, <1>25, GoodCallsAre

LEMMA GrpcSendRequestStep ==
  ASSUME IndInv, NEW c \in Caller, GrpcSendRequest(c), UNCHANGED <<role, single>>
  PROVE  IndInv'
<1>1. /\ Grpc /\ user[c].at = "ready" /\ GrpcStartCall(c)
      /\ belated' = (belated \/ user[c].left)
  BY DEF GrpcSendRequest
<1>2. belated \in BOOLEAN /\ user[c].left \in BOOLEAN
  <2>1. user[c] \in Using
    BY <1>1, OverGrpc
  <2>2. QED
    BY <1>1, <2>1, OverGrpc DEF Using
<1>3. belated' \in BOOLEAN /\ (belated => belated')
  BY <1>1, <1>2
<1>4. QED
  BY <1>1, <1>3, GrpcStartCallStep

LEMMA GrpcClientFacilityStep ==
  ASSUME IndInv, NEW c \in Caller, GrpcClientFacility(c), role[c] \notin {"remote", "facility"},
         UNCHANGED <<role, single>>
  PROVE  IndInv'
<1>1. CASE /\ Grpc /\ user[c].at = "out"
           /\ user' = [user EXCEPT ![c].at = "ready"]
           /\ UNCHANGED <<kind, conn, cur, lock, evicted, asker, heard, server, queue, lost,
                          faults, undefVars, reactor>>
  <2>1. PICK x : x = user[c]
    OBVIOUS
  <2>2. x \in Using /\ user \in [Caller -> Using] /\ "ready" \in UserAt
    BY <1>1, <2>1, OverGrpc DEF UserAt
  <2>3. PICK y : y = [x EXCEPT !.at = "ready"]
    OBVIOUS
  <2>4. y \in Using /\ y.at = "ready"
    BY <2>2, <2>3 DEF Using
  <2>5. user' = [user EXCEPT ![c] = y]
    BY <1>1, <2>1, <2>2, <2>3
  <2>6. QED
    BY <1>1, <2>4, <2>5, GrpcUserStep DEF Others
<1>2. CASE Grpc /\ user[c].at = "ready" /\ GrpcStartCall(c) /\ UNCHANGED belated
  <2>1. belated' \in BOOLEAN /\ (belated => belated')
    BY <1>2, OverGrpc
  <2>2. QED
    BY <1>2, <2>1, GrpcStartCallStep
<1>3. QED
  BY <1>1, <1>2 DEF GrpcClientFacility

-----------------------------------------------------------------------------
(* Every step of the system is one of those above.                         *)

\* What the users of a transport can make it do.
RedisCalls(c) ==
  \/ RedisRpcClientConnection(c) \/ RedisAddRpcClient(c) \/ RedisSendRequest(c)
  \/ RedisRemoveRpcClient(c) \/ RedisFreeRpcClient(c)

RabbitMQCalls(c) ==
  \/ RabbitMQRpcClientConnection(c) \/ RabbitMQAddRpcClient(c) \/ RabbitMQSendRequest(c)
  \/ RabbitMQRemoveRpcClient(c) \/ RabbitMQFreeRpcClient(c)

SocketCalls(c) == SocketRpcClient(c) \/ SocketSendRequest(c) \/ SocketRemoveRpcClient(c)

LEMMA RedisCallsStep ==
  ASSUME IndInv, NEW c \in Caller, RedisCalls(c), UNCHANGED Others
  PROVE  IndInv'
<1>1. CASE RedisRpcClientConnection(c)
  BY <1>1, FindOrConnectStep DEF RedisRpcClientConnection
<1>2. CASE RedisAddRpcClient(c)
  BY <1>2, TakeNumberStep DEF RedisAddRpcClient
<1>3. CASE RedisSendRequest(c)
  <2>1. CASE Redis /\ EnterRequest(c)
    BY <2>1, EnterRequestStep
  <2>2. CASE Redis /\ user[c].at = "asking" /\ ~conn[user[c].o].alive /\ Misuse(c)
    BY <2>2, MisuseStep DEF Redis, Grpc
  <2>3. CASE /\ Redis /\ Sent(c) /\ UNCHANGED queue
             /\ \/ server' = [s \in Server |->
                     IF server[s].up
                     THEN [server[s] EXCEPT !.inbox = Append(@, <<user[c].id, user[c].o>>)]
                     ELSE server[s]]
                \/ UNCHANGED server
    BY <2>3, RedisPublishStep
  <2>4. QED
    BY <1>3, <2>1, <2>2, <2>3 DEF RedisSendRequest
<1>4. CASE RedisRemoveRpcClient(c)
  BY <1>4, LeaveConnectionStep DEF RedisRemoveRpcClient
<1>5. CASE RedisFreeRpcClient(c)
  BY <1>5, FreeConnectionStep DEF RedisFreeRpcClient
<1>6. QED
  BY <1>1, <1>2, <1>3, <1>4, <1>5 DEF RedisCalls

LEMMA RabbitMQCallsStep ==
  ASSUME IndInv, NEW c \in Caller, RabbitMQCalls(c), UNCHANGED Others
  PROVE  IndInv'
<1>1. CASE RabbitMQRpcClientConnection(c)
  BY <1>1, FindOrConnectStep DEF RabbitMQRpcClientConnection
<1>2. CASE RabbitMQAddRpcClient(c)
  BY <1>2, TakeNumberStep DEF RabbitMQAddRpcClient
<1>3. CASE RabbitMQSendRequest(c)
  <2>1. CASE RabbitMQ /\ EnterRequest(c)
    BY <2>1, EnterRequestStep
  <2>2. CASE RabbitMQ /\ user[c].at = "asking" /\ ~conn[user[c].o].alive /\ Misuse(c)
    BY <2>2, MisuseStep DEF RabbitMQ, Grpc
  <2>3. CASE /\ RabbitMQ /\ Sent(c) /\ UNCHANGED server
             /\ queue' = Append(queue, <<user[c].id, user[c].o>>)
    BY <2>3, RabbitPublishStep
  <2>4. QED
    BY <1>3, <2>1, <2>2, <2>3 DEF RabbitMQSendRequest
<1>4. CASE RabbitMQRemoveRpcClient(c)
  BY <1>4, LeaveConnectionStep DEF RabbitMQRemoveRpcClient
<1>5. CASE RabbitMQFreeRpcClient(c)
  BY <1>5, FreeConnectionStep DEF RabbitMQFreeRpcClient
<1>6. QED
  BY <1>1, <1>2, <1>3, <1>4, <1>5 DEF RabbitMQCalls

LEMMA SocketCallsStep ==
  ASSUME IndInv, NEW c \in Caller, SocketCalls(c), UNCHANGED Others
  PROVE  IndInv'
BY SocketRpcClientStep, SocketSendRequestStep, SocketRemoveRpcClientStep DEF SocketCalls

\* Every kind of user asks in these ways, with an identity or without one.
LEMMA NodesCall ==
  ASSUME NEW c, NodeStep(c)
  PROVE  (RedisCalls(c) \/ RabbitMQCalls(c) \/ SocketCalls(c)) /\ role' = role
<1>1. ASSUME \/ RedisTypedFacility(c) \/ RedisOneShotCall(c) \/ RedisOneShotCallNoReply(c)
             \/ RedisRegisterFacility(c) \/ RedisDeregisterFacility(c)
      PROVE  RedisCalls(c) /\ role' = role
  <2>1. CASE RedisTypedFacility(c)
    BY Zenon, <2>1 DEF RedisTypedFacility, RedisFacility, RedisFacilityWithIdentity, RedisCalls,
       roleVars
  <2>2. CASE RedisOneShotCall(c)
    BY Zenon, <2>2 DEF RedisOneShotCall, RedisOneShotRemoteCall, RedisOneShotRemoteCallWithIdentity,
       RedisCalls, roleVars
  <2>3. CASE RedisOneShotCallNoReply(c)
    BY Zenon, <2>3 DEF RedisOneShotCallNoReply, RedisOneShotRemoteCallNoReply,
       RedisOneShotRemoteCallNoReplyWithIdentity, RedisCalls, roleVars
  <2>4. CASE RedisRegisterFacility(c) \/ RedisDeregisterFacility(c)
    BY Zenon, <2>4 DEF RedisRegisterFacility, RedisDeregisterFacility, RedisCalls, roleVars
  <2>5. QED
    BY <1>1, <2>1, <2>2, <2>3, <2>4
<1>2. ASSUME \/ RabbitMQTypedFacility(c) \/ RabbitMQOneShotCall(c) \/ RabbitMQOneShotCallNoReply(c)
             \/ RabbitMQRegisterFacility(c) \/ RabbitMQDeregisterFacility(c)
      PROVE  RabbitMQCalls(c) /\ role' = role
  <2>1. CASE RabbitMQTypedFacility(c)
    BY Zenon, <2>1 DEF RabbitMQTypedFacility, RabbitMQFacility, RabbitMQFacilityWithIdentity,
       RabbitMQCalls, roleVars
  <2>2. CASE RabbitMQOneShotCall(c)
    BY Zenon, <2>2 DEF RabbitMQOneShotCall, RabbitMQOneShotRemoteCall,
       RabbitMQOneShotRemoteCallWithIdentity, RabbitMQCalls, roleVars
  <2>3. CASE RabbitMQOneShotCallNoReply(c)
    BY Zenon, <2>3 DEF RabbitMQOneShotCallNoReply, RabbitMQOneShotRemoteCallNoReply,
       RabbitMQOneShotRemoteCallNoReplyWithIdentity, RabbitMQCalls, roleVars
  <2>4. CASE RabbitMQRegisterFacility(c) \/ RabbitMQDeregisterFacility(c)
    BY Zenon, <2>4 DEF RabbitMQRegisterFacility, RabbitMQDeregisterFacility, RabbitMQCalls, roleVars
  <2>5. QED
    BY <1>2, <2>1, <2>2, <2>3, <2>4
<1>3. ASSUME \/ SocketTypedFacility(c) \/ SocketOneShotCall(c) \/ SocketOneShotCallNoReply(c)
             \/ SocketRegisterFacility(c) \/ SocketDeregisterFacility(c)
      PROVE  SocketCalls(c) /\ role' = role
  <2>1. CASE SocketTypedFacility(c)
    BY Zenon, <2>1 DEF SocketTypedFacility, SocketFacility, SocketFacilityWithIdentity, SocketCalls,
       roleVars
  <2>2. CASE SocketOneShotCall(c)
    BY Zenon, <2>2 DEF SocketOneShotCall, SocketOneShotRemoteCall,
       SocketOneShotRemoteCallWithIdentity, SocketCalls, roleVars
  <2>3. CASE SocketOneShotCallNoReply(c)
    BY Zenon, <2>3 DEF SocketOneShotCallNoReply, SocketOneShotRemoteCallNoReply,
       SocketOneShotRemoteCallNoReplyWithIdentity, SocketCalls, roleVars
  <2>4. CASE SocketRegisterFacility(c) \/ SocketDeregisterFacility(c)
    BY Zenon, <2>4 DEF SocketRegisterFacility, SocketDeregisterFacility, SocketCalls, roleVars
  <2>5. QED
    BY <1>3, <2>1, <2>2, <2>3, <2>4
<1>4. QED
  BY Zenon, <1>1, <1>2, <1>3 DEF NodeStep

LEMMA CallNextStep ==
  ASSUME IndInv, NEW c \in Caller, CallNext(c)
  PROVE  IndInv'
<1>1. CallStep(c) /\ UNCHANGED Others
  BY DEF CallNext, grpcVars, roleVars, Others
<1>2. RedisCalls(c) \/ RabbitMQCalls(c)
  BY <1>1 DEF CallStep, RedisCalls, RabbitMQCalls
<1>3. QED
  BY <1>1, <1>2, RedisCallsStep, RabbitMQCallsStep

LEMMA NodeNextStep ==
  ASSUME IndInv, NEW c \in Caller, NodeNext(c)
  PROVE  IndInv'
<1>1. CASE NodeStep(c) /\ UNCHANGED grpcVars
  <2>1. (RedisCalls(c) \/ RabbitMQCalls(c) \/ SocketCalls(c)) /\ UNCHANGED Others
    BY <1>1, NodesCall DEF grpcVars, Others
  <2>2. QED
    BY <2>1, RedisCallsStep, RabbitMQCallsStep, SocketCallsStep
<1>2. CASE GrpcNodeStep(c)
  <2>1. CASE GrpcRegisterFacility(c)
    BY <2>1, GrpcSetRpcClientStep, GrpcSendRequestStep DEF GrpcRegisterFacility, roleVars
  <2>2. CASE GrpcDeregisterFacility(c)
    BY <2>2, GrpcRemoveRpcClientStep DEF GrpcDeregisterFacility, roleVars
  <2>3. CASE GrpcTypedClientFacility(c)
    BY <2>3, GrpcClientFacilityStep DEF GrpcTypedClientFacility, roleVars
  <2>4. QED
    BY <1>2, <2>1, <2>2, <2>3 DEF GrpcNodeStep
<1>3. CASE RemoteForgets(c)
  BY <1>3, RemoteForgetsStep
<1>4. QED
  BY <1>1, <1>2, <1>3 DEF NodeNext

LEMMA ThreadNextStep ==
  ASSUME IndInv, NEW o \in 1..Len(conn), ThreadNext(o)
  PROVE  IndInv'
<1>1. ThreadStep(o) /\ UNCHANGED Others
  BY DEF ThreadNext, grpcVars, Others
<1>2. CASE RedisRpcClientRun(o) \/ RabbitMQRpcClientRun(o)
  <2>1. /\ Redis \/ RabbitMQ
        /\ TakeReply(o) \/ DispatchReply(o) \/ ReceiverEnds(o)
    BY <1>2 DEF RedisRpcClientRun, RabbitMQRpcClientRun
  <2>2. QED
    BY <1>1, <2>1, TakeReplyStep, DispatchReplyStep, ReceiverEndsStep
<1>3. CASE SocketHandleConnect(o) \/ SocketHandleRead(o) \/ SocketPendingHandler(o)
  BY <1>1, <1>3, SocketHandleConnectStep, SocketHandleReadStep, SocketPendingHandlerStep
<1>4. QED
  BY <1>1, <1>2, <1>3 DEF ThreadStep

LEMMA CutNextStep ==
  ASSUME IndInv, NEW o \in 1..Len(conn), CutNext(o)
  PROVE  IndInv'
<1>1. CutStep(o) /\ UNCHANGED Others
  BY DEF CutNext, grpcVars, roleVars, Others
<1>2. QED
  BY <1>1, ClientCutStep, SocketBreaksStep DEF CutStep

\* What a transport's servers do.
RedisServes(s) ==
  \/ RedisRpcServer(s) \/ RedisRpcServerRun(s) \/ (Redis /\ ReplierStored(s))
  \/ \E i \in Id : Redis /\ KeepsSilent(s, i)
  \/ \E i \in Id, final \in BOOLEAN : RedisSendReply(s, i, final)

RabbitMQServes(s) ==
  \/ RabbitMQRpcServer(s) \/ RabbitMQRpcServerRun(s) \/ (RabbitMQ /\ ReplierStored(s))
  \/ \E i \in Id : RabbitMQ /\ KeepsSilent(s, i)
  \/ \E i \in Id, final \in BOOLEAN : RabbitMQSendReply(s, i, final)

SocketServes(s) ==
  \/ SocketRpcServer(s) \/ SocketRegisterConnection(s) \/ (Socket /\ ReplierStored(s))
  \/ \E i \in Id : Socket /\ KeepsSilent(s, i)
  \/ \E i \in Id, final \in BOOLEAN : SocketSendReply(s, i, final)
  \/ \E o \in 1..Len(conn) : SocketRemoveConnection(s, o)

LEMMA WrappersServe ==
  ASSUME NEW s, ServeStep(s)
  PROVE  RedisServes(s) \/ RabbitMQServes(s) \/ SocketServes(s)
<1>1. ASSUME RedisIncomingLeg(s) \/ RedisLegs(s) \/ RedisWrap(s)
      PROVE  RedisServes(s)
  BY Zenon, <1>1 DEF RedisIncomingLeg, RedisLegs, RedisWrap, RedisWrapped, RedisWrappedWithIdentity,
     RedisServes
<1>2. ASSUME RabbitMQIncomingLeg(s) \/ RabbitMQLegs(s) \/ RabbitMQWrap(s)
      PROVE  RabbitMQServes(s)
  BY Zenon, <1>2 DEF RabbitMQIncomingLeg, RabbitMQLegs, RabbitMQWrap, RabbitMQWrapped,
     RabbitMQWrappedWithIdentity, RabbitMQServes
<1>3. ASSUME SocketIncomingLeg(s) \/ SocketLegs(s) \/ SocketWrap(s)
      PROVE  SocketServes(s)
  BY Zenon, <1>3 DEF SocketIncomingLeg, SocketLegs, SocketWrap, SocketWrapped,
     SocketWrappedWithIdentity, SocketServes
<1>4. ASSUME \E o \in 1..Len(conn) : SocketRemoveConnection(s, o)
      PROVE  SocketServes(s)
  BY Zenon, <1>4 DEF SocketServes
<1>5. QED
  BY Zenon, <1>1, <1>2, <1>3, <1>4 DEF ServeStep

LEMMA ServesStep ==
  ASSUME IndInv, NEW s \in Server, UNCHANGED Others,
         RedisServes(s) \/ RabbitMQServes(s) \/ SocketServes(s)
  PROVE  IndInv'
<1>1. CASE RedisRpcServer(s) \/ RabbitMQRpcServer(s) \/ SocketRpcServer(s)
  BY <1>1, ServerStartsStep, SocketRpcServerStep DEF RedisRpcServer, RabbitMQRpcServer
<1>2. CASE RedisRpcServerRun(s) \/ RabbitMQRpcServerRun(s) \/ SocketRegisterConnection(s)
  BY <1>2, RedisRpcServerRunStep, RabbitMQRpcServerRunStep, SocketRegisterConnectionStep
<1>3. CASE ReplierStored(s)
  BY <1>3, ReplierStoredStep
<1>4. ASSUME NEW i \in Id, KeepsSilent(s, i)
      PROVE  IndInv'
  BY <1>4, KeepsSilentStep
<1>5. ASSUME NEW i \in Id, NEW final \in BOOLEAN,
             \/ RedisSendReply(s, i, final) \/ RabbitMQSendReply(s, i, final)
             \/ SocketSendReply(s, i, final)
      PROVE  IndInv'
  <2>1. CASE RedisSendReply(s, i, final)
    BY <2>1, SendReplyStep DEF RedisSendReply, Redis, Grpc
  <2>2. CASE RabbitMQSendReply(s, i, final)
    BY <2>2, SendReplyStep DEF RabbitMQSendReply, RabbitMQ, Grpc
  <2>3. CASE SocketSendReply(s, i, final)
    BY <2>3, SocketSendReplyStep
  <2>4. QED
    BY <1>5, <2>1, <2>2, <2>3
<1>6. ASSUME NEW o, SocketRemoveConnection(s, o)
      PROVE  IndInv'
  BY <1>6, SocketRemoveConnectionStep
<1>7. QED
  BY Zenon, <1>1, <1>2, <1>3, <1>4, <1>5, <1>6 DEF RedisServes, RabbitMQServes, SocketServes

LEMMA ServeNextStep ==
  ASSUME IndInv, NEW s \in Server, ServeNext(s)
  PROVE  IndInv'
<1>1. CASE ServeStep(s) /\ UNCHANGED <<grpcVars, roleVars>>
  <2>1. UNCHANGED Others
    BY <1>1 DEF grpcVars, roleVars, Others
  <2>2. QED
    BY <1>1, <2>1, WrappersServe, ServesStep
<1>2. CASE GrpcServeStep(s) /\ UNCHANGED <<single, roleVars>>
  <2>1. UNCHANGED <<role, single>>
    BY <1>2 DEF roleVars
  <2>2. CASE GrpcRegisterService(s) \/ GrpcServerDies(s)
    BY <2>1, <2>2, GrpcRegisterServiceStep, GrpcServerDiesStep
  <2>3. ASSUME NEW i \in Id, NEW final \in BOOLEAN,
               GrpcServiceFunc(s) \/ GrpcHandleResp(s, i, final) \/ GrpcEndHandling(s, i)
        PROVE  IndInv'
    BY <2>1, <2>3, GrpcServiceFuncStep, GrpcHandleRespStep, GrpcEndHandlingStep
  <2>4. CASE GrpcServiceFunc(s)
    BY <2>1, <2>4, GrpcServiceFuncStep
  <2>5. ASSUME GrpcWrap(s)
        PROVE  \/ GrpcServiceFunc(s)
               \/ \E i \in Id : GrpcEndHandling(s, i)
               \/ \E i \in Id, final \in BOOLEAN : GrpcHandleResp(s, i, final)
    BY Zenon, <2>5 DEF GrpcWrap, GrpcWrapped, GrpcWrappedWithStringIdentity
  <2>6. QED
    BY Zenon, <1>2, <2>2, <2>3, <2>4, <2>5 DEF GrpcServeStep
<1>3. QED
  BY <1>1, <1>2 DEF ServeNext

LEMMA DieNextStep ==
  ASSUME IndInv, NEW s \in Server, DieNext(s)
  PROVE  IndInv'
<1>1. UNCHANGED Others
  BY DEF DieNext, grpcVars, roleVars, Others
<1>2. ServerDies(s) \/ SocketServerDies(s)
  BY DEF DieNext
<1>3. QED
  BY <1>1, <1>2, ServerDiesStep, SocketServerDiesStep

LEMMA CallbackNextStep ==
  ASSUME IndInv, NEW i \in Id, CallbackNext(i)
  PROVE  IndInv'
<1>1. UNCHANGED <<role, single>>
  BY DEF CallbackNext, roleVars
<1>2. CASE GrpcOnWriteDone(i)
  BY <1>1, <1>2, GrpcOnWriteDoneStep
<1>3. CASE GrpcClientThread(i)
  <2>1. i \in 1..Len(asker)
    BY <1>3 DEF GrpcClientThread
  <2>2. CASE role[asker[i].by] \in {"remote", "facility"} /\ (GrpcOnReadDone(i) \/ GrpcOnDone(i))
    BY <1>1, <2>1, <2>2, GrpcOnReadDoneStep, GrpcOnDoneStep
  <2>3. CASE role[asker[i].by] = "native" /\ GrpcOneCallReactor(i)
    BY <1>1, <2>1, <2>3, GrpcOneCallReactorStep
  <2>4. CASE GrpcRunSyncClient(i) \/ GrpcCallFails(i)
    BY <1>1, <2>1, <2>4, GrpcRunSyncClientStep, GrpcCallFailsStep
  <2>5. QED
    BY <1>3, <2>2, <2>3, <2>4 DEF GrpcClientThread
<1>4. QED
  BY <1>2, <1>3 DEF CallbackNext

LEMMA BrokerNextStep ==
  ASSUME IndInv, BrokerNext
  PROVE  IndInv'
BY RabbitMQRequestExpiresStep DEF BrokerNext, grpcVars, roleVars, Others

\* What the invariant does not speak of may change.
LEMMA NothingHappens ==
  ASSUME IndInv, UNCHANGED <<kind, clientVars, asker, heard, server, queue, undefVars, Others>>
  PROVE  IndInv'
<1>1. ServerTypes' /\ ServersInv'
  <2>1. Longer
    BY DEF Longer
  <2>2. QED
    BY <2>1, ServersStay DEF IndInv
<1>2. QED
  BY <1>1, ServersAlone DEF clientVars, Others

LEMMA PortNextStep ==
  ASSUME IndInv, PortNext
  PROVE  IndInv'
<1>1. CASE GrpcFinalizeEnvironment
  BY <1>1, NothingHappens DEF GrpcFinalizeEnvironment, PortNext, rpcVars, roleVars, Others
<1>2. CASE GrpcBuildAndStart
  BY <1>2, GrpcBuildAndStartStep DEF PortNext, roleVars
<1>3. QED
  BY <1>1, <1>2 DEF PortNext

LEMMA NextStep ==
  IndInv /\ [Next]_vars => IndInv'
<1> SUFFICES ASSUME IndInv, [Next]_vars
             PROVE  IndInv'
  OBVIOUS
<1>1. ASSUME NEW c \in Caller, CallNext(c) \/ NodeNext(c)
      PROVE  IndInv'
  BY <1>1, CallNextStep, NodeNextStep
<1>2. ASSUME NEW o \in 1..Len(conn), ThreadNext(o) \/ CutNext(o)
      PROVE  IndInv'
  BY <1>2, ThreadNextStep, CutNextStep
<1>3. ASSUME NEW s \in Server, ServeNext(s) \/ DieNext(s)
      PROVE  IndInv'
  BY <1>3, ServeNextStep, DieNextStep
<1>4. ASSUME NEW i \in Id, CallbackNext(i)
      PROVE  IndInv'
  BY <1>4, CallbackNextStep
<1>5. CASE UNCHANGED vars
  BY <1>5, NothingHappens DEF vars, rpcVars, grpcVars, roleVars, Others
<1>6. QED
  BY Zenon, <1>1, <1>2, <1>3, <1>4, <1>5, BrokerNextStep, PortNextStep DEF Next

-----------------------------------------------------------------------------
(* The beginning, and what follows.                                        *)

LEMMA ServingIsGood ==
  Serving \in Service /\ GoodService(Serving) /\ UnderWay(Serving) = {}
<1>1. /\ Serving.inbox = <<>> /\ Serving.table = {} /\ Serving.index = {} /\ Serving.work = {}
      /\ Serving.up = TRUE
  BY DEF Serving, Down
<1>2. Serving \in Service
  BY DownIsGood DEF Serving, Service
<1>3. DOMAIN <<>> = {} /\ {<<p[2], p[1]>> : p \in {}} = {} /\ {p[1] : p \in {}} = {}
  OBVIOUS
<1>4. GoodService(Serving)
  BY <1>1, <1>3 DEF GoodService
<1>5. UnderWay(Serving) = {}
  BY <1>1, <1>3 DEF UnderWay
<1>6. QED
  BY <1>2, <1>4, <1>5

LEMMA NoReactorIsGood ==
  NoReactor \in Reactor /\ Writing(NoReactor) /\ ~LastQueued(NoReactor)
<1>1. <<>> \in Seq(BOOLEAN) /\ 0 \in 0..1
  OBVIOUS
<1>2. NoReactor \in Reactor
  BY <1>1 DEF NoReactor, Reactor
<1>3. Writing(NoReactor)
  BY DEF NoReactor, Writing
<1>4. QED
  BY <1>2, <1>3, NothingQueued

LEMMA InitialState ==
  ASSUME Init
  PROVE  IndInv
<1>1. PICK x \in Scenario :
        /\ kind = x.kind /\ role = x.role /\ single = x.single
        /\ server = [s \in Server |-> IF s \in x.serving THEN Serving ELSE Down]
  BY DEF Init, RpcNodesInit, Cast
<1>2. /\ role \in [Caller -> Roles] /\ single \in BOOLEAN
      /\ Socket \/ Grpc => \A s, t \in x.serving : s = t
  BY <1>1, ScenarioAssumption DEF Socket, Grpc
<1>3. /\ conn = <<>> /\ cur = 0 /\ lock = Nobody /\ Len(conn) = 0 /\ 1..Len(conn) = {}
      /\ asker = <<>> /\ Len(asker) = 0 /\ 1..Len(asker) = {} /\ queue = <<>> /\ DOMAIN queue = {}
      /\ heard = [i \in Id |-> <<>>] /\ reactor = [i \in Id |-> NoReactor] /\ evicted = {}
      /\ ~misused /\ ~strayed
      /\ misused = FALSE /\ strayed = FALSE /\ raced = FALSE /\ belated = FALSE
  BY DEF Init, RpcInit, GrpcInit
<1>4. /\ user \in [Caller -> Using]
      /\ \A c \in Caller : user[c].at = "out" /\ ~user[c].left
  <2>1. "out" \in UserAt /\ 0 \in 0..MaxId /\ 0 \in Nat /\ FALSE \in BOOLEAN
    BY RpcAssumption DEF UserAt
  <2>2. [at |-> "out", o |-> 0, num |-> 0, id |-> 0, left |-> FALSE] \in Using
    BY <2>1 DEF Using
  <2>3. user = [c \in Caller |-> [at |-> "out", o |-> 0, num |-> 0, id |-> 0, left |-> FALSE]]
    BY DEF Init, RpcInit
  <2>4. QED
    BY <2>2, <2>3
<1>5. ClientTypes
  <2>1. conn \in Seq(Connection) /\ asker \in Seq(Asking) /\ MaxId \in Nat
    BY <1>3, RpcAssumption
  <2>2. cur \in 0..Len(conn) /\ Len(asker) <= MaxId /\ lock \in Caller \cup {Nobody}
    BY <1>3, <2>1
  <2>3. evicted \subseteq Caller /\ {misused, strayed, raced, belated} \subseteq BOOLEAN
    BY <1>3
  <2>4. QED
    BY <1>2, <1>4, <2>1, <2>2, <2>3 DEF ClientTypes
<1>6. ServerTypes
  BY <1>1, <1>3, ServingIsGood, DownIsGood DEF ServerTypes
<1>7. HeardTypes
  <2>1. <<>> \in Seq(Call)
    OBVIOUS
  <2>2. QED
    BY <1>2, <1>3, <2>1, NoReactorIsGood DEF HeardTypes
<1>8. ClientsInv
  <2>1. OneIsAlive /\ AskersAreTrue /\ TablesAreTrue /\ ClientsAreUsers
    BY <1>3 DEF OneIsAlive, AskersAreTrue, TablesAreTrue, ClientsAreUsers
  <2>2. PointersAreTrue /\ UsersAreClients
    BY <1>4 DEF PointersAreTrue, UsersAreClients, Numbered
  <2>3. FixedClients
    BY <1>3, <1>4 DEF FixedClients
  <2>4. FreedIsNotUsed
    BY <1>3 DEF FreedIsNotUsed
  <2>5. QED
    BY <2>1, <2>2, <2>3, <2>4 DEF ClientsInv
<1>9. \A s \in Server : /\ GoodService(server[s]) /\ UnderWay(server[s]) = {}
                        /\ server[s].up => s \in x.serving
  <2>1. ASSUME NEW s \in Server
        PROVE  server[s] = Serving \/ (server[s] = Down /\ ~server[s].up)
    BY <1>1, DownIsGood
  <2>2. ASSUME NEW s \in Server, s \notin x.serving
        PROVE  ~server[s].up
    BY <1>1, <2>2, DownIsGood
  <2>3. QED
    BY <2>1, <2>2, ServingIsGood, DownIsGood
<1>10. ServersInv
  BY <1>2, <1>3, <1>9 DEF ServersInv, OneServer, QueueIsTrue
<1>11. RepliesAreTrue
  BY <1>3 DEF RepliesAreTrue
<1>12. \A i \in Id : heard[i] = <<>> /\ DOMAIN heard[i] = {} /\ reactor[i] = NoReactor
  BY <1>3
<1>13. HeardInv /\ EndedIsForgotten
  BY <1>12 DEF HeardInv, EndedIsForgotten, LastHeard
<1>14. SocketStages
  BY <1>3, <1>9 DEF SocketStages
<1>15. GrpcStages
  BY <1>12, NoReactorIsGood DEF GrpcStages, GoodCall
<1>16. QED
  BY <1>5, <1>6, <1>7, <1>8, <1>10, <1>11, <1>13, <1>14, <1>15 DEF IndInv, Types, CallsInv

\* The inductive invariant: the tables of every connection and server agree
\* with who made each request, and a request's last reply leaves no trace.
THEOREM InductiveInvariant == Spec => []IndInv
<1>1. Init => IndInv
  BY InitialState
<1>2. QED
  BY <1>1, NextStep, PTL DEF Spec

\* A freed connection is used by a caller only where it was freed while the
\* caller was about to be added, where another's removal took its client, or
\* where it asks when removed; by a thread, only where threads are not joined
\* (removeRPCClient and the threads of Redis and of socket RPC).
THEOREM FreedIsUsedWhereSaid == Spec => []FreedIsNotUsed
<1>1. IndInv => FreedIsNotUsed
  BY DEF IndInv, ClientsInv
<1>2. QED
  BY <1>1, InductiveInvariant, PTL

\* idToClientMap_ and clientToIDMap_ are each other's inverse and name clients
\* that are there, and a server has an entry of what its facility works on
\* until the last reply (DispatchReply, removeRPCClient, sendReply).
THEOREM TablesAlwaysAgree == Spec => []TablesAgree
<1>1. ASSUME IndInv PROVE ClientTablesAgree
  BY <1>1 DEF IndInv, ClientsInv, TablesAreTrue, ClientTablesAgree
<1>2. ASSUME IndInv PROVE ServerTablesAgree
  <2>1. \A s \in Server : GoodService(server[s])
    BY <1>2 DEF IndInv, ServersInv
  <2>2. \A i \in Id : reactor[i].writes <= 1
    <3>1. ASSUME NEW i \in Id PROVE reactor[i].writes <= 1
      <4>1. Writing(reactor[i])
        BY <1>2 DEF IndInv, CallsInv, GrpcStages
      <4>2. reactor[i].writes = 0 \/ reactor[i].writes = 1
        BY <4>1 DEF Writing
      <4>3. QED
        BY <4>2
    <3>2. QED
      BY <3>1
  <2>3. QED
    BY <2>1, <2>2 DEF GoodService, ServerTablesAgree
<1>3. IndInv => TablesAgree
  BY <1>1, <1>2 DEF TablesAgree
<1>4. QED
  BY <1>3, InductiveInvariant, PTL

\* A callback hears of its own client's requests only, nothing after the last
\* reply, and over gRPC at most once when it has been removed (DispatchReply
\* under clientsMutex_, stopped_ of the reactor).
THEOREM RepliesAlwaysGoHome == Spec => []RepliesGoHome
<1>1. ASSUME IndInv, NEW i \in 1..Len(asker)
      PROVE  LET calls == heard[i]
                 late == {k \in DOMAIN calls : calls[k].late}
             IN  /\ \A k \in DOMAIN calls : calls[k].final => k = Len(calls)
                 /\ ~Grpc => late = {} /\ \A k \in DOMAIN calls : calls[k].by = asker[i].by
                 /\ Grpc  => Cardinality(late) <= 1
  <2> DEFINE calls == heard[i]
             late == {k \in DOMAIN calls : calls[k].late}
  <2>1. i \in Id
    BY <1>1, RpcAssumption DEF IndInv, Types, ClientTypes, Id
  <2>2. /\ \A k \in DOMAIN calls : calls[k].final => k = Len(calls)
        /\ ~Grpc => \A k \in DOMAIN calls : ~calls[k].late /\ calls[k].by = asker[i].by
    BY <1>1, <2>1 DEF IndInv, CallsInv, HeardInv
  <2>3. ASSUME Grpc PROVE Cardinality(late) <= 1
    <3>1. \A k, l \in late : k = l
      BY <1>1, <2>1, <2>3 DEF IndInv, CallsInv, GrpcStages, GoodCall
    <3> HIDE DEF late
    <3>2. CASE late = {}
      BY <3>2, FS_EmptySet
    <3>3. CASE late # {}
      <4>1. \E k : late = {k}
        BY <3>1, <3>3
      <4>2. Cardinality(late) = 1
        BY <4>1, FS_Singleton
      <4>3. QED
        BY <4>2
    <3>4. QED
      BY <3>2, <3>3
  <2>4. QED
    BY <2>2, <2>3
<1>2. IndInv => RepliesGoHome
  BY <1>1 DEF RepliesGoHome
<1>3. QED
  BY <1>2, InductiveInvariant, PTL
=============================================================================
