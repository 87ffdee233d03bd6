-------------------------- MODULE Broadcast_proofs --------------------------
(***************************************************************************)
(* Proofs about the broadcast components and the nodes on top of them, for *)
(* every transport, any number of threads that call, any addresses and     *)
(* filters, and calls that overlap in any way.                             *)
(***************************************************************************)
EXTENDS Broadcast, FiniteSetTheorems, TLAPS

-----------------------------------------------------------------------------
(* What the state is made of.                                              *)

Key      == Seq(Host \cup Ident \cup Filter \cup Nat)
Listener == [id : 1..MaxId, filter : Filter, by : Caller]
Object   == [key : Key, at : Locator, topic : Filter, clients : Seq(Listener),
             running : BOOLEAN, alive : BOOLEAN, gone : BOOLEAN, inbox : Seq(Message),
             hand : Seq(Message), dials : 1..2, linked : BOOLEAN]
Doings   == [at : CallAt, o : Nat, id : 0..MaxId, filter : Filter]
Task     == [op : Ops, spec : Wanted, id : 0..MaxId, specs : SUBSET Wanted,
             ids : SUBSET (0..MaxId)]

\* The components that call each listener with a copy of its own.
Copying == kind \notin {"multicast", "singlecast"}

SubsTypes ==
  /\ obj \in Seq(Object)
  /\ subs \subseteq 1..Len(obj)
  /\ counter \in Nat
  /\ idMap \subseteq (1..MaxId) \X (1..Len(obj))
  /\ lock \in Caller \cup {Nobody}
  /\ call \in [Caller -> Doings]
  /\ \A c \in Caller : call[c].at \in Pointing \cup {"freeing", "publishing", "late"}
                         => call[c].o \in 1..Len(obj)
  /\ sent \in 0..MaxSent
  /\ {misused, strayed, raced, wiped} \subseteq BOOLEAN
  /\ Copying => heard \in [1..MaxId -> Seq(Message)]

Importing == [client : 0..MaxId, waiting : [Command -> Nat], last : Command,
              overlapped : BOOLEAN]
Fetching  == [at : {"idle", "asking", "asked"}, id : 0..MaxId,
              reap : {"no", "due", "now", "over"}, early : BOOLEAN]

NodeTypes ==
  /\ want \in [Caller -> Wanted]
  /\ node \in [Caller -> Importing]
  /\ fetch \in [Caller -> Fetching]

FacilityTypes ==
  /\ registered \subseteq (0..MaxId) \X Wanted
  /\ restartInfo \subseteq Wanted \X (0..MaxId)
  /\ task \in [Caller -> Task]

Types == SubsTypes /\ NodeTypes /\ FacilityTypes

-----------------------------------------------------------------------------
(* The inductive invariant: first what holds of every behaviour.           *)

\* Who asks for a subscription has an id left to draw (bound).
Adding == {c \in Caller : call[c].at = "adding"}
IdsAreLeft == counter + Cardinality(Adding) <= MaxId

\* mutex_ is held by the caller that frees an object.
FreeingHolds == \A c \in Caller : lock = c <=> call[c].at = "freeing"

\* The map owns what is not freed; where the destructor joins the thread, the
\* thread of what is freed has gone.
AliveIsOwned ==
  \A o \in 1..Len(obj) : /\ obj[o].alive <=> o \in subs
                         /\ kind \in Joining => obj[o].alive \/ obj[o].gone

\* An id is drawn once.
IdsAreDrawnOnce ==
  /\ \A x \in idMap : x[1] <= counter
  /\ \A c \in Caller : call[c].at = "removing" => call[c].id <= counter
  /\ \A o \in 1..Len(obj) : \A p \in DOMAIN obj[o].clients : obj[o].clients[p].id <= counter
  /\ \A o1, o2 \in 1..Len(obj) : \A p \in DOMAIN obj[o1].clients, q \in DOMAIN obj[o2].clients :
       obj[o1].clients[p].id = obj[o2].clients[q].id => o1 = o2 /\ p = q

\* An exchange subscription of RabbitMQ has its one listener, by whose id it is
\* kept, and nobody keeps a pointer to it.
ExchangesAreOwn ==
  kind = "rabbitmq" =>
    /\ \A c \in Caller : call[c].at \notin Pointing
    /\ \A o \in subs : /\ Len(obj[o].clients) = 1
                       /\ obj[o].key = <<obj[o].clients[1].id>>

\* What listeners of one filter have heard, freed objects included.
SuffixesHeard ==
  Copying =>
    /\ \A i \in 1..MaxId : i > counter => heard[i] = <<>>
    /\ \A o \in 1..Len(obj) : \A p, q \in DOMAIN obj[o].clients :
         p < q /\ obj[o].clients[p].filter = obj[o].clients[q].filter
           => IsSuffix(heard[obj[o].clients[q].id], heard[obj[o].clients[p].id])

-----------------------------------------------------------------------------
(* Then what holds while no object was freed under a pointer or in use.    *)

Freeing(o) == \E c \in Caller : call[c].at = "freeing" /\ call[c].o = o

\* An id leads to its listener, in an object that is there and runs.
IdsLeadToListeners ==
  \A x \in idMap : /\ x[2] \in subs /\ obj[x[2]].running
                   /\ \E p \in DOMAIN obj[x[2]].clients : obj[x[2]].clients[p].id = x[1]

KeysDiffer == \A o1, o2 \in subs : obj[o1].key = obj[o2].key => o1 = o2

\* An object without listeners is being dealt with, one that stops is freed.
NoneIsLeft ==
  \A o \in subs : /\ obj[o].clients # <<>> \/ Holders(o) # {} \/ Freeing(o)
                  /\ obj[o].running \/ Freeing(o)

\* A pointer is to an object that is there and runs, and the id to remove is
\* in no map any more.
PointersAreGood ==
  \A c \in Caller : call[c].at \in Pointing =>
    /\ call[c].o \in subs /\ obj[call[c].o].running
    /\ call[c].at = "removing" => \A x \in idMap : x[1] # call[c].id

\* Nothing leads to an object that is being freed.
FreeingIsAlone ==
  \A c \in Caller : call[c].at = "freeing" =>
    /\ call[c].o \in subs /\ Holders(call[c].o) = {}
    /\ \A x \in idMap : x[2] # call[c].o
    /\ kind # "rabbitmq" => obj[call[c].o].clients = <<>>

Orderly ==
  raced \/ wiped \/ /\ IdsLeadToListeners /\ KeysDiffer /\ NoneIsLeft
                    /\ PointersAreGood /\ FreeingIsAlone

Sound ==
  /\ IdsAreLeft /\ FreeingHolds /\ AliveIsOwned /\ IdsAreDrawnOnce /\ ExchangesAreOwn
  /\ SuffixesHeard /\ Orderly
  /\ misused => raced \/ wiped
  /\ kind \in Joining => ~strayed

IndInv == Types /\ Sound

-----------------------------------------------------------------------------
(* The changes the transports make to what they share.                     *)

Finds == \E c \in Caller, key \in Key, l \in Locator, f, tp \in Filter :
           kind # "rabbitmq" /\ FindOrMake(c, key, l, f, tp)

Registers(c) == call[c].at = "adding" /\ obj[call[c].o].alive /\ Register(c)
Misuses(c)   == call[c].at \in Pointing /\ ~obj[call[c].o].alive /\ Misuse(c)
Takes(c)     == kind # "rabbitmq" /\ \E i \in 0..MaxId : TakeId(c, i)
Drops(c)     == call[c].at = "removing" /\ obj[call[c].o].alive /\ Drop(c)
Stops(c)     == call[c].at = "stopping" /\ obj[call[c].o].alive /\ StopIfUnused(c)

\* The destructor has joined the thread, or the thread is detached.
Frees(c) ==
  /\ call[c].at = "freeing" /\ kind # "rabbitmq"
  /\ \/ obj[call[c].o].gone /\ Free(c, {call[c].o})
     \/ kind \notin Joining /\ Free(c, {call[c].o})
     \/ /\ kind \notin Joining
        /\ Free(c, {o \in subs : obj[o].at.host = obj[call[c].o].at.host})

AddsExchange(c) == \E l \in Locator, f \in Filter : RabbitMQAdd(c, l, f)
RemovesExchange(c) == \E i \in 0..MaxId : RabbitMQRemove(c, i)

\* A caller has its result.
Returns(c) ==
  /\ call[c].at \in {"added", "removed"}
  /\ call' = [call EXCEPT ![c] = Out]
  /\ UNCHANGED <<kind, objVars, idVars, heard, sendVars, undef>>

\* A caller keeps a mutex and waits, a callback returns, or the process ends.
Waits == UNCHANGED <<kind, objVars, idVars, call, heard, sendVars, undef>>

CallerSteps(c) ==
  \/ Registers(c) \/ Misuses(c) \/ Takes(c) \/ Drops(c) \/ Stops(c) \/ Frees(c)
  \/ AddsExchange(c) \/ RemovesExchange(c) \/ RabbitMQErase(c) \/ Returns(c)

ThreadSteps(o) ==
  \/ NNGRedial(o) \/ Receive(o) \/ ThreadEnds(o)
  \/ Copying /\ HandOut(o, HeardCopies)
  \/ ~Copying /\ HandOut(o, HeardMoved)

ShmSteps ==
  \/ \E o \in 1..Len(obj) : \/ ShmTakeQueue(o) \/ ShmHandleData(o) \/ ShmDropStale(o)
                            \/ \E c \in Caller : ShmReadTail(c, o)
  \/ \E c \in Caller, tp \in Topic : ShmAppend(c, tp)

Sends == \E l \in Locator, tp \in Topic, To \in SUBSET subs : Send(l, tp, To)

SubsStep ==
  \/ Finds
  \/ \E c \in Caller : CallerSteps(c)
  \/ \E o \in 1..Len(obj) : ThreadSteps(o)
  \/ (Shm /\ ShmSteps)
  \/ Sends
  \/ \E l \in Locator : Open(l)
  \/ Waits

\* The rest of a call makes one of these changes (CallNext).
LEMMA CallNextChanges ==
  ASSUME NEW c \in Caller, CallNext(c)
  PROVE  \/ Registers(c) \/ Misuses(c) \/ Drops(c) \/ Stops(c) \/ Frees(c)
         \/ RabbitMQErase(c) \/ Waits
<1>1. CallStep(c)
  BY DEF CallNext
<1>2. CASE \/ ZeroMQAddSubscription(c) \/ NNGAddSubscription(c) \/ MulticastAddSubscription(c)
           \/ SinglecastAddSubscription(c) \/ RedisAddClient(c) \/ ShmAddSubscription(c)
  <2>1. Registers(c) \/ Misuses(c)
    BY <1>2 DEF ZeroMQAddSubscription, NNGAddSubscription, MulticastAddSubscription,
                SinglecastAddSubscription, RedisAddClient, ShmAddSubscription, Registers,
                Misuses, Pointing
  <2>2. QED
    BY <2>1
<1>3. CASE \/ ZeroMQRemoveSubscription(c) \/ NNGRemoveSubscription(c)
           \/ MulticastRemoveSubscription(c) \/ SinglecastRemoveSubscription(c)
           \/ RedisRemoveSubscription(c) \/ ShmRemoveSubscription(c)
  <2>1. Drops(c) \/ Misuses(c)
    BY <1>3 DEF ZeroMQRemoveSubscription, NNGRemoveSubscription, MulticastRemoveSubscription,
                SinglecastRemoveSubscription, RedisRemoveSubscription, ShmRemoveSubscription,
                Drops, Misuses, Pointing
  <2>2. QED
    BY <2>1
<1>4. CASE \/ ZeroMQCheck(c) \/ NNGCheck(c) \/ MulticastCheck(c) \/ SinglecastCheck(c)
           \/ RedisCheck(c) \/ ShmCheck(c)
  <2>1. Stops(c) \/ Misuses(c)
    BY <1>4 DEF ZeroMQCheck, NNGCheck, MulticastCheck, SinglecastCheck, RedisCheck, ShmCheck,
                Stops, Misuses, Pointing
  <2>2. QED
    BY <2>1
<1>5. CASE \/ ZeroMQErase(c) \/ NNGErase(c) \/ MulticastErase(c) \/ SinglecastErase(c)
           \/ RedisErase(c) \/ ShmErase(c)
  <2>1. Frees(c)
    BY <1>5 DEF ZeroMQErase, NNGErase, MulticastErase, SinglecastErase, RedisErase, ShmErase,
                ZeroMQ, NNG, Multicast, Singlecast, Redis, Shm, Joining, Frees
  <2>2. QED
    BY <2>1
<1>6. CASE RabbitMQErase(c)
  BY <1>6
<1>7. CASE RabbitMQEndsProcess(c) \/ WaitsForObject(c) \/ HandlerReturns(c)
  BY <1>7 DEF RabbitMQEndsProcess, WaitsForObject, HandlerReturns, CallbackReturns, Waits
<1>8. QED
  BY <1>1, <1>2, <1>3, <1>4, <1>5, <1>6, <1>7 DEF CallStep

\* They are among the steps of the subscriptions.
LEMMA CallNextIsStep ==
  ASSUME NEW c \in Caller, CallNext(c)
  PROVE  SubsStep
BY CallNextChanges DEF CallerSteps, SubsStep

\* So does a step of a subscription's thread (ThreadNext).
LEMMA ThreadNextIsStep ==
  ASSUME NEW o \in 1..Len(obj), ThreadNext(o)
  PROVE  SubsStep
<1>1. ThreadStep(o)
  BY DEF ThreadNext
<1>2. CASE ZeroMQRun(o) \/ NNGRun(o) \/ RedisRun(o) \/ RabbitMQRun(o)
  <2>1. Copying
    BY <1>2 DEF ZeroMQRun, NNGRun, RedisRun, RabbitMQRun, ZeroMQ, NNG, Redis, RabbitMQ, Copying
  <2>2. ThreadSteps(o)
    BY <1>2, <2>1 DEF ZeroMQRun, NNGRun, RedisRun, RabbitMQRun, ThreadSteps
  <2>3. QED
    BY <2>2 DEF SubsStep
<1>3. CASE MulticastHandleReceive(o) \/ SinglecastHandleReceive(o)
  <2>1. ~Copying
    BY <1>3 DEF MulticastHandleReceive, SinglecastHandleReceive, Multicast, Singlecast, Copying
  <2>2. ThreadSteps(o)
    BY <1>3, <2>1 DEF MulticastHandleReceive, SinglecastHandleReceive, ThreadSteps
  <2>3. QED
    BY <2>2 DEF SubsStep
<1>4. CASE ShmRun(o)
  <2>1. (Shm /\ ShmSteps) \/ ThreadSteps(o)
    BY <1>4 DEF ShmRun, ShmSteps, ThreadSteps
  <2>2. QED
    BY <2>1 DEF SubsStep
<1>5. QED
  BY <1>1, <1>2, <1>3, <1>4 DEF ThreadStep

\* What a node wants is an address and a filter, by which each transport makes
\* the key of an object.
LEMMA KeysOfWanted ==
  ASSUME NEW s \in Wanted
  PROVE  /\ s.loc \in Locator /\ s.filter \in Filter /\ Every \in Filter
         /\ <<s.loc.host, s.loc.ident>> \in Key
         /\ <<s.loc.host, s.filter>> \in Key
         /\ <<s.loc.host>> \in Key /\ <<s.loc.ident>> \in Key
<1>1. s \in [loc : Locator, filter : Filter]
  BY NodesAssumption
<1>2. s.loc \in Locator /\ s.filter \in Filter /\ s.loc.host \in Host /\ s.loc.ident \in Ident
  BY <1>1 DEF Locator
<1>3. QED
  BY <1>2 DEF Key, Filter

\* To subscribe is to find an object or make one, or to add an exchange.
LEMMA SubscribeIsStep ==
  ASSUME NEW c \in Caller, NEW s \in Wanted,
         \/ ZeroMQGetOrStart(c, s.loc, s.filter) \/ NNGGetOrStart(c, s.loc, s.filter)
         \/ MulticastGetOrStart(c, s.loc, s.filter) \/ SinglecastGetOrStart(c, s.loc, s.filter)
         \/ RedisGetOrStart(c, s.loc, s.filter) \/ RabbitMQAdd(c, s.loc, s.filter)
         \/ ShmGetOrStart(c, s.loc, s.filter)
  PROVE  Finds \/ AddsExchange(c)
<1>1. s.loc \in Locator /\ s.filter \in Filter /\ Every \in Filter
  BY KeysOfWanted
<1>2. CASE ZeroMQGetOrStart(c, s.loc, s.filter)
  BY <1>1, <1>2, KeysOfWanted DEF ZeroMQGetOrStart, ZeroMQKey, ZeroMQ, Finds
<1>3. CASE \/ NNGGetOrStart(c, s.loc, s.filter) \/ MulticastGetOrStart(c, s.loc, s.filter)
           \/ SinglecastGetOrStart(c, s.loc, s.filter)
  BY <1>1, <1>3, KeysOfWanted DEF NNGGetOrStart, MulticastGetOrStart, SinglecastGetOrStart,
                                  NNG, Multicast, Singlecast, Finds
<1>4. CASE RedisGetOrStart(c, s.loc, s.filter)
  BY <1>1, <1>4, KeysOfWanted DEF RedisGetOrStart, RedisKey, Redis, Finds
<1>5. CASE RabbitMQAdd(c, s.loc, s.filter)
  BY <1>1, <1>5 DEF AddsExchange
<1>6. CASE ShmGetOrStart(c, s.loc, s.filter)
  BY <1>1, <1>6, KeysOfWanted DEF ShmGetOrStart, Shm, Finds
<1>7. QED
  BY <1>2, <1>3, <1>4, <1>5, <1>6

\* To unsubscribe is to take an id, or to remove an exchange.
LEMMA UnsubscribeIsStep ==
  ASSUME NEW c \in Caller, NEW i \in 0..MaxId, Unsubscribe(c, i)
  PROVE  Takes(c) \/ RemovesExchange(c)
BY DEF Unsubscribe, ZeroMQRemoveClient, NNGRemoveClient, MulticastRemoveClient,
       SinglecastRemoveClient, RedisRemoveClient, ShmRemoveClient, ZeroMQ, NNG, Multicast,
       Singlecast, Redis, Shm, Takes, RemovesExchange

\* Giving the publisher's part of the program a turn (ExporterNext).
LEMMA ExporterNextIsStep ==
  ASSUME SubsTypes, ExporterNext
  PROVE  SubsStep
<1>1. ExporterStep
  BY DEF ExporterNext
<1>2. ASSUME NEW l \in Exported, NEW tp \in Topic, NEW To \in SUBSET subs, Send(l, tp, To)
      PROVE  Sends
  BY <1>2, NodesAssumption DEF Sends
<1>3. CASE ZeroMQExporter
  BY <1>2, <1>3, NodesAssumption DEF ZeroMQExporter, Exports, ZeroMQGetOrStartSender,
     ZeroMQPublish, SubsStep
<1>4. CASE NNGExporter
  BY <1>2, <1>4, NodesAssumption DEF NNGExporter, Exports, NNGGetOrStartSender, NNGPublish,
     SubsStep
<1>5. CASE MulticastExporter
  BY <1>2, <1>5, NodesAssumption DEF MulticastExporter, Exports, MulticastGetOrStartSender,
     MulticastPublish, SubsStep
<1>6. CASE SinglecastExporter
  BY <1>2, <1>6, NodesAssumption DEF SinglecastExporter, Exports, SinglecastGetOrStartSender,
     SinglecastPublish, SubsStep
<1>7. CASE RedisExporter
  BY <1>2, <1>7, NodesAssumption DEF RedisExporter, Exports, RedisGetOrStartSender,
     RedisPublish, SubsStep
<1>8. CASE RabbitMQExporter
  <2>1. PICK l \in Exported : \/ RabbitMQPublishingConnection(l)
                              \/ \E tp \in Topic : RabbitMQPublish(l, tp)
    BY <1>8 DEF RabbitMQExporter, Exports
  <2>2. CASE RabbitMQPublishingConnection(l)
    BY <2>2, NodesAssumption DEF RabbitMQPublishingConnection, SubsStep
  <2>3. ASSUME NEW tp \in Topic, RabbitMQPublish(l, tp)
        PROVE  Sends
    <3> DEFINE To == {o \in subs : obj[o].at = l /\ Matches(obj[o].topic, tp)}
    <3>1. Send(l, tp, To)
      BY <2>3 DEF RabbitMQPublish
    <3>2. To \in SUBSET subs
      OBVIOUS
    <3>3. QED
      BY <3>1, <3>2, <1>2
  <2>4. QED
    BY <2>1, <2>2, <2>3 DEF SubsStep
<1>9. CASE ShmExporter
  <2>1. CASE \E l \in Exported : ShmGetOrStartSender(l)
    BY <2>1, NodesAssumption DEF ShmGetOrStartSender, SubsStep
  <2>2. CASE \E o \in 1..Len(obj) : ShmDropStale(o)
    <3>1. Shm /\ ShmSteps
      BY <2>2 DEF ShmDropStale, ShmSteps
    <3>2. QED
      BY <3>1 DEF SubsStep
  <2>3. CASE \E c \in Caller, o \in 1..Len(obj) : ShmReadTail(c, o)
    <3>1. Shm
      BY <2>3 DEF ShmReadTail
    <3>2. ShmSteps
      BY <2>3 DEF ShmSteps
    <3>3. QED
      BY <3>1, <3>2 DEF SubsStep
  <2>4. CASE \E c \in Caller, tp \in Topic : ShmAppend(c, tp)
    <3>1. Shm
      BY <2>4 DEF ShmAppend
    <3>2. ShmSteps
      BY <2>4 DEF ShmSteps
    <3>3. QED
      BY <3>1, <3>2 DEF SubsStep
  <2>5. QED
    BY <1>9, <2>1, <2>2, <2>3, <2>4 DEF ShmExporter
<1>10. QED
  BY <1>1, <1>3, <1>4, <1>5, <1>6, <1>7, <1>8, <1>9 DEF ExporterStep

\* A node's step makes one of the changes, and keeps the types of the node and
\* of the facility (NodeNext).
LEMMA NodeNextIsStep ==
  ASSUME Types, NEW c \in Caller, NodeNext(c)
  PROVE  SubsStep /\ NodeTypes' /\ FacilityTypes'
<1>1. FacilityTypes'
  BY DEF NodeNext, Types, FacilityTypes, listenerVars
<1>2. /\ call[c] \in Doings /\ call[c].id \in 0..MaxId
      /\ want[c] \in Wanted /\ 0 \in 0..MaxId
  BY SubscriptionsAssumption DEF Types, SubsTypes, NodeTypes, Doings
<1>3. CASE \E m \in Command : Control(c, m)
  <2>1. SubsStep
    BY <1>3 DEF Control, subsVars, Waits, SubsStep
  <2>2. PICK m \in Command : Control(c, m)
    BY <1>3
  <2>3. node[c] \in Importing /\ node[c].waiting \in [Command -> Nat]
    BY DEF Types, NodeTypes, Importing
  <2>4. [node[c].waiting EXCEPT ![m] = @ + 1] \in [Command -> Nat]
    BY <2>3
  <2>5. [node[c] EXCEPT !.waiting[m] = @ + 1, !.last = m, !.overlapped = @ \/ ~Settled(c)]
          \in Importing
    BY <2>3, <2>4 DEF Importing
  <2>6. node' = [node EXCEPT ![c] = [node[c] EXCEPT !.waiting[m] = @ + 1, !.last = m,
                                                    !.overlapped = @ \/ ~Settled(c)]]
    BY <2>2 DEF Control
  <2>7. NodeTypes'
    BY <2>2, <2>5, <2>6 DEF Control, Types, NodeTypes
  <2>8. QED
    BY <1>1, <2>1, <2>7
<1>4. CASE ImporterReturns(c) \/ FetchStoresId(c) \/ ReaperReturns(c)
  <2>1. Returns(c)
    BY <1>4 DEF ImporterReturns, FetchStoresId, ReaperReturns, Returns
  <2>2. /\ UNCHANGED want
        /\ \/ \E i \in 0..MaxId : node' = [node EXCEPT ![c].client = i]
           \/ UNCHANGED node
        /\ \/ fetch' = [fetch EXCEPT ![c].at = "asked", ![c].id = call[c].id]
           \/ \E f \in Caller : fetch' = [fetch EXCEPT ![f].reap = "over"]
           \/ UNCHANGED fetch
    BY <1>2, <1>4 DEF ImporterReturns, FetchStoresId, ReaperReturns, Fetchers
  <2>3. node' \in [Caller -> Importing]
    BY <2>2 DEF Types, NodeTypes, Importing
  <2>4. fetch' \in [Caller -> Fetching]
    BY <1>2, <2>2 DEF Types, NodeTypes, Fetching
  <2>5. NodeTypes'
    BY <2>2, <2>3, <2>4 DEF Types, NodeTypes
  <2>6. QED
    BY <1>1, <2>1, <2>5 DEF CallerSteps, SubsStep
<1>5. CASE \/ ZeroMQImporter(c) \/ NNGImporter(c) \/ MulticastImporter(c)
           \/ SinglecastImporter(c) \/ RedisImporter(c) \/ RabbitMQImporter(c)
           \/ ShmImporter(c)
  <2>1. \E m \in Command : Carry(c, m)
    BY <1>5 DEF ZeroMQImporter, NNGImporter, MulticastImporter, SinglecastImporter,
                RedisImporter, RabbitMQImporter, ShmImporter, ImporterStarts, ImporterStops,
                Command
  <2>2. NodeTypes'
    <3>1. PICK m \in Command : Carry(c, m)
      BY <2>1
    <3>2. node[c] \in Importing /\ node[c].waiting \in [Command -> Nat]
      BY DEF Types, NodeTypes, Importing
    <3>3. node[c].waiting[m] > 0 /\ node[c].waiting[m] \in Nat
      BY <3>1, <3>2 DEF Carry
    <3>4. [node[c].waiting EXCEPT ![m] = @ - 1] \in [Command -> Nat]
      BY <3>2, <3>3
    <3>5. [node[c] EXCEPT !.waiting[m] = @ - 1] \in Importing
      BY <3>2, <3>4 DEF Importing
    <3>6. node' = [node EXCEPT ![c] = [node[c] EXCEPT !.waiting[m] = @ - 1]]
      BY <3>1 DEF Carry
    <3>7. QED
      BY <3>1, <3>5, <3>6 DEF Carry, Types, NodeTypes
  <2>3. node[c].client \in 0..MaxId
    BY DEF Types, NodeTypes, Importing
  <2>4. \/ ZeroMQGetOrStart(c, want[c].loc, want[c].filter)
        \/ NNGGetOrStart(c, want[c].loc, want[c].filter)
        \/ MulticastGetOrStart(c, want[c].loc, want[c].filter)
        \/ SinglecastGetOrStart(c, want[c].loc, want[c].filter)
        \/ RedisGetOrStart(c, want[c].loc, want[c].filter)
        \/ RabbitMQAdd(c, want[c].loc, want[c].filter)
        \/ ShmGetOrStart(c, want[c].loc, want[c].filter)
        \/ Unsubscribe(c, node[c].client)
        \/ UNCHANGED subsVars
    BY <1>5 DEF ZeroMQImporter, NNGImporter, MulticastImporter, SinglecastImporter,
                RedisImporter, RabbitMQImporter, ShmImporter, ImporterStarts, ImporterStops,
                Unsubscribe
  <2>5. Finds \/ AddsExchange(c) \/ Takes(c) \/ RemovesExchange(c) \/ UNCHANGED subsVars
    BY <1>2, <2>3, <2>4, SubscribeIsStep, UnsubscribeIsStep
  <2>6. QED
    BY <1>1, <2>2, <2>5 DEF CallerSteps, subsVars, Waits, SubsStep
<1>6. CASE \/ ZeroMQFetchFirst(c) \/ NNGFetchFirst(c) \/ MulticastFetchFirst(c)
           \/ SinglecastFetchFirst(c) \/ RedisFetchFirst(c) \/ RabbitMQFetchFirst(c)
           \/ ShmFetchFirst(c)
  <2>1. /\ UNCHANGED <<want, node>>
        /\ \/ fetch' = [fetch EXCEPT ![c].at = "asking"]
           \/ \E f \in Caller : fetch' = [fetch EXCEPT ![f].reap = "now",
                                                       ![f].early = (fetch[f].id = 0)]
    BY <1>6 DEF ZeroMQFetchFirst, NNGFetchFirst, MulticastFetchFirst, SinglecastFetchFirst,
                RedisFetchFirst, RabbitMQFetchFirst, ShmFetchFirst, FetchBegins, ReaperBegins,
                Fetchers
  <2>2. NodeTypes'
    <3>1. fetch \in [Caller -> Fetching]
      BY DEF Types, NodeTypes
    <3>2. CASE fetch' = [fetch EXCEPT ![c].at = "asking"]
      BY <2>1, <3>1, <3>2 DEF Types, NodeTypes, Fetching
    <3>3. ASSUME NEW f \in Caller, NEW e \in BOOLEAN,
                 fetch' = [fetch EXCEPT ![f].reap = "now", ![f].early = e]
          PROVE  NodeTypes'
      <4>1. [fetch[f] EXCEPT !.reap = "now", !.early = e] \in Fetching
        BY <3>1 DEF Fetching
      <4>2. fetch' = [fetch EXCEPT ![f] = [fetch[f] EXCEPT !.reap = "now", !.early = e]]
        BY <3>3
      <4>3. QED
        BY <2>1, <3>1, <4>1, <4>2 DEF Types, NodeTypes
    <3>4. \A f \in Caller : (fetch[f].id = 0) \in BOOLEAN
      OBVIOUS
    <3>5. QED
      BY <2>1, <3>2, <3>3, <3>4
  <2>3. \/ ZeroMQGetOrStart(c, want[c].loc, want[c].filter)
        \/ NNGGetOrStart(c, want[c].loc, want[c].filter)
        \/ MulticastGetOrStart(c, want[c].loc, want[c].filter)
        \/ SinglecastGetOrStart(c, want[c].loc, want[c].filter)
        \/ RedisGetOrStart(c, want[c].loc, want[c].filter)
        \/ RabbitMQAdd(c, want[c].loc, want[c].filter)
        \/ ShmGetOrStart(c, want[c].loc, want[c].filter)
        \/ \E f \in Caller : Unsubscribe(c, fetch[f].id)
    BY <1>6 DEF ZeroMQFetchFirst, NNGFetchFirst, MulticastFetchFirst, SinglecastFetchFirst,
                RedisFetchFirst, RabbitMQFetchFirst, ShmFetchFirst, FetchBegins, ReaperBegins,
                Fetchers, Unsubscribe
  <2>4. \A f \in Caller : fetch[f].id \in 0..MaxId
    BY DEF Types, NodeTypes, Fetching
  <2>5. Finds \/ AddsExchange(c) \/ Takes(c) \/ RemovesExchange(c)
    BY <1>2, <2>3, <2>4, SubscribeIsStep, UnsubscribeIsStep
  <2>6. QED
    BY <1>1, <2>2, <2>5 DEF CallerSteps, SubsStep
<1>7. NodeStep(c)
  BY DEF NodeNext
<1>8. QED
  BY <1>3, <1>4, <1>5, <1>6, <1>7 DEF NodeStep

\* A fetch takes note of its first message (ThreadNext, FetchHears).
LEMMA FetchHearsKeeps ==
  ASSUME Types, NEW o \in 1..Len(obj), ThreadNext(o)
  PROVE  NodeTypes' /\ FacilityTypes'
<1>1. FacilityTypes'
  BY DEF ThreadNext, Types, FacilityTypes, listenerVars
<1>2. \A c \in Caller : fetch[c] \in Fetching /\ [fetch[c] EXCEPT !.reap = "due"] \in Fetching
  BY DEF Types, NodeTypes, Fetching
<1>3. fetch' \in [Caller -> Fetching]
  BY <1>2 DEF ThreadNext, FetchHears
<1>4. want' = want /\ node' = node
  BY DEF ThreadNext
<1>5. QED
  BY <1>1, <1>3, <1>4 DEF Types, NodeTypes

\* So does a step of the listener facility (ListenerNext).
LEMMA ListenerNextIsStep ==
  ASSUME Types, NEW c \in Caller, ListenerNext(c)
  PROVE  SubsStep /\ NodeTypes' /\ FacilityTypes'
<1>1. /\ task[c] \in Task /\ task[c].spec \in Wanted /\ task[c].id \in 0..MaxId
      /\ task[c].specs \in SUBSET Wanted /\ task[c].ids \in SUBSET (0..MaxId)
      /\ Idle \in Task /\ call[c].id \in 0..MaxId
  <2>1. task[c] \in Task
    BY DEF Types, FacilityTypes
  <2>2. call[c].id \in 0..MaxId
    BY DEF Types, SubsTypes, Doings
  <2>3. \E s \in Wanted : TRUE
    BY <2>1 DEF Task
  <2>4. Idle \in Task
    BY <2>3, SubscriptionsAssumption DEF Idle, Task, Ops
  <2>5. QED
    BY <2>1, <2>2, <2>4 DEF Task
<1>2. NodeTypes'
  <2>1. ASSUME UNCHANGED nodeVars
        PROVE  NodeTypes'
    BY <2>1 DEF nodeVars, Types, NodeTypes
  <2>2. CASE \/ \E s \in Wanted : AskToAdd(c, s)
             \/ \E i \in 1..MaxId : AskToRemove(c, i)
             \/ AskToRemoveAll(c) \/ Note(c) \/ Forget(c) \/ Quiet
    BY <2>1, <2>2 DEF AskToAdd, AskToRemove, AskToRemoveAll, Note, Forget, Quiet
  <2>3. CASE Record(c) \/ Unlisten(c)
    BY <2>1, <2>3 DEF Record, Unlisten
  <2>4. CASE RemoveAll(c)
    BY <2>1, <2>4 DEF RemoveAll, Quiet
  <2>5. CASE \/ ListenMulticast(c) \/ ListenSinglecast(c) \/ ListenRabbitMQ(c) \/ ListenRedis(c)
             \/ ListenZeroMQ(c) \/ ListenNNG(c) \/ ListenShm(c)
    BY <2>1, <2>5 DEF ListenMulticast, ListenSinglecast, ListenRabbitMQ, ListenRedis,
                      ListenZeroMQ, ListenNNG, ListenShm, Listen
  <2>6. QED
    BY <2>2, <2>3, <2>4, <2>5 DEF ListenerNext, ListenerStep
<1>3. SubsStep
  <2>1. CASE UNCHANGED subsVars
    BY <2>1 DEF subsVars, Waits, SubsStep
  <2>2. CASE Returns(c)
    BY <2>2 DEF CallerSteps, SubsStep
  <2>3. CASE Finds \/ AddsExchange(c) \/ Takes(c) \/ RemovesExchange(c)
    BY <2>3 DEF CallerSteps, SubsStep
  <2>4. CASE \/ \E s \in Wanted : AskToAdd(c, s)
             \/ \E i \in 1..MaxId : AskToRemove(c, i)
             \/ AskToRemoveAll(c) \/ Note(c) \/ Forget(c) \/ Quiet
    BY <2>1, <2>4 DEF AskToAdd, AskToRemove, AskToRemoveAll, Note, Forget, Quiet
  <2>5. CASE Record(c)
    BY <2>2, <2>5 DEF Record, Returns
  <2>6. CASE Unlisten(c)
    <3>1. Unsubscribe(c, task[c].id) \/ Returns(c)
      BY <2>6 DEF Unlisten, Returns
    <3>2. QED
      BY <1>1, <2>2, <2>3, <3>1, UnsubscribeIsStep
  <2>7. CASE RemoveAll(c)
    <3>1. UNCHANGED subsVars \/ Returns(c) \/ \E i \in task[c].ids : Unsubscribe(c, i)
      BY <2>7 DEF RemoveAll, Returns, Quiet
    <3>2. QED
      BY <1>1, <2>1, <2>2, <2>3, <3>1, UnsubscribeIsStep
  <2>8. CASE \/ ListenMulticast(c) \/ ListenSinglecast(c) \/ ListenRabbitMQ(c) \/ ListenRedis(c)
             \/ ListenZeroMQ(c) \/ ListenNNG(c) \/ ListenShm(c)
    <3> DEFINE s == task[c].spec
    <3>1. \/ ZeroMQGetOrStart(c, s.loc, s.filter) \/ NNGGetOrStart(c, s.loc, s.filter)
          \/ MulticastGetOrStart(c, s.loc, s.filter) \/ SinglecastGetOrStart(c, s.loc, s.filter)
          \/ RedisGetOrStart(c, s.loc, s.filter) \/ RabbitMQAdd(c, s.loc, s.filter)
          \/ ShmGetOrStart(c, s.loc, s.filter)
      BY <2>8 DEF ListenMulticast, ListenSinglecast, ListenRabbitMQ, ListenRedis, ListenZeroMQ,
                  ListenNNG, ListenShm, Listen
    <3>2. QED
      BY <1>1, <2>3, <3>1, SubscribeIsStep
  <2>9. QED
    BY <2>4, <2>5, <2>6, <2>7, <2>8 DEF ListenerNext, ListenerStep
<1>4. FacilityTypes'
  <2> DEFINE Onto(t, r, i) == /\ task' = [task EXCEPT ![c] = t]
                              /\ registered' = r /\ restartInfo' = i
  <2>1. ASSUME NEW t \in Task, NEW r \in SUBSET ((0..MaxId) \X Wanted),
               NEW i \in SUBSET (Wanted \X (0..MaxId)), Onto(t, r, i)
        PROVE  FacilityTypes'
    BY <2>1 DEF Types, FacilityTypes
  <2>2. /\ registered \in SUBSET ((0..MaxId) \X Wanted)
        /\ restartInfo \in SUBSET (Wanted \X (0..MaxId))
    BY DEF Types, FacilityTypes
  <2>3. \A op \in Ops, s \in Wanted : /\ [Idle EXCEPT !.op = op, !.spec = s] \in Task
                                      /\ [task[c] EXCEPT !.op = op, !.spec = s] \in Task
    BY <1>1 DEF Task
  <2>4. \A op \in Ops, i \in 0..MaxId : [Idle EXCEPT !.op = op, !.id = i] \in Task
    BY <1>1 DEF Task
  <2>5. \A op \in Ops : /\ [Idle EXCEPT !.op = op] \in Task
                        /\ [task[c] EXCEPT !.op = op] \in Task
    BY <1>1 DEF Task
  <2>6. ASSUME NEW s \in Wanted, AskToAdd(c, s)
        PROVE  FacilityTypes'
    <3>1. {"note", "add"} \subseteq Ops
      BY DEF Ops
    <3>2. \/ Onto([Idle EXCEPT !.op = "note", !.spec = s], registered, restartInfo)
          \/ Onto([Idle EXCEPT !.op = "add", !.spec = s], registered, restartInfo)
      BY <2>6 DEF AskToAdd
    <3> HIDE DEF Onto
    <3>3. QED
      BY <2>1, <2>2, <2>3, <3>1, <3>2
  <2>7. ASSUME NEW i \in 1..MaxId, AskToRemove(c, i)
        PROVE  FacilityTypes'
    <3>1. {"forget", "remove"} \subseteq Ops /\ i \in 0..MaxId
      BY DEF Ops
    <3>2. \/ Onto([Idle EXCEPT !.op = "forget", !.id = i], registered, restartInfo)
          \/ Onto([Idle EXCEPT !.op = "remove", !.id = i], registered, restartInfo)
      BY <2>7 DEF AskToRemove
    <3> HIDE DEF Onto
    <3>3. QED
      BY <2>1, <2>2, <2>4, <3>1, <3>2
  <2>8. CASE AskToRemoveAll(c)
    <3>1. "removeAll" \in Ops
      BY DEF Ops
    <3>2. Onto([Idle EXCEPT !.op = "removeAll"], registered, restartInfo)
      BY <2>8 DEF AskToRemoveAll
    <3>3. QED
      BY <2>1, <2>2, <2>5, <3>1, <3>2
  <2>9. CASE Note(c)
    <3> DEFINE i == WrittenDown(restartInfo, {<<task[c].spec, 0>>})
    <3>1. i \in SUBSET (Wanted \X (0..MaxId))
      BY <1>1, <2>2, SubscriptionsAssumption DEF WrittenDown
    <3>2. Onto(Idle, registered, i)
      BY <2>9 DEF Note
    <3>3. QED
      BY <1>1, <2>1, <2>2, <3>1, <3>2
  <2>10. CASE Forget(c)
    <3> DEFINE i == {x \in restartInfo : x[2] # task[c].id}
    <3>1. i \in SUBSET (Wanted \X (0..MaxId))
      BY <2>2
    <3>2. Onto(Idle, registered, i)
      BY <2>10 DEF Forget
    <3>3. QED
      BY <1>1, <2>1, <2>2, <3>1, <3>2
  <2>11. CASE Record(c)
    <3> DEFINE r == registered \cup {<<call[c].id, task[c].spec>>}
    <3>1. r \in SUBSET ((0..MaxId) \X Wanted)
      BY <1>1, <2>2
    <3>2. Onto(Onward(c), r, restartInfo)
      BY <2>11 DEF Record
    <3>3. Onward(c) \in Task
      BY <1>1, <2>5 DEF Onward, Ops
    <3>4. QED
      BY <2>1, <2>2, <3>1, <3>2, <3>3
  <2>12. CASE Unlisten(c)
    <3> DEFINE r == {x \in registered : x[1] # task[c].id}
    <3>1. r \in SUBSET ((0..MaxId) \X Wanted)
      BY <2>2
    <3>2. "removing" \in Ops
      BY DEF Ops
    <3>3. \/ Onto([task[c] EXCEPT !.op = "removing"], registered, restartInfo)
          \/ Onto(Idle, r, restartInfo)
      BY <2>12 DEF Unlisten
    <3>4. QED
      BY <1>1, <2>1, <2>2, <2>5, <3>1, <3>2, <3>3
  <2>13. CASE RemoveAll(c)
    <3> DEFINE ids == {x[1] : x \in registered}
               more == {<<x[2], x[1]>> : x \in registered}
               info == IF stopped THEN WrittenDown(restartInfo, more) ELSE restartInfo
    <3>1. /\ ids \in SUBSET (0..MaxId)
          /\ more \in SUBSET (Wanted \X (0..MaxId))
      BY <2>2
    <3>2. info \in SUBSET (Wanted \X (0..MaxId))
      BY <2>2, <3>1 DEF WrittenDown
    <3>3. [task[c] EXCEPT !.op = "taking", !.ids = ids] \in Task
      <4> HIDE DEF ids
      <4>1. "taking" \in Ops
        BY DEF Ops
      <4>2. QED
        BY <1>1, <3>1, <4>1 DEF Task
    <3>4. \A i : [task[c] EXCEPT !.ids = task[c].ids \ {i}] \in Task
      BY <1>1 DEF Task
    <3> HIDE DEF ids, info
    <3>5. \/ Onto([task[c] EXCEPT !.op = "taking", !.ids = ids], registered, restartInfo)
          \/ \E i \in task[c].ids :
               Onto([task[c] EXCEPT !.ids = task[c].ids \ {i}], registered, restartInfo)
          \/ UNCHANGED listenerVars
          \/ Onto(Idle, {}, info)
      BY <2>13 DEF RemoveAll, ids, info
    <3>6. CASE UNCHANGED listenerVars
      BY <3>6 DEF listenerVars, Types, FacilityTypes
    <3>7. QED
      BY <1>1, <2>1, <2>2, <3>2, <3>3, <3>4, <3>5, <3>6
  <2>14. CASE \/ ListenMulticast(c) \/ ListenSinglecast(c) \/ ListenRabbitMQ(c)
              \/ ListenRedis(c) \/ ListenZeroMQ(c) \/ ListenNNG(c) \/ ListenShm(c)
    <3>1. Onto([task[c] EXCEPT !.op = "adding"], registered, restartInfo)
      BY <2>14 DEF ListenMulticast, ListenSinglecast, ListenRabbitMQ, ListenRedis,
                   ListenZeroMQ, ListenNNG, ListenShm, Listen
    <3>2. "adding" \in Ops
      BY DEF Ops
    <3>3. QED
      BY <2>1, <2>2, <2>5, <3>1, <3>2
  <2>15. CASE ControlListener(c)
    <3> DEFINE specs == {x[1] : x \in restartInfo}
    <3>1. specs \in SUBSET Wanted
      BY <2>2
    <3> HIDE DEF specs
    <3>2. /\ [task[c] EXCEPT !.op = "restart", !.specs = specs] \in Task
          /\ \A s \in Wanted :
               [task[c] EXCEPT !.op = "add", !.spec = s, !.specs = task[c].specs \ {s}] \in Task
          /\ {"removeAll", "readd"} \subseteq Ops
      <4>1. {"removeAll", "readd", "restart", "add"} \subseteq Ops
        BY DEF Ops
      <4>2. [task[c] EXCEPT !.op = "restart", !.specs = specs] \in Task
        BY <1>1, <3>1, <4>1 DEF Task
      <4>3. ASSUME NEW s \in Wanted
            PROVE  [task[c] EXCEPT !.op = "add", !.spec = s, !.specs = task[c].specs \ {s}] \in Task
        BY <1>1, <4>1 DEF Task
      <4>4. QED
        BY <4>1, <4>2, <4>3
    <3>3. \/ Onto([task[c] EXCEPT !.op = "removeAll"], registered, restartInfo)
          \/ Onto([task[c] EXCEPT !.op = "restart", !.specs = specs], registered, {})
          \/ Onto([task[c] EXCEPT !.op = "readd"], registered, restartInfo)
          \/ Onto(Idle, registered, restartInfo)
          \/ \E s \in Wanted :
               Onto([task[c] EXCEPT !.op = "add", !.spec = s, !.specs = task[c].specs \ {s}],
                    registered, restartInfo)
      <4>1. \A s \in task[c].specs : s \in Wanted
        BY <1>1
      <4>2. CASE Doing(c, "readd")
        BY <2>15, <4>1, <4>2 DEF ControlListener, Doing
      <4>3. CASE ~Doing(c, "readd")
        BY <2>15, <4>3 DEF ControlListener, specs
      <4>4. QED
        BY <4>2, <4>3
    <3> HIDE DEF Onto
    <3>4. {} \in SUBSET (Wanted \X (0..MaxId))
      OBVIOUS
    <3>5. QED
      BY <1>1, <2>1, <2>2, <2>5, <3>2, <3>3, <3>4
  <2>16. QED
    BY <2>6, <2>7, <2>8, <2>9, <2>10, <2>11, <2>12, <2>13, <2>14, <2>15
    DEF ListenerNext, ListenerStep
<1>5. QED
  BY <1>2, <1>3, <1>4

\* All that happens to the subscriptions is one of the changes above (Next).
LEMMA NextIsStep ==
  ASSUME Types, [Next]_vars
  PROVE  SubsStep /\ NodeTypes' /\ FacilityTypes'
<1>1. CASE UNCHANGED vars
  <2>1. SubsStep
    BY <1>1 DEF vars, subsVars, Waits, SubsStep
  <2>2. NodeTypes' /\ FacilityTypes'
    BY <1>1 DEF vars, nodeVars, listenerVars, Types, NodeTypes, FacilityTypes
  <2>3. QED
    BY <2>1, <2>2
<1>2. ASSUME UNCHANGED <<nodeVars, listenerVars>>
      PROVE  NodeTypes' /\ FacilityTypes'
  BY <1>2 DEF nodeVars, listenerVars, Types, NodeTypes, FacilityTypes
<1>3. ASSUME NEW c \in Caller, CallNext(c)
      PROVE  SubsStep /\ NodeTypes' /\ FacilityTypes'
  <2>1. UNCHANGED <<nodeVars, listenerVars>>
    BY <1>3 DEF CallNext
  <2>2. QED
    BY <1>2, <1>3, <2>1, CallNextIsStep
<1>4. CASE ExporterNext
  <2>1. UNCHANGED <<nodeVars, listenerVars>>
    BY <1>4 DEF ExporterNext, ExporterStep, ZeroMQExporter, NNGExporter, MulticastExporter,
                SinglecastExporter, RedisExporter, RabbitMQExporter, ShmExporter, Exports
  <2>2. QED
    BY <1>2, <1>4, <2>1, ExporterNextIsStep DEF Types
<1>5. CASE Next
  BY <1>3, <1>4, <1>5, NodeNextIsStep, ListenerNextIsStep, ThreadNextIsStep, FetchHearsKeeps
  DEF Next
<1>6. QED
  BY <1>1, <1>5

-----------------------------------------------------------------------------
(* Sequences in which one element is changed, added or taken out.          *)

\* A sequence with another element at one place (obj, one field of which most
\* handlers change).
LEMMA Changed ==
  ASSUME NEW S, NEW s \in Seq(S), NEW i \in 1..Len(s), NEW x \in S
  PROVE  /\ [s EXCEPT ![i] = x] \in Seq(S)
         /\ Len([s EXCEPT ![i] = x]) = Len(s)
         /\ [s EXCEPT ![i] = x][i] = x
         /\ \A j \in 1..Len(s) : j # i => [s EXCEPT ![i] = x][j] = s[j]
OBVIOUS

\* A sequence with one element more (push_back).
LEMMA Added ==
  ASSUME NEW S, NEW s \in Seq(S), NEW x \in S
  PROVE  /\ Append(s, x) \in Seq(S)
         /\ Len(Append(s, x)) = Len(s) + 1 /\ Len(s) \in Nat
         /\ Append(s, x)[Len(s) + 1] = x
         /\ \A j \in 1..Len(s) : Append(s, x)[j] = s[j]
OBVIOUS

\* A listener is taken out of a list and the others keep their order
\* (std::remove_if in removeSubscription).
LEMMA TakenOut ==
  ASSUME NEW s \in Seq(Listener), NEW i,
         \A p, q \in DOMAIN s : s[p].id = s[q].id => p = q
  PROVE  /\ Without(s, i) \in Seq(Listener)
         /\ \E f \in [DOMAIN Without(s, i) -> DOMAIN s] :
              /\ \A p \in DOMAIN Without(s, i) :
                   Without(s, i)[p] = s[f[p]] /\ s[f[p]].id # i
              /\ \A p, q \in DOMAIN Without(s, i) : p < q => f[p] < f[q]
              /\ \A q \in DOMAIN s : s[q].id # i => \E p \in DOMAIN Without(s, i) : f[p] = q
<1> DEFINE t == Without(s, i)
<1>1. CASE ~ \E n \in DOMAIN s : s[n].id = i
  <2>1. t = s
    BY <1>1 DEF Without
  <2> DEFINE f == [p \in DOMAIN t |-> p]
  <2>2. /\ f \in [DOMAIN t -> DOMAIN s]
        /\ \A p \in DOMAIN t : t[p] = s[f[p]] /\ s[f[p]].id # i
        /\ \A p, q \in DOMAIN t : p < q => f[p] < f[q]
        /\ \A q \in DOMAIN s : s[q].id # i => \E p \in DOMAIN t : f[p] = q
    BY <1>1, <2>1
  <2>3. QED
    BY <2>1, <2>2
<1>2. CASE \E n \in DOMAIN s : s[n].id = i
  <2> DEFINE k == CHOOSE n \in DOMAIN s : s[n].id = i
  <2>1. k \in DOMAIN s /\ s[k].id = i /\ DOMAIN s = 1..Len(s) /\ Len(s) \in Nat
    BY <1>2
  <2>2. t = SubSeq(s, 1, k - 1) \o SubSeq(s, k + 1, Len(s))
    BY <1>2 DEF Without, RemoveAt
  <2> HIDE DEF k, t
  <2>3. /\ SubSeq(s, 1, k - 1) \in Seq(Listener) /\ Len(SubSeq(s, 1, k - 1)) = k - 1
        /\ \A p \in 1..(k - 1) : SubSeq(s, 1, k - 1)[p] = s[p]
    BY <2>1
  <2>4. /\ SubSeq(s, k + 1, Len(s)) \in Seq(Listener)
        /\ Len(SubSeq(s, k + 1, Len(s))) = Len(s) - k
        /\ \A p \in 1..(Len(s) - k) : SubSeq(s, k + 1, Len(s))[p] = s[k + p]
    BY <2>1
  <2>5. /\ t \in Seq(Listener) /\ Len(t) = Len(s) - 1 /\ DOMAIN t = 1..(Len(s) - 1)
        /\ \A p \in 1..(Len(s) - 1) : t[p] = IF p < k THEN s[p] ELSE s[p + 1]
    <3> DEFINE a == SubSeq(s, 1, k - 1)
               b == SubSeq(s, k + 1, Len(s))
    <3> HIDE DEF a, b
    <3>1. /\ a \in Seq(Listener) /\ Len(a) = k - 1 /\ \A p \in 1..(k - 1) : a[p] = s[p]
          /\ b \in Seq(Listener) /\ Len(b) = Len(s) - k
          /\ \A p \in 1..(Len(s) - k) : b[p] = s[k + p]
      BY <2>3, <2>4 DEF a, b
    <3>2. t = a \o b
      BY <2>2 DEF a, b
    <3>3. k \in 1..Len(s) /\ Len(s) \in Nat
      BY <2>1
    <3>4. t \in Seq(Listener) /\ Len(t) = Len(s) - 1 /\ DOMAIN t = 1..(Len(s) - 1)
      BY <3>1, <3>2, <3>3
    <3>5. ASSUME NEW p \in 1..(Len(s) - 1), p < k
          PROVE  t[p] = s[p]
      BY <3>1, <3>2, <3>3, <3>5
    <3>6. ASSUME NEW p \in 1..(Len(s) - 1), ~(p < k)
          PROVE  t[p] = s[p + 1]
      <4>1. t[p] = b[p - (k - 1)] /\ p - (k - 1) \in 1..(Len(s) - k)
        BY <3>1, <3>2, <3>3, <3>6
      <4>2. k + (p - (k - 1)) = p + 1
        BY <3>3
      <4>3. QED
        BY <3>1, <4>1, <4>2
    <3>7. QED
      BY <3>4, <3>5, <3>6
  <2> DEFINE f == [p \in DOMAIN t |-> IF p < k THEN p ELSE p + 1]
  <2>6. f \in [DOMAIN t -> DOMAIN s]
    BY <2>1, <2>5
  <2>7. \A p \in DOMAIN t : t[p] = s[f[p]] /\ s[f[p]].id # i
    BY <2>1, <2>5
  <2>8. \A p, q \in DOMAIN t : p < q => f[p] < f[q]
    BY <2>1, <2>5
  <2>9. ASSUME NEW q \in DOMAIN s, s[q].id # i
        PROVE  \E p \in DOMAIN t : f[p] = q
    <3>1. q # k
      BY <2>1, <2>9
    <3>2. CASE q < k
      BY <2>1, <2>5, <3>2
    <3>3. CASE q > k
      <4>1. q - 1 \in DOMAIN t /\ f[q - 1] = q
        BY <2>1, <2>5, <3>3
      <4>2. QED
        BY <4>1
    <3>4. QED
      BY <2>1, <3>1, <3>2, <3>3
  <2> HIDE DEF f
  <2>10. QED
    BY <2>5, <2>6, <2>7, <2>8, <2>9 DEF t
<1>3. QED
  BY <1>1, <1>2

-----------------------------------------------------------------------------
(* Most steps change nothing but messages.                                 *)

\* Where a caller has neither a pointer nor the lock.
Idling == CallAt \ (Pointing \cup {"freeing"})

\* What a thread, a publisher or a return leaves alone.
Inert ==
  /\ UNCHANGED <<kind, subs, counter, idMap, lock, raced, wiped, misused>>
  /\ Len(obj') = Len(obj)
  /\ \A o \in 1..Len(obj) :
       /\ obj'[o].key = obj[o].key /\ obj'[o].clients = obj[o].clients
       /\ obj'[o].running = obj[o].running /\ obj'[o].alive = obj[o].alive
       /\ obj[o].gone => obj'[o].gone
  /\ \A c \in Caller : \/ call'[c] = call[c]
                       \/ call[c].at \in Idling /\ call'[c].at \in Idling

\* What is known of an object of the sequence.
LEMMA ObjectFacts ==
  ASSUME SubsTypes
  PROVE  /\ Len(obj) \in Nat
         /\ \A o \in 1..Len(obj) :
              /\ obj[o] \in Object /\ obj[o].key \in Key /\ obj[o].clients \in Seq(Listener)
              /\ obj[o].inbox \in Seq(Message) /\ obj[o].hand \in Seq(Message)
         /\ subs \subseteq 1..Len(obj)
<1>1. obj \in Seq(Object)
  BY DEF SubsTypes
<1>2. \A o \in 1..Len(obj) : obj[o] \in Object
  BY <1>1
<1>3. QED
  BY <1>1, <1>2 DEF Object, SubsTypes

\* An object of which only the messages, the place in the list of clients in
\* shared memory and the end of its thread change.
LEMMA ObjectChangeIsInert ==
  ASSUME SubsTypes, NEW o \in 1..Len(obj), NEW x \in Object,
         obj' = [obj EXCEPT ![o] = x],
         UNCHANGED <<kind, subs, lock, raced, wiped, idVars, call, sendVars, misused>>,
         x.key = obj[o].key, x.clients = obj[o].clients, x.running = obj[o].running,
         x.alive = obj[o].alive, obj[o].gone => x.gone,
         strayed' \in BOOLEAN, Copying => heard' \in [1..MaxId -> Seq(Message)]
  PROVE  SubsTypes' /\ Inert
<1>1. /\ obj' = [obj EXCEPT ![o] = x] /\ obj \in Seq(Object)
      /\ UNCHANGED <<kind, subs, lock, raced, wiped, counter, idMap, call, sent, misused>>
  BY DEF idVars, sendVars, SubsTypes
<1>2. /\ obj' \in Seq(Object) /\ Len(obj') = Len(obj) /\ obj'[o] = x
      /\ \A p \in 1..Len(obj) : p # o => obj'[p] = obj[p]
  BY <1>1, Changed
<1>3. SubsTypes'
  BY <1>1, <1>2 DEF SubsTypes, Copying
<1>4. Inert
  BY <1>1, <1>2 DEF Inert
<1>5. QED
  BY <1>3, <1>4

\* A step of a subscription's thread (Set), of which only the messages and the
\* end of the thread are seen.
LEMMA SetIsInert ==
  ASSUME SubsTypes, NEW o \in 1..Len(obj), NEW x \in Object, Set(o, x),
         x.key = obj[o].key, x.clients = obj[o].clients, x.running = obj[o].running,
         x.alive = obj[o].alive, obj[o].gone => x.gone,
         strayed' \in BOOLEAN, Copying => heard' \in [1..MaxId -> Seq(Message)]
  PROVE  SubsTypes' /\ Inert
<1>1. /\ obj' = [obj EXCEPT ![o] = x]
      /\ UNCHANGED <<kind, subs, lock, raced, wiped, idVars, call, sendVars, misused>>
  BY DEF Set
<1>2. QED
  BY <1>1, ObjectChangeIsInert

\* A listener hears sequences of messages (callClient).
LEMMA HeardCopiesKeepsTypes ==
  ASSUME SubsTypes, Copying, NEW o, NEW m \in Message
  PROVE  HeardCopies(o, m) \in [1..MaxId -> Seq(Message)]
<1>1. \A i \in 1..MaxId : heard[i] \in Seq(Message) /\ Append(heard[i], m) \in Seq(Message)
  BY DEF SubsTypes
<1>2. QED
  BY <1>1 DEF HeardCopies

\* Every step of a thread of the subscriptions.
LEMMA ThreadStepsAreInert ==
  ASSUME SubsTypes, NEW o \in 1..Len(obj), ThreadSteps(o)
  PROVE  SubsTypes' /\ Inert
<1>1. /\ obj[o] \in Object /\ obj[o].hand \in Seq(Message) /\ obj[o].inbox \in Seq(Message)
      /\ strayed \in BOOLEAN /\ (Copying => heard \in [1..MaxId -> Seq(Message)])
  BY ObjectFacts DEF SubsTypes
<1>2. CASE NNGRedial(o)
  <2>1. obj[o].dials + 1 \in 1..2
    BY <1>1, <1>2 DEF NNGRedial, Object
  <2>2. [obj[o] EXCEPT !.dials = obj[o].dials + 1] \in Object
    BY <1>1, <2>1 DEF Object
  <2>3. /\ Set(o, [obj[o] EXCEPT !.dials = obj[o].dials + 1])
        /\ UNCHANGED <<heard, strayed>>
    BY <1>2 DEF NNGRedial
  <2>4. QED
    BY <1>1, <2>2, <2>3, SetIsInert DEF Object
<1>3. CASE Receive(o)
  <2> DEFINE x == [obj[o] EXCEPT !.hand = <<Head(obj[o].inbox)>>, !.inbox = Tail(@)]
  <2>1. obj[o].inbox # <<>>
    BY <1>3 DEF Receive
  <2>2. <<Head(obj[o].inbox)>> \in Seq(Message) /\ Tail(obj[o].inbox) \in Seq(Message)
    BY <1>1, <2>1
  <2>3. x \in Object
    BY <1>1, <2>2 DEF Object
  <2>4. Set(o, x) /\ UNCHANGED <<heard, strayed>>
    BY <1>3 DEF Receive
  <2>5. QED
    BY <1>1, <2>3, <2>4, SetIsInert DEF Object
<1>4. CASE ThreadEnds(o)
  <2> DEFINE x == [obj[o] EXCEPT !.gone = TRUE, !.hand = <<>>]
  <2>1. x \in Object
    <3>1. <<>> \in Seq(Message) /\ TRUE \in BOOLEAN
      OBVIOUS
    <3>2. QED
      BY <1>1, <3>1 DEF Object
  <2>2. /\ Set(o, x) /\ heard' = heard
        /\ strayed' = (strayed \/ ~obj[o].alive)
    BY <1>4 DEF ThreadEnds
  <2>3. strayed' \in BOOLEAN
    BY <2>2
  <2>4. QED
    BY <1>1, <2>1, <2>2, <2>3, SetIsInert DEF Object
<1>5. CASE (Copying /\ HandOut(o, HeardCopies)) \/ (~Copying /\ HandOut(o, HeardMoved))
  <2> DEFINE x == [obj[o] EXCEPT !.hand = Tail(@)]
  <2>1. obj[o].hand # <<>> /\ Set(o, x) /\ strayed' = strayed
    BY <1>5 DEF HandOut
  <2>2. Head(obj[o].hand) \in Message /\ Tail(obj[o].hand) \in Seq(Message)
    BY <1>1, <2>1
  <2>3. x \in Object
    BY <1>1, <2>2 DEF Object
  <2>4. Copying => heard' \in [1..MaxId -> Seq(Message)]
    <3>1. Copying => heard' = HeardCopies(o, Head(obj[o].hand))
      BY <1>5 DEF HandOut
    <3>2. QED
      BY <2>2, <3>1, HeardCopiesKeepsTypes
  <2>5. QED
    BY <1>1, <2>1, <2>3, <2>4, SetIsInert DEF Object
<1>6. QED
  BY <1>2, <1>3, <1>4, <1>5 DEF ThreadSteps

\* A caller that goes from one place without pointer to another.
LEMMA MovesIdly ==
  ASSUME SubsTypes, NEW c \in Caller, NEW x \in Doings,
         call' = [call EXCEPT ![c] = x], call[c].at \in Idling, x.at \in Idling,
         x.at \in {"publishing", "late"} => x.o \in 1..Len(obj)
  PROVE  /\ call' \in [Caller -> Doings]
         /\ \A d \in Caller : call'[d].at \in Pointing \cup {"freeing", "publishing", "late"}
                                => call'[d].o \in 1..Len(obj)
         /\ \A d \in Caller : \/ call'[d] = call[d]
                              \/ call[d].at \in Idling /\ call'[d].at \in Idling
<1>1. call \in [Caller -> Doings]
  BY DEF SubsTypes
<1>2. call'[c] = x /\ \A d \in Caller : d # c => call'[d] = call[d]
  BY <1>1
<1>3. call' \in [Caller -> Doings]
  BY <1>1
<1>4. ASSUME NEW d \in Caller,
             call'[d].at \in Pointing \cup {"freeing", "publishing", "late"}
      PROVE  call'[d].o \in 1..Len(obj)
  <2>1. CASE d = c
    BY <1>2, <1>4, <2>1 DEF Idling
  <2>2. CASE d # c
    BY <1>2, <1>4, <2>2 DEF SubsTypes
  <2>3. QED
    BY <2>1, <2>2
<1>5. QED
  BY <1>2, <1>3, <1>4

\* The call returns (importers, fetches, the facility).
LEMMA ReturnsIsInert ==
  ASSUME SubsTypes, NEW c \in Caller, Returns(c)
  PROVE  SubsTypes' /\ Inert
<1>1. Out \in Doings /\ Out.at \in Idling /\ Out.at \notin {"publishing", "late"}
  BY SubscriptionsAssumption DEF Out, Doings, CallAt, Pointing, Idling, Filter
<1>2. call[c].at \in Idling
  BY DEF Returns, Idling, CallAt, Pointing
<1>3. /\ call' = [call EXCEPT ![c] = Out]
      /\ UNCHANGED <<kind, subs, obj, lock, raced, wiped, counter, idMap, heard, sent,
                     misused, strayed>>
  BY DEF Returns, objVars, idVars, sendVars, undef
<1>4. /\ call' \in [Caller -> Doings]
      /\ \A d \in Caller : call'[d].at \in Pointing \cup {"freeing", "publishing", "late"}
                             => call'[d].o \in 1..Len(obj)
      /\ \A d \in Caller : \/ call'[d] = call[d]
                           \/ call[d].at \in Idling /\ call'[d].at \in Idling
  BY <1>1, <1>2, <1>3, MovesIdly
<1>5. SubsTypes'
  BY <1>3, <1>4 DEF SubsTypes, Copying
<1>6. Inert
  BY <1>3, <1>4 DEF Inert
<1>7. QED
  BY <1>5, <1>6

\* What is published gets to the inboxes (Send).
LEMMA SendsIsInert ==
  ASSUME SubsTypes, Sends
  PROVE  SubsTypes' /\ Inert
<1>1. PICK l \in Locator, tp \in Topic, To \in SUBSET subs : Send(l, tp, To)
  BY DEF Sends
<1>2. sent \in 0..MaxSent /\ sent < MaxSent /\ sent' = sent + 1 /\ MaxSent \in Nat
  BY <1>1, SubscriptionsAssumption DEF Send, SubsTypes
<1>3. [topic |-> tp, body |-> sent + 1] \in Message /\ sent' \in 0..MaxSent
  BY <1>2 DEF Message
<1> DEFINE more(o) == [n \in 1..obj[o].dials |-> [topic |-> tp, body |-> sent + 1]]
           given(o) == [obj[o] EXCEPT !.inbox = obj[o].inbox \o more(o)]
<1>4. ASSUME NEW o \in 1..Len(obj)
      PROVE  /\ given(o) \in Object
             /\ given(o).key = obj[o].key /\ given(o).clients = obj[o].clients
             /\ given(o).running = obj[o].running /\ given(o).alive = obj[o].alive
             /\ given(o).gone = obj[o].gone
  <2>1. obj[o] \in Object /\ obj[o].inbox \in Seq(Message) /\ obj[o].dials \in Nat
    BY ObjectFacts DEF Object
  <2>2. more(o) \in Seq(Message)
    BY <1>3, <2>1
  <2> HIDE DEF more
  <2>3. obj[o].inbox \o more(o) \in Seq(Message)
    BY <2>1, <2>2
  <2>4. QED
    BY <2>1, <2>3 DEF Object
<1>5. PICK got \in SUBSET To :
        obj' = [o \in 1..Len(obj) |-> IF o \in got THEN given(o) ELSE obj[o]]
  BY <1>1 DEF Send
<1> HIDE DEF given
<1>6. \A o \in 1..Len(obj) : obj'[o] \in Object /\ (obj'[o] = obj[o] \/ obj'[o] = given(o))
  BY <1>4, <1>5, ObjectFacts
<1>7. obj' \in Seq(Object) /\ Len(obj') = Len(obj)
  BY <1>5, <1>6, ObjectFacts
<1>8. UNCHANGED <<kind, subs, lock, raced, wiped, counter, idMap, call, heard, misused, strayed>>
  BY <1>1 DEF Send, idVars, undef
<1>9. SubsTypes'
  BY <1>3, <1>7, <1>8 DEF SubsTypes, Copying
<1>10. Inert
  BY <1>4, <1>6, <1>7, <1>8 DEF Inert
<1>11. QED
  BY <1>9, <1>10

\* A sender is made for an address (Open), or somebody waits.
LEMMA OpenIsInert ==
  ASSUME SubsTypes, NEW l, Open(l) \/ Waits
  PROVE  SubsTypes' /\ Inert
<1>1. UNCHANGED <<kind, subs, obj, lock, raced, wiped, counter, idMap, call, heard, sent,
                  misused, strayed>>
  BY DEF Open, Waits, objVars, idVars, undef, sendVars
<1>2. SubsTypes'
  BY <1>1 DEF SubsTypes, Copying
<1>3. Inert
  BY <1>1 DEF Inert
<1>4. QED
  BY <1>2, <1>3

\* The reader takes its queue, and a publisher appends to one.
LEMMA ShmStepsAreInert ==
  ASSUME SubsTypes, Shm, ShmSteps
  PROVE  SubsTypes' /\ Inert
<1>1. Copying /\ (Copying => heard \in [1..MaxId -> Seq(Message)]) /\ strayed \in BOOLEAN
      /\ <<>> \in Seq(Message)
  BY DEF Shm, Copying, SubsTypes
<1>2. ASSUME NEW o \in 1..Len(obj), ShmTakeQueue(o)
      PROVE  SubsTypes' /\ Inert
  <2> DEFINE x == [obj[o] EXCEPT !.hand = obj[o].inbox, !.inbox = <<>>]
  <2>1. x \in Object
    BY <1>1, ObjectFacts DEF Object
  <2>2. /\ x.key = obj[o].key /\ x.clients = obj[o].clients /\ x.running = obj[o].running
        /\ x.alive = obj[o].alive /\ x.gone = obj[o].gone
    BY ObjectFacts DEF Object
  <2>3. /\ obj' = [obj EXCEPT ![o] = x] /\ obj \in Seq(Object)
        /\ UNCHANGED <<kind, subs, lock, raced, wiped, counter, idMap, heard, sent, misused,
                       strayed>>
    BY <1>2 DEF ShmTakeQueue, idVars, sendVars, undef, SubsTypes
  <2> HIDE DEF x
  <2>4. /\ obj' \in Seq(Object) /\ Len(obj') = Len(obj) /\ obj'[o] = x
        /\ \A p \in 1..Len(obj) : p # o => obj'[p] = obj[p]
    BY <2>1, <2>3, Changed
  <2>5. call \in [Caller -> Doings]
    BY DEF SubsTypes
  <2>6. ASSUME NEW c \in Caller
        PROVE  /\ call'[c] \in Doings
               /\ \/ call'[c] = call[c]
                  \/ /\ call[c].at \in Idling /\ call'[c].at \in Idling
                     /\ call[c].at = "publishing" /\ call'[c].o = call[c].o
    <3>1. call'[c] = IF call[c].at = "publishing" /\ call[c].o = o
                     THEN [call[c] EXCEPT !.at = "late"] ELSE call[c]
      BY <1>2 DEF ShmTakeQueue
    <3>2. call[c] \in Doings /\ "late" \in CallAt /\ {"late", "publishing"} \subseteq Idling
      BY <2>5 DEF CallAt, Idling, Pointing
    <3>3. CASE call[c].at = "publishing" /\ call[c].o = o
      BY <3>1, <3>2, <3>3 DEF Doings
    <3>4. QED
      BY <3>1, <3>2, <3>3
  <2>7. call' \in [Caller -> Doings]
    BY <1>2, <2>6 DEF ShmTakeQueue
  <2>8. \A c \in Caller : call'[c].at \in Pointing \cup {"freeing", "publishing", "late"}
                            => call'[c].o \in 1..Len(obj)
    BY <2>6 DEF SubsTypes
  <2>9. SubsTypes'
    BY <2>3, <2>4, <2>7, <2>8 DEF SubsTypes, Copying
  <2>10. Inert
    BY <2>2, <2>3, <2>4, <2>6 DEF Inert
  <2>11. QED
    BY <2>9, <2>10
<1>3. ASSUME NEW o \in 1..Len(obj), ShmHandleData(o)
      PROVE  SubsTypes' /\ Inert
  <2> DEFINE x == [obj[o] EXCEPT !.hand = Tail(@)]
  <2>1. CASE HandOut(o, HeardCopies)
    BY <1>1, <2>1, ThreadStepsAreInert DEF ThreadSteps
  <2>2. CASE obj[o].hand # <<>> /\ Set(o, x) /\ UNCHANGED <<heard, strayed>>
    <3>1. Tail(obj[o].hand) \in Seq(Message)
      BY <2>2, ObjectFacts
    <3>2. x \in Object
      BY <3>1, ObjectFacts DEF Object
    <3>3. QED
      BY <1>1, <2>2, <3>2, ObjectFacts, SetIsInert DEF Object
  <2>3. QED
    BY <1>3, <2>1, <2>2 DEF ShmHandleData
<1>4. ASSUME NEW o \in 1..Len(obj), ShmDropStale(o)
      PROVE  SubsTypes' /\ Inert
  <2> DEFINE x == [obj[o] EXCEPT !.linked = FALSE, !.inbox = <<>>]
  <2>1. x \in Object
    BY <1>1, ObjectFacts DEF Object
  <2>2. /\ obj' = [obj EXCEPT ![o] = x] /\ strayed' = (strayed \/ obj[o].inbox # <<>>)
        /\ UNCHANGED <<kind, subs, lock, raced, wiped, idVars, call, heard, sendVars, misused>>
    BY <1>4 DEF ShmDropStale, ShmRelease
  <2>3. strayed' \in BOOLEAN /\ heard' = heard
    BY <2>2
  <2>4. QED
    BY <1>1, <2>1, <2>2, <2>3, ObjectFacts, ObjectChangeIsInert DEF Object
<1>5. ASSUME NEW o \in 1..Len(obj), NEW c \in Caller, ShmReadTail(c, o)
      PROVE  SubsTypes' /\ Inert
  <2> DEFINE x == [Out EXCEPT !.at = "publishing", !.o = o]
  <2>1. Out \in Doings /\ {"publishing", "out"} \subseteq Idling /\ "publishing" \in CallAt
    BY SubscriptionsAssumption DEF Out, Doings, CallAt, Pointing, Idling, Filter
  <2>2. x \in Doings /\ x.at = "publishing" /\ x.o = o
    <3>1. o \in Nat
      BY ObjectFacts
    <3>2. QED
      BY <2>1, <3>1 DEF Doings
  <2>3. /\ call' = [call EXCEPT ![c] = x] /\ call[c].at = "out"
        /\ UNCHANGED <<kind, subs, obj, lock, raced, wiped, counter, idMap, heard, sent,
                       misused, strayed>>
    BY <1>5 DEF ShmReadTail, objVars, idVars, sendVars, undef
  <2> HIDE DEF x
  <2>4. /\ call' \in [Caller -> Doings]
        /\ \A d \in Caller : call'[d].at \in Pointing \cup {"freeing", "publishing", "late"}
                               => call'[d].o \in 1..Len(obj)
        /\ \A d \in Caller : \/ call'[d] = call[d]
                             \/ call[d].at \in Idling /\ call'[d].at \in Idling
    BY <2>1, <2>2, <2>3, MovesIdly
  <2>5. SubsTypes'
    BY <2>3, <2>4 DEF SubsTypes, Copying
  <2>6. Inert
    BY <2>3, <2>4 DEF Inert
  <2>7. QED
    BY <2>5, <2>6
<1>6. ASSUME NEW c \in Caller, NEW tp \in Topic, ShmAppend(c, tp)
      PROVE  SubsTypes' /\ Inert
  <2> DEFINE o == call[c].o
             m == [topic |-> tp, body |-> sent + 1]
             x == [obj[o] EXCEPT !.inbox = Append(obj[o].inbox, m)]
  <2>1. sent \in 0..MaxSent /\ sent < MaxSent /\ sent' = sent + 1 /\ MaxSent \in Nat
    BY <1>6, SubscriptionsAssumption DEF ShmAppend, SubsTypes
  <2>2. m \in Message /\ sent' \in 0..MaxSent
    BY <2>1 DEF Message
  <2>3. call[c].at \in {"publishing", "late"} /\ o \in 1..Len(obj)
    BY <1>6 DEF ShmAppend, SubsTypes
  <2>4. /\ obj[o] \in Object /\ obj[o].inbox \in Seq(Message)
    BY <2>3, ObjectFacts
  <2>5. Append(obj[o].inbox, m) \in Seq(Message)
    BY <2>2, <2>4
  <2>6. x \in Object
    BY <2>4, <2>5 DEF Object
  <2>7. /\ x.key = obj[o].key /\ x.clients = obj[o].clients /\ x.running = obj[o].running
        /\ x.alive = obj[o].alive /\ x.gone = obj[o].gone
    BY <2>4 DEF Object
  <2>8. /\ obj' = IF obj[o].linked THEN [obj EXCEPT ![o] = x] ELSE obj
        /\ call' = [call EXCEPT ![c] = Out]
        /\ strayed' = (strayed \/ call[c].at = "late" \/ ~obj[o].alive)
        /\ UNCHANGED <<kind, subs, lock, raced, wiped, counter, idMap, heard, misused>>
    BY <1>6 DEF ShmAppend, idVars
  <2> HIDE DEF x, m
  <2>9. /\ obj' \in Seq(Object) /\ Len(obj') = Len(obj)
        /\ obj'[o] = x \/ obj'[o] = obj[o]
        /\ \A p \in 1..Len(obj) : p # o => obj'[p] = obj[p]
    <3>1. CASE obj[o].linked
      BY <2>3, <2>6, <2>8, <3>1, Changed DEF SubsTypes
    <3>2. CASE ~obj[o].linked
      BY <2>8, <3>2 DEF SubsTypes
    <3>3. QED
      BY <3>1, <3>2
  <2>10. Out \in Doings /\ {"publishing", "late", "out"} \subseteq Idling /\ Out.at = "out"
    BY SubscriptionsAssumption DEF Out, Doings, CallAt, Pointing, Idling, Filter
  <2>11. /\ call' \in [Caller -> Doings]
         /\ \A d \in Caller : call'[d].at \in Pointing \cup {"freeing", "publishing", "late"}
                                => call'[d].o \in 1..Len(obj)
         /\ \A d \in Caller : \/ call'[d] = call[d]
                              \/ call[d].at \in Idling /\ call'[d].at \in Idling
    BY <2>3, <2>8, <2>10, MovesIdly
  <2>12. strayed' \in BOOLEAN
    BY <2>8
  <2>13. SubsTypes'
    BY <2>2, <2>8, <2>9, <2>11, <2>12 DEF SubsTypes, Copying
  <2>14. Inert
    BY <2>7, <2>8, <2>9, <2>11 DEF Inert
  <2>15. QED
    BY <2>13, <2>14
<1>7. QED
  BY <1>2, <1>3, <1>4, <1>5, <1>6 DEF ShmSteps

-----------------------------------------------------------------------------
(* What such a step keeps.                                                 *)

\* A suffix stays one when both sequences get the same message, and nothing is
\* a suffix of everything.
LEMMA SuffixGrows ==
  ASSUME NEW S, NEW s \in Seq(S), NEW t \in Seq(S), NEW m \in S, IsSuffix(s, t)
  PROVE  IsSuffix(Append(s, m), Append(t, m))
<1> DEFINE s1 == Append(s, m)
           t1 == Append(t, m)
<1>1. /\ Len(s) \in Nat /\ Len(t) \in Nat /\ Len(s) <= Len(t)
      /\ \A i \in 1..Len(s) : s[Len(s) - i + 1] = t[Len(t) - i + 1]
  <2> DEFINE u == Reverse(s)
             v == Reverse(t)
  <2>1. Len(s) \in Nat /\ Len(t) \in Nat
    OBVIOUS
  <2>2. /\ u \in Seq(S) /\ Len(u) = Len(s) /\ \A i \in 1..Len(s) : u[i] = s[Len(s) - i + 1]
        /\ v \in Seq(S) /\ Len(v) = Len(t) /\ \A i \in 1..Len(t) : v[i] = t[Len(t) - i + 1]
    BY <2>1 DEF Reverse
  <2>3. Len(u) <= Len(v) /\ SubSeq(u, 1, Len(u)) = SubSeq(v, 1, Len(u))
    BY DEF IsSuffix, IsPrefix
  <2> HIDE DEF u, v
  <2>4. ASSUME NEW i \in 1..Len(s)
        PROVE  u[i] = v[i]
    <3>1. i \in 1..Len(u) /\ i \in 1..Len(v)
      BY <2>1, <2>2, <2>3
    <3>2. SubSeq(u, 1, Len(u))[i] = u[i] /\ SubSeq(v, 1, Len(u))[i] = v[i]
      BY <2>1, <2>2, <2>3, <3>1
    <3>3. QED
      BY <2>3, <3>2
  <2>5. QED
    BY <2>1, <2>2, <2>3, <2>4
<1>2. /\ s1 \in Seq(S) /\ Len(s1) = Len(s) + 1 /\ s1[Len(s) + 1] = m
      /\ \A i \in 1..Len(s) : s1[i] = s[i]
      /\ t1 \in Seq(S) /\ Len(t1) = Len(t) + 1 /\ t1[Len(t) + 1] = m
      /\ \A i \in 1..Len(t) : t1[i] = t[i]
  BY Added
<1> HIDE DEF s1, t1
<1>3. ASSUME NEW i \in 1..Len(s1)
      PROVE  s1[Len(s1) - i + 1] = t1[Len(t1) - i + 1]
  <2>1. CASE i = 1
    BY <1>1, <1>2, <2>1
  <2>2. CASE i # 1
    <3>1. i - 1 \in 1..Len(s)
      BY <1>1, <1>2, <2>2
    <3>2. s[Len(s) - (i - 1) + 1] = t[Len(t) - (i - 1) + 1]
      BY <1>1, <3>1
    <3>3. /\ Len(s1) - i + 1 = Len(s) - (i - 1) + 1 /\ Len(s1) - i + 1 \in 1..Len(s)
          /\ Len(t1) - i + 1 = Len(t) - (i - 1) + 1 /\ Len(t1) - i + 1 \in 1..Len(t)
      BY <1>1, <1>2, <3>1
    <3>4. QED
      BY <1>2, <3>2, <3>3
  <2>3. QED
    BY <2>1, <2>2
<1>4. IsSuffix(s1, t1)
  BY <1>1, <1>2, <1>3 DEF IsSuffix, IsPrefix, Reverse
<1>5. QED
  BY <1>4 DEF s1, t1

\* A listener that has heard nothing has heard the last nothing.
LEMMA NothingIsASuffix ==
  ASSUME NEW S, NEW t \in Seq(S)
  PROVE  IsSuffix(<<>>, t)
BY DEF IsSuffix, IsPrefix, Reverse

\* All that is said of objects, ids and pointers is true after a step that
\* changes none.
LEMMA InertIsSafe ==
  ASSUME SubsTypes, Sound, Inert
  PROVE  /\ IdsAreLeft' /\ FreeingHolds' /\ AliveIsOwned' /\ IdsAreDrawnOnce'
         /\ ExchangesAreOwn' /\ Orderly'
         /\ misused' => raced' \/ wiped'
<1>1. /\ kind' = kind /\ subs' = subs /\ counter' = counter /\ idMap' = idMap /\ lock' = lock
      /\ raced' = raced /\ wiped' = wiped /\ misused' = misused /\ Len(obj') = Len(obj)
      /\ subs \subseteq 1..Len(obj) /\ idMap \subseteq (1..MaxId) \X (1..Len(obj))
  BY DEF Inert, SubsTypes
<1>2. \A o \in 1..Len(obj) :
        /\ obj'[o].key = obj[o].key /\ obj'[o].clients = obj[o].clients
        /\ obj'[o].running = obj[o].running /\ obj'[o].alive = obj[o].alive
        /\ obj[o].gone => obj'[o].gone
  BY DEF Inert
<1>3. \A c \in Caller : \/ call'[c] = call[c]
                        \/ call[c].at \in Idling /\ call'[c].at \in Idling
  BY DEF Inert
<1>4. \A c \in Caller : /\ call'[c].at \in Pointing <=> call[c].at \in Pointing
                        /\ call'[c].at = "freeing" <=> call[c].at = "freeing"
                        /\ call'[c].at \in Pointing \cup {"freeing"} => call'[c] = call[c]
  BY <1>3 DEF Idling, Pointing
<1>5. \A c \in Caller : /\ call'[c].at = "adding" <=> call[c].at = "adding"
                        /\ call'[c].at = "removing" <=> call[c].at = "removing"
  BY <1>4 DEF Pointing
<1>6. \A o : Holders(o)' = Holders(o) /\ (Freeing(o)' <=> Freeing(o))
  BY <1>4 DEF Holders, Freeing
<1>7. IdsAreLeft'
  <2>1. Adding' = Adding
    BY <1>5 DEF Adding
  <2>2. QED
    BY <1>1, <2>1 DEF Sound, IdsAreLeft
<1>8. FreeingHolds'
  BY <1>1, <1>4 DEF Sound, FreeingHolds
<1>9. AliveIsOwned'
  BY <1>1, <1>2 DEF Sound, AliveIsOwned
<1>10. IdsAreDrawnOnce'
  <2>1. \A c \in Caller : call'[c].at = "removing" => call'[c].id <= counter
    BY <1>4, <1>5 DEF Sound, IdsAreDrawnOnce, Pointing
  <2>2. QED
    BY <1>1, <1>2, <2>1 DEF Sound, IdsAreDrawnOnce
<1>11. ExchangesAreOwn'
  BY <1>1, <1>2, <1>4 DEF Sound, ExchangesAreOwn
<1>12. Orderly'
  <2>1. CASE raced \/ wiped
    BY <1>1, <2>1 DEF Orderly
  <2>2. CASE ~raced /\ ~wiped
    <3>1. IdsLeadToListeners /\ KeysDiffer /\ NoneIsLeft /\ PointersAreGood /\ FreeingIsAlone
      BY <2>2 DEF Sound, Orderly
    <3>2. IdsLeadToListeners' /\ KeysDiffer'
      BY <1>1, <1>2, <3>1 DEF IdsLeadToListeners, KeysDiffer
    <3>3. NoneIsLeft'
      BY <1>1, <1>2, <1>6, <3>1 DEF NoneIsLeft
    <3>4. PointersAreGood'
      <4>1. ASSUME NEW c \in Caller, call'[c].at \in Pointing
            PROVE  /\ call'[c].o \in subs' /\ obj'[call'[c].o].running
                   /\ call'[c].at = "removing" => \A x \in idMap' : x[1] # call'[c].id
        <5>1. call'[c] = call[c] /\ call[c].at \in Pointing
          BY <1>4, <4>1
        <5>2. /\ call[c].o \in subs /\ obj[call[c].o].running
              /\ call[c].at = "removing" => \A x \in idMap : x[1] # call[c].id
          BY <3>1, <5>1 DEF PointersAreGood
        <5>3. QED
          BY <1>1, <1>2, <5>1, <5>2
      <4>2. QED
        BY <4>1 DEF PointersAreGood
    <3>5. FreeingIsAlone'
      <4>1. ASSUME NEW c \in Caller, call'[c].at = "freeing"
            PROVE  /\ call'[c].o \in subs' /\ Holders(call[c].o)' = {} /\ call'[c].o = call[c].o
                   /\ \A x \in idMap' : x[2] # call'[c].o
                   /\ kind' # "rabbitmq" => obj'[call'[c].o].clients = <<>>
        <5>1. call'[c] = call[c] /\ call[c].at = "freeing"
          BY <1>4, <4>1
        <5>2. /\ call[c].o \in subs /\ Holders(call[c].o) = {}
              /\ \A x \in idMap : x[2] # call[c].o
              /\ kind # "rabbitmq" => obj[call[c].o].clients = <<>>
          BY <3>1, <5>1 DEF FreeingIsAlone
        <5>3. Holders(call[c].o)' = {}
          <6>1. call[c].o' = call[c].o
            BY <5>1
          <6>2. QED
            BY <1>6, <5>1, <5>2, <6>1 DEF Holders
        <5>4. QED
          BY <1>1, <1>2, <5>1, <5>2, <5>3
      <4>2. QED
        BY <4>1 DEF FreeingIsAlone
    <3>6. QED
      BY <3>2, <3>3, <3>4, <3>5 DEF Orderly
  <2>3. QED
    BY <2>1, <2>2
<1>13. misused' => raced' \/ wiped'
  BY <1>1 DEF Sound
<1>14. QED
  BY <1>7, <1>8, <1>9, <1>10, <1>11, <1>12, <1>13

\* Suffixes stay while nothing is heard.
LEMMA SilenceKeepsSuffixes ==
  ASSUME SubsTypes, Sound, Inert, heard' = heard
  PROVE  SuffixesHeard'
<1>1. kind' = kind /\ counter' = counter /\ Len(obj') = Len(obj)
  BY DEF Inert
<1>2. \A o \in 1..Len(obj) : obj'[o].clients = obj[o].clients
  BY DEF Inert
<1>3. QED
  BY <1>1, <1>2 DEF Sound, SuffixesHeard, Copying

\* A message goes to all listeners of an object whose filter it matches, or
\* to none of those with one filter (run of each transport that copies).
LEMMA HandOutKeepsSuffixes ==
  ASSUME SubsTypes, Sound, Copying, NEW o \in 1..Len(obj), HandOut(o, HeardCopies),
         Inert
  PROVE  SuffixesHeard'
<1> DEFINE m == Head(obj[o].hand)
           called == {x.id : x \in {y \in Range(obj[o].clients) : Matches(y.filter, m.topic)}}
<1>1. /\ kind' = kind /\ counter' = counter /\ Len(obj') = Len(obj)
      /\ \A p \in 1..Len(obj) : obj'[p].clients = obj[p].clients
  BY DEF Inert
<1>2. /\ heard' = HeardCopies(o, m) /\ obj[o].hand # <<>>
      /\ heard \in [1..MaxId -> Seq(Message)]
  BY DEF HandOut, SubsTypes
<1>3. m \in Message
  BY <1>2, ObjectFacts
<1>4. \A i \in 1..MaxId : /\ heard[i] \in Seq(Message)
                          /\ heard'[i] = IF i \in called THEN Append(heard[i], m) ELSE heard[i]
  BY <1>2 DEF HeardCopies
<1>5. \A p \in 1..Len(obj) : \A n \in DOMAIN obj[p].clients :
        obj[p].clients[n].id \in 1..MaxId /\ obj[p].clients[n].id <= counter
  <2>1. \A p \in 1..Len(obj) : \A n \in DOMAIN obj[p].clients : obj[p].clients[n] \in Listener
    BY ObjectFacts
  <2>2. QED
    BY <2>1 DEF Listener, Sound, IdsAreDrawnOnce
<1>6. \A i \in called : i <= counter
  BY <1>5 DEF Range
<1>7. \A p \in 1..Len(obj) : \A n \in DOMAIN obj[p].clients :
        obj[p].clients[n].id \in called
          <=> p = o /\ Matches(obj[p].clients[n].filter, m.topic)
  <2>1. ASSUME NEW p \in 1..Len(obj), NEW n \in DOMAIN obj[p].clients,
               obj[p].clients[n].id \in called
        PROVE  p = o /\ Matches(obj[p].clients[n].filter, m.topic)
    <3>1. PICK k \in DOMAIN obj[o].clients :
            /\ obj[o].clients[k].id = obj[p].clients[n].id
            /\ Matches(obj[o].clients[k].filter, m.topic)
      BY <2>1 DEF Range
    <3>2. o = p /\ k = n
      BY <3>1 DEF Sound, IdsAreDrawnOnce
    <3>3. QED
      BY <3>1, <3>2
  <2>2. ASSUME NEW n \in DOMAIN obj[o].clients, Matches(obj[o].clients[n].filter, m.topic)
        PROVE  obj[o].clients[n].id \in called
    BY <2>2 DEF Range
  <2>3. QED
    BY <2>1, <2>2
<1> HIDE DEF called, m
<1>8. ASSUME NEW i \in 1..MaxId, i > counter
      PROVE  heard'[i] = <<>>
  <2>1. heard[i] = <<>>
    BY <1>8 DEF Sound, SuffixesHeard
  <2>2. i \notin called
    BY <1>6, <1>8 DEF SubsTypes
  <2>3. QED
    BY <1>4, <2>1, <2>2
<1>9. ASSUME NEW p \in 1..Len(obj), NEW j \in DOMAIN obj[p].clients,
             NEW k \in DOMAIN obj[p].clients, j < k,
             obj[p].clients[j].filter = obj[p].clients[k].filter
      PROVE  IsSuffix(heard'[obj[p].clients[k].id], heard'[obj[p].clients[j].id])
  <2> DEFINE a == obj[p].clients[k].id
             b == obj[p].clients[j].id
  <2>1. IsSuffix(heard[a], heard[b])
    BY <1>9 DEF Sound, SuffixesHeard
  <2>2. a \in 1..MaxId /\ b \in 1..MaxId /\ (a \in called <=> b \in called)
    BY <1>5, <1>7, <1>9
  <2> HIDE DEF a, b
  <2>3. CASE a \in called
    <3>1. heard'[a] = Append(heard[a], m) /\ heard'[b] = Append(heard[b], m)
      BY <1>4, <2>2, <2>3
    <3>2. heard[a] \in Seq(Message) /\ heard[b] \in Seq(Message)
      BY <1>4, <2>2
    <3>3. QED
      BY <1>3, <2>1, <3>1, <3>2, SuffixGrows DEF a, b
  <2>4. CASE a \notin called
    BY <1>4, <2>1, <2>2, <2>4 DEF a, b
  <2>5. QED
    BY <2>3, <2>4
<1>10. QED
  BY <1>1, <1>8, <1>9 DEF SuffixesHeard

-----------------------------------------------------------------------------
(* The steps of a caller.                                                  *)

\* How many callers ask for a subscription (bound Room).
LEMMA AddingChanges ==
  ASSUME SubsTypes, NEW c \in Caller, NEW x, call' = [call EXCEPT ![c] = x]
  PROVE  /\ Cardinality(Adding) \in Nat /\ Cardinality(Adding') \in Nat
         /\ call[c].at # "adding" /\ x.at = "adding"
              => Cardinality(Adding') = Cardinality(Adding) + 1
         /\ call[c].at = "adding" /\ x.at # "adding"
              => Cardinality(Adding) = Cardinality(Adding') + 1
         /\ (call[c].at = "adding" <=> x.at = "adding") => Adding' = Adding
<1>1. call'[c] = x /\ \A d \in Caller : d # c => call'[d] = call[d]
  BY DEF SubsTypes
<1>2. IsFiniteSet(Adding) /\ IsFiniteSet(Adding')
  BY FS_Subset, SubscriptionsAssumption DEF Adding
<1>3. Cardinality(Adding) \in Nat /\ Cardinality(Adding') \in Nat
  BY <1>2, FS_CardinalityType
<1>4. ASSUME call[c].at # "adding", x.at = "adding"
      PROVE  Cardinality(Adding') = Cardinality(Adding) + 1
  <2>1. Adding' = Adding \cup {c} /\ c \notin Adding
    BY <1>1, <1>4 DEF Adding
  <2>2. QED
    BY <1>2, <2>1, FS_AddElement
<1>5. ASSUME call[c].at = "adding", x.at # "adding"
      PROVE  Cardinality(Adding) = Cardinality(Adding') + 1
  <2>1. Adding = Adding' \cup {c} /\ c \notin Adding'
    BY <1>1, <1>5 DEF Adding
  <2>2. QED
    BY <1>2, <2>1, FS_AddElement
<1>6. ASSUME call[c].at = "adding" <=> x.at = "adding"
      PROVE  Adding' = Adding
  BY <1>1, <1>6 DEF Adding
<1>7. QED
  BY <1>3, <1>4, <1>5, <1>6

\* While nobody holds mutex_ nothing is being freed.
LEMMA NobodyFrees ==
  ASSUME Sound, lock = Nobody
  PROVE  /\ \A c \in Caller : call[c].at # "freeing"
         /\ \A o : ~Freeing(o)
BY SubscriptionsAssumption DEF Sound, FreeingHolds, Freeing

\* A caller finds the object of a key (getOrStartSubscription).
LEMMA FindingKeeps ==
  ASSUME SubsTypes, Sound, NEW c \in Caller, NEW o \in subs, NEW f \in Filter,
         kind # "rabbitmq", call[c].at = "out", lock = Nobody, Room,
         call' = [call EXCEPT ![c] = [at |-> "adding", o |-> o, id |-> 0, filter |-> f]],
         UNCHANGED <<kind, subs, obj, idVars, lock, heard, sendVars, undef, raced, wiped>>
  PROVE  SubsTypes' /\ Sound'
<1> DEFINE x == [at |-> "adding", o |-> o, id |-> 0, filter |-> f]
<1>1. /\ UNCHANGED <<kind, subs, obj, counter, idMap, lock, heard, sent, misused, strayed,
                     raced, wiped>>
      /\ call \in [Caller -> Doings] /\ o \in 1..Len(obj)
  BY DEF idVars, sendVars, undef, SubsTypes
<1>2. x \in Doings /\ x.at = "adding" /\ x.o = o
  <2>1. o \in Nat /\ 0 \in 0..MaxId /\ "adding" \in CallAt
    BY <1>1, SubscriptionsAssumption DEF SubsTypes, CallAt, Pointing
  <2>2. QED
    BY <2>1 DEF Doings
<1>3. call' = [call EXCEPT ![c] = x]
  OBVIOUS
<1> HIDE DEF x
<1>4. /\ call' \in [Caller -> Doings] /\ call'[c] = x
      /\ \A d \in Caller : d # c => call'[d] = call[d]
  BY <1>1, <1>2, <1>3
<1>5. SubsTypes'
  <2>1. \A d \in Caller : call'[d].at \in Pointing \cup {"freeing", "publishing", "late"}
                             => call'[d].o \in 1..Len(obj)
    BY <1>1, <1>2, <1>4 DEF SubsTypes
  <2>2. QED
    BY <1>1, <1>4, <2>1 DEF SubsTypes, Copying
<1>6. IdsAreLeft'
  <2>1. Room <=> counter + Cardinality(Adding) < MaxId
    BY DEF Room, Adding
  <2>2. Cardinality(Adding') = Cardinality(Adding) + 1 /\ Cardinality(Adding) \in Nat
    BY <1>2, <1>3, AddingChanges
  <2>3. counter' = counter /\ counter \in Nat /\ MaxId \in Nat
    BY <1>1, SubscriptionsAssumption DEF SubsTypes
  <2>4. QED
    BY <2>1, <2>2, <2>3 DEF IdsAreLeft
<1>7. \A d \in Caller : call[d].at # "freeing" /\ call'[d].at # "freeing"
  BY <1>2, <1>4, NobodyFrees
<1>8. FreeingHolds' /\ AliveIsOwned' /\ ExchangesAreOwn' /\ SuffixesHeard'
  BY <1>1, <1>7 DEF Sound, FreeingHolds, AliveIsOwned, ExchangesAreOwn, SuffixesHeard, Copying
<1>9. IdsAreDrawnOnce'
  <2>1. \A d \in Caller : call'[d].at = "removing" => call'[d].id <= counter
    BY <1>2, <1>4 DEF Sound, IdsAreDrawnOnce
  <2>2. QED
    BY <1>1, <2>1 DEF Sound, IdsAreDrawnOnce
<1>10. ASSUME IdsLeadToListeners, KeysDiffer, NoneIsLeft, PointersAreGood
       PROVE  Orderly'
  <2>1. IdsLeadToListeners' /\ KeysDiffer'
    BY <1>1, <1>10 DEF IdsLeadToListeners, KeysDiffer
  <2>2. \A p \in subs : obj[p].running
    BY <1>10, NobodyFrees DEF NoneIsLeft
  <2>3. \A p : Holders(p) \subseteq Holders(p)'
    BY <1>2, <1>4 DEF Holders, Pointing
  <2>4. NoneIsLeft'
    BY <1>1, <1>10, <2>2, <2>3, NobodyFrees DEF NoneIsLeft
  <2>5. PointersAreGood'
    BY <1>1, <1>2, <1>4, <1>10, <2>2 DEF PointersAreGood
  <2>6. FreeingIsAlone'
    BY <1>7 DEF FreeingIsAlone
  <2>7. QED
    BY <2>1, <2>4, <2>5, <2>6 DEF Orderly
<1>11. Orderly'
  BY <1>1, <1>10 DEF Sound, Orderly
<1>12. /\ misused' => raced' \/ wiped'
       /\ kind' \in Joining => ~strayed'
  BY <1>1 DEF Sound
<1>13. QED
  BY <1>5, <1>6, <1>8, <1>9, <1>11, <1>12 DEF Sound

\* Or makes it: nobody else has the key (getOrStartSubscription).
LEMMA MakingKeeps ==
  ASSUME SubsTypes, Sound, NEW c \in Caller, NEW key \in Key, NEW l \in Locator,
         NEW f \in Filter, NEW tp \in Filter,
         kind # "rabbitmq", call[c].at = "out", lock = Nobody, Room,
         \A o \in subs : obj[o].key # key,
         obj' = Append(obj, Fresh(key, l, tp)),
         subs' = subs \cup {Len(obj) + 1},
         call' = [call EXCEPT ![c] =
                    [at |-> "adding", o |-> Len(obj) + 1, id |-> 0, filter |-> f]],
         UNCHANGED <<kind, idVars, lock, heard, sendVars, undef, raced, wiped>>
  PROVE  SubsTypes' /\ Sound'
<1> DEFINE n == Len(obj) + 1
           x == [at |-> "adding", o |-> n, id |-> 0, filter |-> f]
           y == Fresh(key, l, tp)
<1>1. /\ UNCHANGED <<kind, counter, idMap, lock, heard, sent, misused, strayed, raced, wiped>>
      /\ call \in [Caller -> Doings] /\ Len(obj) \in Nat /\ obj \in Seq(Object)
      /\ subs \subseteq 1..Len(obj) /\ idMap \subseteq (1..MaxId) \X (1..Len(obj))
  BY ObjectFacts DEF idVars, sendVars, undef, SubsTypes
<1>2. x \in Doings /\ x.at = "adding" /\ x.o = n
  <2>1. n \in Nat /\ 0 \in 0..MaxId /\ "adding" \in CallAt
    BY <1>1, SubscriptionsAssumption DEF CallAt, Pointing
  <2>2. QED
    BY <2>1 DEF Doings
<1>3. /\ y \in Object /\ y.key = key /\ y.clients = <<>> /\ y.running = TRUE
      /\ y.alive = TRUE
  <2>1. <<>> \in Seq(Listener) /\ <<>> \in Seq(Message) /\ TRUE \in BOOLEAN /\ FALSE \in BOOLEAN
        /\ 1 \in 1..2
    OBVIOUS
  <2>2. QED
    BY <2>1 DEF Fresh, Object
<1>4. call' = [call EXCEPT ![c] = x] /\ subs' = subs \cup {n}
  OBVIOUS
<1>5. /\ obj' \in Seq(Object) /\ Len(obj') = n /\ obj'[n] = y
      /\ \A p \in 1..Len(obj) : obj'[p] = obj[p]
      /\ n \in 1..Len(obj') /\ n \notin 1..Len(obj) /\ n \notin subs
      /\ \A p \in 1..Len(obj') : p = n \/ p \in 1..Len(obj)
      /\ 1..Len(obj) \subseteq 1..Len(obj')
  <2>1. obj' = Append(obj, y)
    OBVIOUS
  <2> HIDE DEF y
  <2>2. obj' \in Seq(Object) /\ Len(obj') = n /\ obj'[n] = y
        /\ \A p \in 1..Len(obj) : obj'[p] = obj[p]
    BY <1>1, <1>3, <2>1, Added
  <2>3. QED
    BY <1>1, <2>2
<1> HIDE DEF x, y, n
<1>6. /\ call' \in [Caller -> Doings] /\ call'[c] = x
      /\ \A d \in Caller : d # c => call'[d] = call[d]
  BY <1>1, <1>2, <1>4
<1>7. SubsTypes'
  <2>1. \A d \in Caller : call'[d].at \in Pointing \cup {"freeing", "publishing", "late"}
                             => call'[d].o \in 1..Len(obj')
    BY <1>2, <1>5, <1>6 DEF SubsTypes
  <2>2. subs' \subseteq 1..Len(obj') /\ idMap' \subseteq (1..MaxId) \X (1..Len(obj'))
    BY <1>1, <1>4, <1>5
  <2>3. QED
    BY <1>1, <1>5, <1>6, <2>1, <2>2 DEF SubsTypes, Copying
<1>8. IdsAreLeft'
  <2>1. Room <=> counter + Cardinality(Adding) < MaxId
    BY DEF Room, Adding
  <2>2. Cardinality(Adding') = Cardinality(Adding) + 1 /\ Cardinality(Adding) \in Nat
    BY <1>2, <1>4, AddingChanges
  <2>3. counter' = counter /\ counter \in Nat /\ MaxId \in Nat
    BY <1>1, SubscriptionsAssumption DEF SubsTypes
  <2>4. QED
    BY <2>1, <2>2, <2>3 DEF IdsAreLeft
<1>9. \A d \in Caller : call[d].at # "freeing" /\ call'[d].at # "freeing"
  BY <1>2, <1>6, NobodyFrees
<1>10. FreeingHolds' /\ ExchangesAreOwn'
  BY <1>1, <1>9 DEF Sound, FreeingHolds, ExchangesAreOwn
<1>11. AliveIsOwned'
  BY <1>1, <1>3, <1>4, <1>5 DEF Sound, AliveIsOwned
<1>12. \A o \in 1..Len(obj') : \A p \in DOMAIN obj'[o].clients :
         o \in 1..Len(obj) /\ obj'[o] = obj[o]
  BY <1>3, <1>5
<1>13. IdsAreDrawnOnce'
  <2>1. \A d \in Caller : call'[d].at = "removing" => call'[d].id <= counter
    BY <1>2, <1>6 DEF Sound, IdsAreDrawnOnce
  <2>2. QED
    <3>1. \A w \in idMap' : w[1] <= counter'
      BY <1>1 DEF Sound, IdsAreDrawnOnce
    <3>2. \A p \in 1..Len(obj') : \A j \in DOMAIN obj'[p].clients :
            /\ p \in 1..Len(obj) /\ j \in DOMAIN obj[p].clients
            /\ obj'[p].clients[j] = obj[p].clients[j]
      BY <1>12
    <3>3. \A p \in 1..Len(obj') : \A j \in DOMAIN obj'[p].clients :
            obj'[p].clients[j].id <= counter'
      BY <1>1, <3>2 DEF Sound, IdsAreDrawnOnce
    <3>4. \A p, q \in 1..Len(obj') :
            \A j \in DOMAIN obj'[p].clients, k \in DOMAIN obj'[q].clients :
              obj'[p].clients[j].id = obj'[q].clients[k].id => p = q /\ j = k
      BY <3>2 DEF Sound, IdsAreDrawnOnce
    <3>5. QED
      BY <1>1, <2>1, <3>1, <3>3, <3>4 DEF IdsAreDrawnOnce
<1>14. SuffixesHeard'
  BY <1>1, <1>12 DEF Sound, SuffixesHeard, Copying
<1>15. ASSUME IdsLeadToListeners, KeysDiffer, NoneIsLeft, PointersAreGood
       PROVE  Orderly'
  <2>1. IdsLeadToListeners'
    BY <1>1, <1>4, <1>5, <1>15 DEF IdsLeadToListeners
  <2>2. KeysDiffer'
    BY <1>1, <1>3, <1>4, <1>5, <1>15 DEF KeysDiffer
  <2>3. \A p \in subs : obj[p].running
    BY <1>15, NobodyFrees DEF NoneIsLeft
  <2>4. \A p : Holders(p) \subseteq Holders(p)'
    BY <1>2, <1>6 DEF Holders, Pointing
  <2>5. ASSUME NEW p, p = n
        PROVE  Holders(p)' # {}
    <3>1. c \in {d \in Caller : call'[d].o = p /\ call'[d].at \in Pointing}
      BY <1>2, <1>6, <2>5 DEF Pointing
    <3>2. QED
      BY <3>1 DEF Holders
  <2>6. NoneIsLeft'
    <3>1. ASSUME NEW p \in subs
          PROVE  /\ obj'[p].clients # <<>> \/ Holders(p)' # {} \/ Freeing(p)'
                 /\ obj'[p].running
      BY <1>1, <1>5, <1>15, <2>3, <2>4, NobodyFrees DEF NoneIsLeft
    <3>2. ASSUME NEW p, p = n
          PROVE  Holders(p)' # {} /\ obj'[p].running
      BY <1>3, <1>5, <2>5, <3>2
    <3>3. QED
      BY <1>4, <3>1, <3>2 DEF NoneIsLeft
  <2>7. PointersAreGood'
    <3>1. ASSUME NEW d \in Caller, call'[d].at \in Pointing
          PROVE  /\ call'[d].o \in subs' /\ obj'[call'[d].o].running
                 /\ call'[d].at = "removing" => \A z \in idMap' : z[1] # call'[d].id
      <4>1. CASE d = c
        BY <1>2, <1>3, <1>4, <1>5, <1>6, <4>1
      <4>2. CASE d # c
        <5>1. call'[d] = call[d] /\ call[d].at \in Pointing
          BY <1>6, <3>1, <4>2
        <5>2. /\ call[d].o \in subs /\ obj[call[d].o].running
              /\ call[d].at = "removing" => \A z \in idMap : z[1] # call[d].id
          BY <1>15, <5>1 DEF PointersAreGood
        <5>3. call[d].o \in 1..Len(obj)
          BY <1>1, <5>2
        <5>4. QED
          BY <1>1, <1>4, <1>5, <5>1, <5>2, <5>3
      <4>3. QED
        BY <4>1, <4>2
    <3>2. QED
      BY <3>1 DEF PointersAreGood
  <2>8. FreeingIsAlone'
    BY <1>9 DEF FreeingIsAlone
  <2>9. QED
    BY <2>1, <2>2, <2>6, <2>7, <2>8 DEF Orderly
<1>16. Orderly'
  BY <1>1, <1>15 DEF Sound, Orderly
<1>17. /\ misused' => raced' \/ wiped'
       /\ kind' \in Joining => ~strayed'
  BY <1>1 DEF Sound
<1>18. QED
  BY <1>7, <1>8, <1>10, <1>11, <1>13, <1>14, <1>16, <1>17 DEF Sound

\* A call that finds a client, or makes one, keeps it all.
LEMMA FindsKeeps ==
  ASSUME SubsTypes, Sound, Finds
  PROVE  SubsTypes' /\ Sound'
<1>1. PICK c \in Caller, key \in Key, l \in Locator, f \in Filter, tp \in Filter :
        kind # "rabbitmq" /\ FindOrMake(c, key, l, f, tp)
  BY DEF Finds
<1>2. /\ call[c].at = "out" /\ lock = Nobody /\ Room
      /\ UNCHANGED <<kind, idVars, lock, heard, sendVars, undef, raced, wiped>>
  BY <1>1 DEF FindOrMake
<1>3. CASE \E o \in {p \in subs : obj[p].key = key} :
             /\ call' = [call EXCEPT ![c] =
                           [at |-> "adding", o |-> o, id |-> 0, filter |-> f]]
             /\ UNCHANGED <<subs, obj>>
  BY <1>1, <1>2, <1>3, FindingKeeps
<1>4. CASE /\ {p \in subs : obj[p].key = key} = {}
           /\ obj' = Append(obj, Fresh(key, l, tp))
           /\ subs' = subs \cup {Len(obj) + 1}
           /\ call' = [call EXCEPT ![c] =
                         [at |-> "adding", o |-> Len(obj) + 1, id |-> 0, filter |-> f]]
  <2>1. \A o \in subs : obj[o].key # key
    BY <1>4
  <2>2. QED
    BY <1>1, <1>2, <1>4, <2>1, MakingKeeps
<1>5. QED
  BY <1>1, <1>3, <1>4 DEF FindOrMake

\* A caller goes through a freed pointer only where one was freed under it
\* (the calls on the raw pointer of every component).
LEMMA MisusesKeeps ==
  ASSUME SubsTypes, Sound, NEW c \in Caller, Misuses(c)
  PROVE  SubsTypes' /\ Sound'
<1>1. /\ UNCHANGED <<kind, subs, obj, counter, idMap, lock, call, heard, sent, strayed, raced,
                     wiped>>
      /\ misused' = TRUE
  BY DEF Misuses, Misuse, objVars, idVars, sendVars
<1>2. raced \/ wiped
  <2>1. call[c].at \in Pointing /\ ~obj[call[c].o].alive
    BY DEF Misuses
  <2>2. call[c].o \in 1..Len(obj)
    BY <2>1 DEF SubsTypes
  <2>3. call[c].o \notin subs
    BY <2>1, <2>2 DEF Sound, AliveIsOwned
  <2>4. QED
    BY <2>1, <2>3 DEF Sound, Orderly, PointersAreGood
<1>3. SubsTypes'
  BY <1>1 DEF SubsTypes, Copying
<1>4. IdsAreLeft' /\ FreeingHolds' /\ AliveIsOwned' /\ ExchangesAreOwn' /\ SuffixesHeard'
  BY <1>1 DEF Sound, IdsAreLeft, Adding, FreeingHolds, AliveIsOwned, ExchangesAreOwn,
              SuffixesHeard, Copying
<1>5. IdsAreDrawnOnce'
  BY <1>1 DEF Sound, IdsAreDrawnOnce
<1>6. Orderly' /\ (misused' => raced' \/ wiped') /\ (kind' \in Joining => ~strayed')
  BY <1>1, <1>2 DEF Sound, Orderly
<1>7. QED
  BY <1>3, <1>4, <1>5, <1>6 DEF Sound

\* A listener is registered under a new id (addSubscription, addClient).
LEMMA RegistersKeeps ==
  ASSUME SubsTypes, Sound, NEW c \in Caller, Registers(c)
  PROVE  SubsTypes' /\ Sound'
<1> DEFINE o == call[c].o
           i == counter + 1
           cl == obj[o].clients
           z == [id |-> i, filter |-> call[c].filter, by |-> c]
           y == [obj[o] EXCEPT !.clients = Append(cl, z)]
           x == [Out EXCEPT !.at = "added", !.id = i]
<1>1. /\ call[c].at = "adding" /\ o \in 1..Len(obj) /\ obj[o].alive
      /\ counter' = i /\ obj' = [obj EXCEPT ![o] = y]
      /\ idMap' = idMap \cup {<<i, o>>} /\ call' = [call EXCEPT ![c] = x]
      /\ UNCHANGED <<kind, subs, lock, raced, wiped, heard, sent, misused, strayed>>
  BY DEF Registers, Register, SubsTypes, Pointing, sendVars, undef
<1>2. /\ call \in [Caller -> Doings] /\ call[c] \in Doings /\ obj \in Seq(Object)
      /\ obj[o] \in Object /\ cl \in Seq(Listener) /\ counter \in Nat
      /\ subs \subseteq 1..Len(obj) /\ idMap \subseteq (1..MaxId) \X (1..Len(obj))
  BY <1>1, ObjectFacts DEF SubsTypes
<1>3. x.at = "added" /\ x.id = i /\ x.o = 0
  BY DEF Out
<1>4. /\ Cardinality(Adding) = Cardinality(Adding') + 1
      /\ Cardinality(Adding) \in Nat /\ Cardinality(Adding') \in Nat
  BY <1>1, <1>3, AddingChanges
<1>5. i \in 1..MaxId /\ i \in 0..MaxId /\ counter' + Cardinality(Adding') <= MaxId
  <2>1. counter + Cardinality(Adding) <= MaxId /\ MaxId \in Nat
    BY SubscriptionsAssumption DEF Sound, IdsAreLeft
  <2>2. counter' = i /\ counter \in Nat
    BY <1>1, <1>2
  <2>3. QED
    BY <1>4, <2>1, <2>2
<1>6. x \in Doings
  <2>1. "added" \in CallAt /\ Every \in Filter /\ 0 \in Nat
    BY DEF CallAt, Filter
  <2>2. QED
    BY <1>5, <2>1 DEF Out, Doings
<1>7. z \in Listener
  BY <1>2, <1>5 DEF Listener, Doings
<1>8. /\ Append(cl, z) \in Seq(Listener) /\ Len(Append(cl, z)) = Len(cl) + 1 /\ Len(cl) \in Nat
      /\ Append(cl, z)[Len(cl) + 1] = z
      /\ \A j \in 1..Len(cl) : Append(cl, z)[j] = cl[j]
  <2> HIDE DEF z, cl
  <2>1. QED
    BY <1>2, <1>7, Added
<1>9. /\ y \in Object /\ y.key = obj[o].key /\ y.running = obj[o].running
      /\ y.alive = obj[o].alive /\ y.gone = obj[o].gone /\ y.clients = Append(cl, z)
  BY <1>2, <1>8 DEF Object
<1> HIDE DEF x, y
<1>10. /\ call' \in [Caller -> Doings] /\ call'[c] = x
       /\ \A d \in Caller : d # c => call'[d] = call[d]
  BY <1>1, <1>2, <1>6
<1>11. /\ obj' \in Seq(Object) /\ Len(obj') = Len(obj) /\ obj'[o] = y
       /\ \A p \in 1..Len(obj) : p # o => obj'[p] = obj[p]
  BY <1>1, <1>2, <1>9, Changed
<1>12. \A p \in 1..Len(obj) :
         /\ obj'[p].key = obj[p].key /\ obj'[p].running = obj[p].running
         /\ obj'[p].alive = obj[p].alive /\ obj'[p].gone = obj[p].gone
  BY <1>9, <1>11
<1>13. ASSUME NEW p \in 1..Len(obj), NEW j \in DOMAIN obj'[p].clients
       PROVE  \/ p = o /\ j = Len(cl) + 1 /\ obj'[p].clients[j] = z
              \/ j \in DOMAIN obj[p].clients /\ obj'[p].clients[j] = obj[p].clients[j]
  <2>1. CASE p = o
    <3>1. obj'[p].clients = Append(cl, z)
      BY <1>9, <1>11, <2>1
    <3>2. DOMAIN cl = 1..Len(cl) /\ DOMAIN Append(cl, z) = 1..(Len(cl) + 1)
      BY <1>2, <1>8
    <3>3. j = Len(cl) + 1 \/ j \in 1..Len(cl)
      <4>1. j \in 1..(Len(cl) + 1)
        BY <3>1, <3>2
      <4>2. Len(cl) \in Nat
        BY <1>8
      <4> HIDE DEF cl, z
      <4>3. QED
        BY <4>1, <4>2
    <3>4. QED
      BY <1>8, <2>1, <3>1, <3>2, <3>3
  <2>2. CASE p # o
    BY <1>11, <2>2
  <2>3. QED
    BY <2>1, <2>2
<1>14. ASSUME NEW p \in 1..Len(obj), NEW j \in DOMAIN obj[p].clients
       PROVE  j \in DOMAIN obj'[p].clients /\ obj'[p].clients[j] = obj[p].clients[j]
  <2>1. CASE p = o
    <3>1. j \in 1..Len(cl) /\ obj'[p].clients = Append(cl, z)
      <4>1. DOMAIN cl = 1..Len(cl)
        BY <1>2
      <4>2. QED
        BY <1>9, <1>11, <2>1, <4>1
    <3>2. j \in DOMAIN Append(cl, z)
      <4>1. DOMAIN Append(cl, z) = 1..(Len(cl) + 1) /\ Len(cl) \in Nat
        BY <1>8
      <4>2. j \in 1..Len(cl)
        BY <3>1
      <4> HIDE DEF cl, z
      <4>3. QED
        BY <4>1, <4>2
    <3>3. QED
      BY <1>8, <2>1, <3>1, <3>2
  <2>2. CASE p # o
    BY <1>11, <2>2
  <2>3. QED
    BY <2>1, <2>2
<1>15. SubsTypes'
  <2>1. \A d \in Caller : call'[d].at \in Pointing \cup {"freeing", "publishing", "late"}
                             => call'[d].o \in 1..Len(obj)
    BY <1>3, <1>10 DEF SubsTypes, Pointing
  <2>2. idMap' \subseteq (1..MaxId) \X (1..Len(obj'))
    BY <1>1, <1>2, <1>5, <1>11
  <2>3. counter' \in Nat
    BY <1>1, <1>5
  <2>4. QED
    BY <1>1, <1>10, <1>11, <2>1, <2>2, <2>3 DEF SubsTypes, Copying
<1>16. FreeingHolds'
  <2>1. \A d \in Caller : call'[d].at = "freeing" <=> call[d].at = "freeing"
    BY <1>1, <1>3, <1>10
  <2>2. QED
    BY <1>1, <2>1 DEF Sound, FreeingHolds
<1>17. AliveIsOwned'
  BY <1>1, <1>11, <1>12 DEF Sound, AliveIsOwned
<1>18. IdsAreDrawnOnce'
  <2>1. \A w \in idMap' : w[1] <= counter'
    <3>1. \A w \in idMap : w[1] \in Nat /\ w[1] <= counter
      BY <1>2 DEF Sound, IdsAreDrawnOnce
    <3>2. QED
      BY <1>1, <1>2, <3>1
  <2>2. \A d \in Caller : call'[d].at = "removing" => call'[d].id <= counter'
    <3>1. \A d \in Caller : call[d].at = "removing" => call[d].id \in Nat /\ call[d].id <= counter
      BY <1>2 DEF Sound, IdsAreDrawnOnce, Doings
    <3>2. QED
      BY <1>1, <1>2, <1>3, <1>10, <3>1
  <2>3. ASSUME NEW p \in 1..Len(obj), NEW j \in DOMAIN obj[p].clients
        PROVE  obj[p].clients[j].id \in Nat /\ obj[p].clients[j].id <= counter
    <3>1. obj[p].clients[j] \in Listener
      BY ObjectFacts
    <3>2. QED
      BY <3>1 DEF Sound, IdsAreDrawnOnce, Listener
  <2>4. z.id = i
    OBVIOUS
  <2>5. \A p \in 1..Len(obj) : \A j \in DOMAIN obj'[p].clients :
          obj'[p].clients[j].id <= counter'
    BY <1>1, <1>2, <1>13, <2>3, <2>4
  <2>6. ASSUME NEW p \in 1..Len(obj), NEW q \in 1..Len(obj), NEW j \in DOMAIN obj'[p].clients,
               NEW k \in DOMAIN obj'[q].clients,
               obj'[p].clients[j].id = obj'[q].clients[k].id
        PROVE  p = q /\ j = k
    <3>1. CASE j \in DOMAIN obj[p].clients /\ obj'[p].clients[j] = obj[p].clients[j]
      <4>1. obj[p].clients[j].id # i
        BY <1>2, <2>3, <3>1
      <4>2. k \in DOMAIN obj[q].clients /\ obj'[q].clients[k] = obj[q].clients[k]
        BY <1>13, <2>4, <2>6, <3>1, <4>1
      <4>3. QED
        BY <2>6, <3>1, <4>2 DEF Sound, IdsAreDrawnOnce
    <3>2. CASE p = o /\ j = Len(cl) + 1 /\ obj'[p].clients[j] = z
      <4>1. ~(k \in DOMAIN obj[q].clients /\ obj'[q].clients[k] = obj[q].clients[k])
        <5>1. obj'[q].clients[k].id = i
          BY <2>4, <2>6, <3>2
        <5>2. QED
          BY <1>2, <2>3, <5>1
      <4>2. QED
        BY <1>13, <3>2, <4>1
    <3>3. QED
      BY <1>13, <3>1, <3>2
  <2>7. QED
    BY <1>11, <2>1, <2>2, <2>5, <2>6 DEF IdsAreDrawnOnce
<1>19. kind # "rabbitmq"
  BY <1>1 DEF Sound, ExchangesAreOwn, Pointing
<1>20. ExchangesAreOwn'
  BY <1>1, <1>19 DEF ExchangesAreOwn
<1>21. SuffixesHeard'
  <2>1. ASSUME Copying
        PROVE  /\ \A h \in 1..MaxId : h > counter' => heard[h] = <<>>
               /\ heard[i] = <<>>
    BY <1>1, <1>2, <1>5, <2>1 DEF Sound, SuffixesHeard
  <2>2. ASSUME Copying, NEW p \in 1..Len(obj), NEW j \in DOMAIN obj'[p].clients,
               NEW k \in DOMAIN obj'[p].clients, j < k,
               obj'[p].clients[j].filter = obj'[p].clients[k].filter
        PROVE  IsSuffix(heard[obj'[p].clients[k].id], heard[obj'[p].clients[j].id])
    <3>1. CASE obj'[p].clients[k] = z
      <4>1. heard[obj'[p].clients[k].id] = <<>>
        BY <2>1, <2>2, <3>1
      <4>2. obj'[p] \in Object /\ obj'[p].clients[j] \in Listener
        <5>1. obj'[p] \in Object
          BY <1>11
        <5>2. obj'[p].clients \in Seq(Listener)
          BY <5>1 DEF Object
        <5>3. QED
          BY <5>1, <5>2
      <4>3. heard[obj'[p].clients[j].id] \in Seq(Message)
        BY <2>2, <4>2 DEF SubsTypes, Listener
      <4>4. QED
        BY <4>1, <4>3, NothingIsASuffix
    <3>2. CASE k \in DOMAIN obj[p].clients /\ obj'[p].clients[k] = obj[p].clients[k]
      <4>1. j \in DOMAIN obj[p].clients /\ obj'[p].clients[j] = obj[p].clients[j]
        <5>1. ~(p = o /\ j = Len(cl) + 1)
          BY <1>2, <1>8, <2>2, <3>2
        <5>2. QED
          BY <1>13, <5>1
      <4>2. QED
        BY <2>2, <3>2, <4>1 DEF Sound, SuffixesHeard
    <3>3. QED
      BY <1>13, <3>1, <3>2
  <2>3. kind' = kind /\ heard' = heard /\ Len(obj') = Len(obj)
    BY <1>1, <1>11
  <2>4. QED
    BY <2>1, <2>2, <2>3 DEF SuffixesHeard, Copying
<1>22. ASSUME IdsLeadToListeners, KeysDiffer, NoneIsLeft, PointersAreGood, FreeingIsAlone
       PROVE  Orderly'
  <2>1. o \in subs /\ obj[o].running
    BY <1>1, <1>22 DEF PointersAreGood, Pointing
  <2>2. IdsLeadToListeners'
    <3>1. ASSUME NEW w \in idMap'
          PROVE  /\ w[2] \in subs /\ obj'[w[2]].running
                 /\ \E j \in DOMAIN obj'[w[2]].clients : obj'[w[2]].clients[j].id = w[1]
      <4>1. CASE w \in idMap
        <5>1. w[2] \in subs /\ obj[w[2]].running /\ w[2] \in 1..Len(obj)
          BY <1>2, <1>22, <4>1 DEF IdsLeadToListeners
        <5>2. PICK j \in DOMAIN obj[w[2]].clients : obj[w[2]].clients[j].id = w[1]
          BY <1>22, <4>1 DEF IdsLeadToListeners
        <5>3. QED
          BY <1>12, <1>14, <5>1, <5>2
      <4>2. CASE w = <<i, o>>
        <5>1. Len(cl) + 1 \in DOMAIN Append(cl, z) /\ Append(cl, z)[Len(cl) + 1].id = i
          <6> DEFINE more == Append(cl, z)
          <6>1. /\ more \in Seq(Listener) /\ Len(more) = Len(cl) + 1 /\ Len(cl) \in Nat
                /\ more[Len(cl) + 1] = z
            BY <1>8
          <6> HIDE DEF more, cl
          <6>2. DOMAIN more = 1..Len(more)
            BY <6>1
          <6>3. z.id = i
            OBVIOUS
          <6> HIDE DEF z
          <6>4. Len(cl) + 1 \in DOMAIN more /\ more[Len(cl) + 1].id = i
            BY <6>1, <6>2, <6>3
          <6>5. QED
            BY <6>4 DEF more
        <5>2. obj'[o].clients = Append(cl, z)
          BY <1>9, <1>11
        <5>3. w[1] = i /\ w[2] = o
          BY <4>2
        <5>4. obj'[o].running
          BY <1>9, <1>11, <2>1
        <5> HIDE DEF i, o, z, cl
        <5>5. QED
          BY <2>1, <5>1, <5>2, <5>3, <5>4
      <4>3. QED
        BY <1>1, <4>1, <4>2
    <3>2. QED
      BY <1>1, <3>1 DEF IdsLeadToListeners
  <2>3. KeysDiffer'
    BY <1>1, <1>2, <1>12, <1>22 DEF KeysDiffer
  <2>4. \A p : p # o => Holders(p)' = Holders(p)
    BY <1>1, <1>3, <1>10 DEF Holders, Pointing
  <2>5. \A p : Holders(p)' \subseteq Holders(p) /\ (Freeing(p)' <=> Freeing(p))
    BY <1>1, <1>3, <1>10 DEF Holders, Freeing, Pointing
  <2>6. NoneIsLeft'
    <3>1. ASSUME NEW p \in subs
          PROVE  /\ obj'[p].clients # <<>> \/ Holders(p)' # {} \/ Freeing(p)'
                 /\ obj'[p].running \/ Freeing(p)'
      <4>1. obj[p].running \/ Freeing(p)
        BY <1>22 DEF NoneIsLeft
      <4>2. obj'[p].running = obj[p].running
        BY <1>2, <1>12
      <4>3. CASE p = o
        <5>1. obj'[o].clients # <<>>
          <6>1. obj'[o].clients = Append(cl, z)
            BY <1>9, <1>11
          <6>2. Append(cl, z) # <<>>
            BY <1>8
          <6>3. QED
            BY <6>1, <6>2
        <5>2. QED
          BY <2>5, <4>1, <4>2, <4>3, <5>1
      <4>4. CASE p # o
        <5>1. obj'[p] = obj[p]
          BY <1>2, <1>11, <4>4
        <5>2. QED
          BY <1>22, <2>4, <2>5, <4>1, <4>2, <4>4, <5>1 DEF NoneIsLeft
      <4>5. QED
        BY <4>3, <4>4
    <3>2. QED
      BY <1>1, <3>1 DEF NoneIsLeft
  <2>7. PointersAreGood'
    <3>1. ASSUME NEW d \in Caller, call'[d].at \in Pointing
          PROVE  /\ call'[d].o \in subs /\ obj'[call'[d].o].running
                 /\ call'[d].at = "removing" => \A w \in idMap' : w[1] # call'[d].id
      <4>1. d # c
        BY <1>3, <1>10, <3>1 DEF Pointing
      <4>2. call'[d] = call[d]
        BY <1>10, <4>1
      <4>3. /\ call[d].o \in subs /\ obj[call[d].o].running
            /\ call[d].at = "removing" => \A w \in idMap : w[1] # call[d].id
        BY <1>22, <3>1, <4>2 DEF PointersAreGood
      <4>4. call[d].at = "removing" => call[d].id # i
        <5>1. call[d].id \in Nat /\ (call[d].at = "removing" => call[d].id <= counter)
          BY <1>2 DEF Sound, IdsAreDrawnOnce, Doings
        <5>2. QED
          BY <1>2, <5>1
      <4>5. QED
        BY <1>1, <1>2, <1>12, <4>2, <4>3, <4>4
    <3>2. QED
      BY <1>1, <3>1 DEF PointersAreGood
  <2>8. FreeingIsAlone'
    <3>1. ASSUME NEW d \in Caller, call'[d].at = "freeing"
          PROVE  /\ call'[d] = call[d] /\ call[d].o \in subs /\ Holders(call[d].o) = {}
                 /\ \A w \in idMap' : w[2] # call[d].o
                 /\ kind # "rabbitmq" => obj'[call[d].o].clients = <<>>
      <4>1. d # c
        BY <1>3, <1>10, <3>1
      <4>2. call'[d] = call[d]
        BY <1>10, <4>1
      <4>3. /\ call[d].o \in subs /\ Holders(call[d].o) = {}
            /\ \A w \in idMap : w[2] # call[d].o
            /\ kind # "rabbitmq" => obj[call[d].o].clients = <<>>
        BY <1>22, <3>1, <4>2 DEF FreeingIsAlone
      <4>4. c \in Holders(o)
        BY <1>1 DEF Holders, Pointing
      <4>5. call[d].o # o
        BY <4>3, <4>4
      <4>6. obj'[call[d].o] = obj[call[d].o]
        BY <1>2, <1>11, <4>3, <4>5
      <4>7. QED
        BY <1>1, <4>2, <4>3, <4>5, <4>6
    <3>2. ASSUME NEW d \in Caller, call'[d].at = "freeing", NEW p, p = call'[d].o
          PROVE  Holders(p)' = {}
      BY <2>5, <3>1, <3>2
    <3>3. QED
      BY <1>1, <3>1, <3>2 DEF FreeingIsAlone
  <2>9. QED
    BY <2>2, <2>3, <2>6, <2>7, <2>8 DEF Orderly
<1>23. Orderly'
  BY <1>1, <1>22 DEF Sound, Orderly
<1>24. /\ IdsAreLeft'
       /\ misused' => raced' \/ wiped'
       /\ kind' \in Joining => ~strayed'
  BY <1>1, <1>5 DEF Sound, IdsAreLeft
<1>25. QED
  BY <1>15, <1>16, <1>17, <1>18, <1>20, <1>21, <1>23, <1>24 DEF Sound

\* An id is taken out of the map by the first who asks (removeClient).
LEMMA TakesKeeps ==
  ASSUME SubsTypes, Sound, NEW c \in Caller, Takes(c)
  PROVE  SubsTypes' /\ Sound'
<1>1. PICK i \in 0..MaxId : TakeId(c, i)
  BY DEF Takes
<1> DEFINE found == {w \in idMap : w[1] = i}
<1>2. /\ call[c].at = "out" /\ idMap' = idMap \ found /\ kind # "rabbitmq"
      /\ UNCHANGED <<kind, subs, obj, lock, raced, wiped, counter, heard, sent, misused, strayed>>
      /\ \/ /\ found = {}
            /\ call' = [call EXCEPT ![c] = [Out EXCEPT !.at = "removed", !.id = i]]
         \/ \E w \in found :
              call' = [call EXCEPT ![c] = [Out EXCEPT !.at = "removing", !.o = w[2], !.id = i]]
  BY <1>1 DEF Takes, TakeId, objVars, sendVars, undef
<1>3. /\ call \in [Caller -> Doings] /\ call[c] \in Doings /\ obj \in Seq(Object)
      /\ counter \in Nat /\ Len(obj) \in Nat
      /\ subs \subseteq 1..Len(obj) /\ idMap \subseteq (1..MaxId) \X (1..Len(obj))
      /\ {"out", "removed"} \subseteq Idling /\ {"removed", "removing"} \subseteq CallAt
      /\ Every \in Filter /\ 0 \in Nat
  BY ObjectFacts DEF SubsTypes, Idling, CallAt, Pointing, Filter
<1>4. CASE /\ found = {}
           /\ call' = [call EXCEPT ![c] = [Out EXCEPT !.at = "removed", !.id = i]]
  <2> DEFINE x == [Out EXCEPT !.at = "removed", !.id = i]
  <2>1. x \in Doings /\ x.at = "removed"
    BY <1>3 DEF Out, Doings
  <2> HIDE DEF x
  <2>2. /\ call' \in [Caller -> Doings]
        /\ \A d \in Caller : call'[d].at \in Pointing \cup {"freeing", "publishing", "late"}
                               => call'[d].o \in 1..Len(obj)
        /\ \A d \in Caller : \/ call'[d] = call[d]
                             \/ call[d].at \in Idling /\ call'[d].at \in Idling
    <3>1. call' = [call EXCEPT ![c] = x]
      BY <1>4 DEF x
    <3>2. call[c].at \in Idling /\ x.at \in Idling /\ x.at \notin {"publishing", "late"}
      BY <1>2, <1>3, <2>1
    <3>3. QED
      BY <2>1, <3>1, <3>2, MovesIdly
  <2>3. idMap' = idMap
    BY <1>2, <1>4
  <2>4. SubsTypes' /\ Inert
    BY <1>2, <2>2, <2>3 DEF SubsTypes, Copying, Inert
  <2>5. SuffixesHeard'
    BY <1>2, <2>4, SilenceKeepsSuffixes
  <2>6. kind' \in Joining => ~strayed'
    BY <1>2 DEF Sound
  <2>7. QED
    BY <2>4, <2>5, <2>6, InertIsSafe DEF Sound
<1>5. ASSUME NEW w \in found,
             call' = [call EXCEPT ![c] = [Out EXCEPT !.at = "removing", !.o = w[2], !.id = i]]
      PROVE  SubsTypes' /\ Sound'
  <2> DEFINE o == w[2]
             x == [Out EXCEPT !.at = "removing", !.o = o, !.id = i]
  <2>1. w \in idMap /\ w[1] = i /\ o \in 1..Len(obj) /\ o \in Nat
    BY <1>3
  <2>2. x \in Doings /\ x.at = "removing" /\ x.o = o /\ x.id = i
    BY <1>3, <2>1 DEF Out, Doings
  <2>3. call' = [call EXCEPT ![c] = x]
    BY <1>5
  <2> HIDE DEF x
  <2>4. /\ call' \in [Caller -> Doings] /\ call'[c] = x
        /\ \A d \in Caller : d # c => call'[d] = call[d]
    BY <1>3, <2>2, <2>3
  <2>5. SubsTypes'
    <3>1. \A d \in Caller : call'[d].at \in Pointing \cup {"freeing", "publishing", "late"}
                              => call'[d].o \in 1..Len(obj)
      BY <2>1, <2>2, <2>4 DEF SubsTypes
    <3>2. QED
      BY <1>2, <2>4, <3>1 DEF SubsTypes, Copying
  <2>6. IdsAreLeft'
    <3>1. Adding' = Adding
      BY <1>2, <2>2, <2>4 DEF Adding
    <3>2. QED
      BY <1>2, <3>1 DEF Sound, IdsAreLeft
  <2>7. FreeingHolds' /\ ExchangesAreOwn'
    <3>1. \A d \in Caller : call'[d].at = "freeing" <=> call[d].at = "freeing"
      BY <1>2, <2>2, <2>4
    <3>2. QED
      BY <1>2, <3>1 DEF Sound, FreeingHolds, ExchangesAreOwn
  <2>8. AliveIsOwned' /\ SuffixesHeard' /\ (misused' => raced' \/ wiped')
        /\ (kind' \in Joining => ~strayed')
    BY <1>2 DEF Sound, AliveIsOwned, SuffixesHeard, Copying
  <2>9. IdsAreDrawnOnce'
    <3>1. \A d \in Caller : call'[d].at = "removing" => call'[d].id <= counter
      <4>1. i <= counter
        BY <2>1 DEF Sound, IdsAreDrawnOnce
      <4>2. QED
        BY <2>2, <2>4, <4>1 DEF Sound, IdsAreDrawnOnce
    <3>2. \A v \in idMap' : v[1] <= counter
      BY <1>2 DEF Sound, IdsAreDrawnOnce
    <3>3. obj' = obj /\ counter' = counter
      BY <1>2
    <3>4. QED
      BY <3>1, <3>2, <3>3 DEF Sound, IdsAreDrawnOnce
  <2>10. ASSUME IdsLeadToListeners, KeysDiffer, NoneIsLeft, PointersAreGood, FreeingIsAlone
         PROVE  Orderly'
    <3>1. o \in subs /\ obj[o].running
      BY <2>1, <2>10 DEF IdsLeadToListeners
    <3>2. IdsLeadToListeners' /\ KeysDiffer'
      BY <1>2, <2>10 DEF IdsLeadToListeners, KeysDiffer
    <3>3. \A p : Holders(p) \subseteq Holders(p)' /\ (Freeing(p)' <=> Freeing(p))
      BY <1>2, <2>2, <2>4 DEF Holders, Freeing, Pointing
    <3>4. \A p : p # o => Holders(p)' = Holders(p)
      BY <1>2, <2>2, <2>4 DEF Holders, Pointing
    <3>5. NoneIsLeft'
      BY <1>2, <2>10, <3>3 DEF NoneIsLeft
    <3>6. PointersAreGood'
      <4>1. ASSUME NEW d \in Caller, call'[d].at \in Pointing
            PROVE  /\ call'[d].o \in subs /\ obj[call'[d].o].running
                   /\ call'[d].at = "removing" => \A v \in idMap' : v[1] # call'[d].id
        <5>1. CASE d = c
          BY <1>2, <2>2, <2>4, <3>1, <5>1
        <5>2. CASE d # c
          <6>1. call'[d] = call[d] /\ idMap' \subseteq idMap
            BY <1>2, <2>4, <5>2
          <6>2. /\ call[d].o \in subs /\ obj[call[d].o].running
                /\ call[d].at = "removing" => \A v \in idMap : v[1] # call[d].id
            BY <2>10, <4>1, <6>1 DEF PointersAreGood
          <6>3. QED
            BY <6>1, <6>2
        <5>3. QED
          BY <5>1, <5>2
      <4>2. QED
        BY <1>2, <4>1 DEF PointersAreGood
    <3>7. FreeingIsAlone'
      <4>1. ASSUME NEW d \in Caller, call'[d].at = "freeing"
            PROVE  /\ call'[d] = call[d] /\ call[d].o \in subs /\ Holders(call[d].o) = {}
                   /\ call[d].o # o
                   /\ \A v \in idMap' : v[2] # call[d].o
                   /\ kind # "rabbitmq" => obj[call[d].o].clients = <<>>
        <5>1. d # c
          BY <2>2, <2>4, <4>1
        <5>2. call'[d] = call[d]
          BY <2>4, <5>1
        <5>3. /\ call[d].o \in subs /\ Holders(call[d].o) = {}
              /\ \A v \in idMap : v[2] # call[d].o
              /\ kind # "rabbitmq" => obj[call[d].o].clients = <<>>
          BY <2>10, <4>1, <5>2 DEF FreeingIsAlone
        <5>4. idMap' \subseteq idMap /\ call[d].o # o
          BY <1>2, <2>1, <5>3
        <5>5. QED
          BY <5>2, <5>3, <5>4
      <4>2. ASSUME NEW d \in Caller, call'[d].at = "freeing", NEW p, p = call'[d].o
            PROVE  Holders(p)' = {}
        BY <3>4, <4>1, <4>2
      <4>3. UNCHANGED <<kind, subs, obj>>
        BY <1>2
      <4>4. QED
        BY <4>1, <4>2, <4>3 DEF FreeingIsAlone
    <3>8. QED
      BY <3>2, <3>5, <3>6, <3>7 DEF Orderly
  <2>11. Orderly'
    BY <1>2, <2>10 DEF Sound, Orderly
  <2>12. QED
    BY <2>5, <2>6, <2>7, <2>8, <2>9, <2>11 DEF Sound
<1>6. QED
  BY <1>2, <1>4, <1>5

\* The listener leaves its list, and the others keep their order
\* (removeSubscription).
LEMMA DropsKeeps ==
  ASSUME SubsTypes, Sound, NEW c \in Caller, Drops(c)
  PROVE  SubsTypes' /\ Sound'
<1> DEFINE o == call[c].o
           i == call[c].id
           cl == obj[o].clients
           s == Without(cl, i)
           y == [obj[o] EXCEPT !.clients = s]
           x == [call[c] EXCEPT !.at = "stopping"]
<1>1. /\ call[c].at = "removing" /\ o \in 1..Len(obj) /\ obj[o].alive
      /\ obj' = [obj EXCEPT ![o] = y] /\ call' = [call EXCEPT ![c] = x]
      /\ UNCHANGED <<kind, subs, lock, raced, wiped, counter, idMap, heard, sent, misused, strayed>>
  BY DEF Drops, Drop, Go, SubsTypes, Pointing, idVars, sendVars, undef
<1>2. /\ call \in [Caller -> Doings] /\ call[c] \in Doings /\ obj \in Seq(Object)
      /\ obj[o] \in Object /\ cl \in Seq(Listener) /\ counter \in Nat
      /\ subs \subseteq 1..Len(obj) /\ idMap \subseteq (1..MaxId) \X (1..Len(obj))
  BY <1>1, ObjectFacts DEF SubsTypes
<1>3. \A j, k \in DOMAIN cl : cl[j].id = cl[k].id => j = k
  BY <1>1 DEF Sound, IdsAreDrawnOnce
<1>4. x \in Doings /\ x.at = "stopping" /\ x.o = o
  BY <1>2 DEF Doings, CallAt, Pointing
<1>5. s \in Seq(Listener)
  BY <1>2, <1>3, TakenOut
<1>6. PICK f \in [DOMAIN s -> DOMAIN cl] :
        /\ \A j \in DOMAIN s : s[j] = cl[f[j]] /\ cl[f[j]].id # i
        /\ \A j, k \in DOMAIN s : j < k => f[j] < f[k]
        /\ \A k \in DOMAIN cl : cl[k].id # i => \E j \in DOMAIN s : f[j] = k
  <2> HIDE DEF cl, i
  <2>1. QED
    BY <1>2, <1>3, TakenOut
<1> HIDE DEF s
<1>7. /\ y \in Object /\ y.key = obj[o].key /\ y.running = obj[o].running
      /\ y.alive = obj[o].alive /\ y.gone = obj[o].gone /\ y.clients = s
  BY <1>2, <1>5 DEF Object
<1> HIDE DEF x, y
<1>8. /\ call' \in [Caller -> Doings] /\ call'[c] = x
      /\ \A d \in Caller : d # c => call'[d] = call[d]
  BY <1>1, <1>2, <1>4
<1>9. /\ obj' \in Seq(Object) /\ Len(obj') = Len(obj) /\ obj'[o] = y
      /\ \A p \in 1..Len(obj) : p # o => obj'[p] = obj[p]
  BY <1>1, <1>2, <1>7, Changed
<1>10. \A p \in 1..Len(obj) :
         /\ obj'[p].key = obj[p].key /\ obj'[p].running = obj[p].running
         /\ obj'[p].alive = obj[p].alive /\ obj'[p].gone = obj[p].gone
  BY <1>7, <1>9
\* Each list is what it was, less a listener.
<1> DEFINE g(p, j) == IF p = o THEN f[j] ELSE j
<1>11. ASSUME NEW p \in 1..Len(obj)
       PROVE  /\ \A j \in DOMAIN obj'[p].clients :
                   /\ g(p, j) \in DOMAIN obj[p].clients
                   /\ obj'[p].clients[j] = obj[p].clients[g(p, j)]
              /\ \A j, k \in DOMAIN obj'[p].clients : j < k => g(p, j) < g(p, k)
              /\ DOMAIN obj'[p].clients \subseteq Nat
  <2>1. CASE p = o
    <3>1. obj'[p].clients = s /\ DOMAIN s \subseteq Nat
      BY <1>5, <1>7, <1>9, <2>1
    <3>2. \A j \in DOMAIN s : f[j] \in DOMAIN cl
      BY <1>6
    <3>3. QED
      BY <1>6, <2>1, <3>1, <3>2
  <2>2. CASE p # o
    <3>1. obj'[p] = obj[p] /\ obj[p].clients \in Seq(Listener)
      BY <1>9, <2>2, ObjectFacts
    <3>2. DOMAIN obj[p].clients \subseteq Nat
      BY <3>1
    <3>3. QED
      BY <2>2, <3>1, <3>2
  <2>3. QED
    BY <2>1, <2>2
<1> HIDE DEF g
<1>12. SubsTypes'
  <2>1. \A d \in Caller : call'[d].at \in Pointing \cup {"freeing", "publishing", "late"}
                             => call'[d].o \in 1..Len(obj)
    BY <1>1, <1>4, <1>8 DEF SubsTypes, Pointing
  <2>2. QED
    BY <1>1, <1>8, <1>9, <2>1 DEF SubsTypes, Copying
<1>13. \A d \in Caller : /\ call'[d].at = "freeing" <=> call[d].at = "freeing"
                         /\ call'[d].at = "adding" <=> call[d].at = "adding"
                         /\ call'[d].at \in Pointing <=> call[d].at \in Pointing
                         /\ call'[d].o = call[d].o
                         /\ call'[d].at = "removing" => d # c /\ call'[d] = call[d]
  BY <1>1, <1>4, <1>8 DEF Pointing
<1>14. IdsAreLeft' /\ FreeingHolds'
  <2>1. Adding' = Adding
    BY <1>13 DEF Adding
  <2>2. QED
    BY <1>1, <1>13, <2>1 DEF Sound, IdsAreLeft, FreeingHolds
<1>15. AliveIsOwned'
  BY <1>1, <1>9, <1>10 DEF Sound, AliveIsOwned
<1>16. IdsAreDrawnOnce'
  <2>1. \A w \in idMap' : w[1] <= counter'
    BY <1>1 DEF Sound, IdsAreDrawnOnce
  <2>2. \A d \in Caller : call'[d].at = "removing" => call'[d].id <= counter'
    BY <1>1, <1>13 DEF Sound, IdsAreDrawnOnce
  <2>3. \A p \in 1..Len(obj) : \A j \in DOMAIN obj'[p].clients :
          obj'[p].clients[j].id <= counter'
    BY <1>1, <1>11 DEF Sound, IdsAreDrawnOnce
  <2>4. ASSUME NEW p \in 1..Len(obj), NEW q \in 1..Len(obj), NEW j \in DOMAIN obj'[p].clients,
               NEW k \in DOMAIN obj'[q].clients,
               obj'[p].clients[j].id = obj'[q].clients[k].id
        PROVE  p = q /\ j = k
    <3>1. p = q /\ g(p, j) = g(q, k)
      <4>1. /\ g(p, j) \in DOMAIN obj[p].clients /\ g(q, k) \in DOMAIN obj[q].clients
            /\ obj[p].clients[g(p, j)].id = obj[q].clients[g(q, k)].id
        BY <1>11, <2>4
      <4>2. QED
        BY <4>1 DEF Sound, IdsAreDrawnOnce
    <3>2. j \in Nat /\ k \in Nat /\ ~(j < k) /\ ~(k < j)
      <4>1. g(p, j) \in Nat
        <5>1. obj[p].clients \in Seq(Listener) /\ g(p, j) \in DOMAIN obj[p].clients
          BY <1>11, ObjectFacts
        <5>2. QED
          BY <5>1
      <4>2. j \in Nat /\ k \in Nat
        BY <1>11
      <4>3. ~(j < k) /\ ~(k < j)
        BY <1>11, <3>1, <4>1, <4>2
      <4>4. QED
        BY <4>2, <4>3
    <3>3. QED
      BY <3>1, <3>2
  <2>5. QED
    BY <1>9, <2>1, <2>2, <2>3, <2>4 DEF IdsAreDrawnOnce
<1>17. kind # "rabbitmq" /\ ExchangesAreOwn'
  <2>1. kind # "rabbitmq"
    BY <1>1 DEF Sound, ExchangesAreOwn, Pointing
  <2>2. QED
    BY <1>1, <2>1 DEF ExchangesAreOwn
<1>18. SuffixesHeard'
  <2>1. ASSUME Copying, NEW p \in 1..Len(obj), NEW j \in DOMAIN obj'[p].clients,
               NEW k \in DOMAIN obj'[p].clients, j < k,
               obj'[p].clients[j].filter = obj'[p].clients[k].filter
        PROVE  IsSuffix(heard[obj'[p].clients[k].id], heard[obj'[p].clients[j].id])
    <3>1. /\ g(p, j) \in DOMAIN obj[p].clients /\ g(p, k) \in DOMAIN obj[p].clients
          /\ g(p, j) < g(p, k)
          /\ obj'[p].clients[j] = obj[p].clients[g(p, j)]
          /\ obj'[p].clients[k] = obj[p].clients[g(p, k)]
      BY <1>11, <2>1
    <3>2. QED
      BY <2>1, <3>1 DEF Sound, SuffixesHeard
  <2>2. kind' = kind /\ heard' = heard /\ counter' = counter /\ Len(obj') = Len(obj)
    BY <1>1, <1>9
  <2>3. Copying => \A h \in 1..MaxId : h > counter => heard[h] = <<>>
    BY DEF Sound, SuffixesHeard
  <2>4. QED
    BY <2>1, <2>2, <2>3 DEF SuffixesHeard, Copying
<1>19. ASSUME IdsLeadToListeners, KeysDiffer, NoneIsLeft, PointersAreGood, FreeingIsAlone
       PROVE  Orderly'
  <2>1. \A p : Holders(p)' = Holders(p) /\ (Freeing(p)' <=> Freeing(p))
    BY <1>13 DEF Holders, Freeing
  <2>2. IdsLeadToListeners'
    <3>1. ASSUME NEW w \in idMap
          PROVE  /\ w[2] \in subs /\ obj'[w[2]].running
                 /\ \E j \in DOMAIN obj'[w[2]].clients : obj'[w[2]].clients[j].id = w[1]
      <4>1. w[2] \in subs /\ obj[w[2]].running /\ w[2] \in 1..Len(obj)
        BY <1>2, <1>19 DEF IdsLeadToListeners
      <4>2. PICK k \in DOMAIN obj[w[2]].clients : obj[w[2]].clients[k].id = w[1]
        BY <1>19 DEF IdsLeadToListeners
      <4>3. obj'[w[2]].running
        BY <1>10, <4>1
      <4>4. CASE w[2] = o
        <5>1. w[1] # i
          BY <1>1, <1>19 DEF PointersAreGood, Pointing
        <5>2. PICK j \in DOMAIN s : f[j] = k
          BY <1>6, <4>2, <4>4, <5>1
        <5>3. s[j].id = w[1] /\ obj'[o].clients = s
          BY <1>6, <1>7, <1>9, <4>2, <4>4, <5>2
        <5>4. QED
          BY <4>1, <4>3, <4>4, <5>3
      <4>5. CASE w[2] # o
        BY <1>9, <4>1, <4>2, <4>3, <4>5
      <4>6. QED
        BY <4>4, <4>5
    <3>2. QED
      BY <1>1, <3>1 DEF IdsLeadToListeners
  <2>3. KeysDiffer'
    BY <1>1, <1>2, <1>10, <1>19 DEF KeysDiffer
  <2>4. NoneIsLeft'
    <3>1. ASSUME NEW p \in subs
          PROVE  /\ obj'[p].clients # <<>> \/ Holders(p)' # {} \/ Freeing(p)'
                 /\ obj'[p].running \/ Freeing(p)'
      <4>1. obj'[p].running = obj[p].running
        BY <1>2, <1>10
      <4>2. CASE p = o
        <5>1. c \in Holders(p)
          BY <1>1, <4>2 DEF Holders, Pointing
        <5>2. QED
          BY <1>19, <2>1, <4>1, <5>1 DEF NoneIsLeft
      <4>3. CASE p # o
        BY <1>2, <1>9, <1>19, <2>1, <4>1, <4>3 DEF NoneIsLeft
      <4>4. QED
        BY <4>2, <4>3
    <3>2. QED
      BY <1>1, <3>1 DEF NoneIsLeft
  <2>5. PointersAreGood'
    <3>1. ASSUME NEW d \in Caller, call'[d].at \in Pointing
          PROVE  /\ call'[d].o \in subs /\ obj'[call'[d].o].running
                 /\ call'[d].at = "removing" => \A w \in idMap : w[1] # call'[d].id
      <4>1. call[d].o \in subs /\ obj[call[d].o].running /\ call'[d].o = call[d].o
        BY <1>13, <1>19, <3>1 DEF PointersAreGood
      <4>2. call'[d].at = "removing" => \A w \in idMap : w[1] # call'[d].id
        BY <1>13, <1>19, <3>1 DEF PointersAreGood
      <4>3. QED
        BY <1>2, <1>10, <4>1, <4>2
    <3>2. QED
      BY <1>1, <3>1 DEF PointersAreGood
  <2>6. FreeingIsAlone'
    <3>1. ASSUME NEW d \in Caller, call'[d].at = "freeing"
          PROVE  /\ call'[d].o = call[d].o /\ call[d].o \in subs /\ Holders(call[d].o) = {}
                 /\ \A w \in idMap : w[2] # call[d].o
                 /\ obj'[call[d].o].clients = <<>>
      <4>1. /\ call'[d].o = call[d].o /\ call[d].o \in subs /\ Holders(call[d].o) = {}
            /\ \A w \in idMap : w[2] # call[d].o
            /\ obj[call[d].o].clients = <<>>
        BY <1>13, <1>17, <1>19, <3>1 DEF FreeingIsAlone
      <4>2. c \in Holders(o)
        BY <1>1 DEF Holders, Pointing
      <4>3. obj'[call[d].o] = obj[call[d].o]
        BY <1>2, <1>9, <4>1, <4>2
      <4>4. QED
        BY <4>1, <4>3
    <3>2. ASSUME NEW d \in Caller, call'[d].at = "freeing", NEW p, p = call'[d].o
          PROVE  Holders(p)' = {}
      BY <2>1, <3>1, <3>2
    <3>3. subs' = subs /\ idMap' = idMap
      BY <1>1
    <3>4. \A d \in Caller : call'[d].at = "freeing" =>
            /\ call'[d].o \in subs' /\ (\A w \in idMap' : w[2] # call'[d].o)
            /\ obj'[call'[d].o].clients = <<>>
      BY <3>1, <3>3
    <3>5. QED
      BY <3>2, <3>4 DEF FreeingIsAlone
  <2>7. QED
    BY <2>2, <2>3, <2>4, <2>5, <2>6 DEF Orderly
<1>20. Orderly'
  BY <1>1, <1>19 DEF Sound, Orderly
<1>21. /\ misused' => raced' \/ wiped'
       /\ kind' \in Joining => ~strayed'
  BY <1>1 DEF Sound
<1>22. QED
  BY <1>12, <1>14, <1>15, <1>16, <1>17, <1>18, <1>20, <1>21 DEF Sound

\* What it takes from a caller that gives an object up: lists are only emptied
\* and ids only leave the map (potentiallyStopSubscription and what follows).
LEMMA GivingUpKeeps ==
  ASSUME SubsTypes, Sound, NEW c \in Caller, NEW x \in Doings,
         call' = [call EXCEPT ![c] = x], call[c].at # "adding",
         x.at \in {"freeing", "removed"}, x.at = "freeing" => x.o \in 1..Len(obj),
         obj' \in Seq(Object), Len(obj') = Len(obj),
         \A p \in 1..Len(obj) : obj'[p].clients = obj[p].clients \/ obj'[p].clients = <<>>,
         subs' \subseteq subs, idMap' \subseteq idMap, lock' \in Caller \cup {Nobody},
         raced' \in BOOLEAN, wiped' \in BOOLEAN, raced => raced', wiped => wiped',
         UNCHANGED <<kind, counter, heard, sent, misused, strayed>>
  PROVE  /\ SubsTypes' /\ IdsAreLeft' /\ IdsAreDrawnOnce' /\ SuffixesHeard'
         /\ misused' => raced' \/ wiped'
         /\ kind' \in Joining => ~strayed'
<1>1. /\ UNCHANGED <<kind, counter, heard, sent, misused, strayed>>
      /\ call \in [Caller -> Doings] /\ Len(obj') = Len(obj)
      /\ subs \subseteq 1..Len(obj) /\ idMap \subseteq (1..MaxId) \X (1..Len(obj))
  BY DEF SubsTypes
<1>2. /\ call' \in [Caller -> Doings] /\ call'[c] = x
      /\ \A d \in Caller : d # c => call'[d] = call[d]
  BY <1>1
<1>3. SubsTypes'
  <2>1. \A d \in Caller : call'[d].at \in Pointing \cup {"freeing", "publishing", "late"}
                             => call'[d].o \in 1..Len(obj)
    BY <1>2 DEF SubsTypes, Pointing
  <2>2. subs' \subseteq 1..Len(obj') /\ idMap' \subseteq (1..MaxId) \X (1..Len(obj'))
    BY <1>1
  <2>3. QED
    BY <1>1, <1>2, <2>1, <2>2 DEF SubsTypes, Copying
<1>4. IdsAreLeft'
  <2>1. Adding' = Adding
    BY <1>2 DEF Adding
  <2>2. QED
    BY <1>1, <2>1 DEF Sound, IdsAreLeft
\* What is in a list now was in it before.
<1>5. \A p \in 1..Len(obj) : \A j \in DOMAIN obj'[p].clients : obj'[p].clients = obj[p].clients
  OBVIOUS
<1>6. IdsAreDrawnOnce'
  <2>1. \A w \in idMap' : w[1] <= counter'
    BY <1>1 DEF Sound, IdsAreDrawnOnce
  <2>2. \A d \in Caller : call'[d].at = "removing" => call'[d].id <= counter'
    BY <1>1, <1>2 DEF Sound, IdsAreDrawnOnce
  <2>3. \A p \in 1..Len(obj) : \A j \in DOMAIN obj'[p].clients :
          obj'[p].clients[j].id <= counter'
    BY <1>1, <1>5 DEF Sound, IdsAreDrawnOnce
  <2>4. ASSUME NEW p \in 1..Len(obj), NEW q \in 1..Len(obj), NEW j \in DOMAIN obj'[p].clients,
               NEW k \in DOMAIN obj'[q].clients,
               obj'[p].clients[j].id = obj'[q].clients[k].id
        PROVE  p = q /\ j = k
    BY <1>5, <2>4 DEF Sound, IdsAreDrawnOnce
  <2>5. QED
    BY <1>1, <2>1, <2>2, <2>3, <2>4 DEF IdsAreDrawnOnce
<1>7. SuffixesHeard'
  <2>1. ASSUME Copying, NEW p \in 1..Len(obj), NEW j \in DOMAIN obj'[p].clients,
               NEW k \in DOMAIN obj'[p].clients, j < k,
               obj'[p].clients[j].filter = obj'[p].clients[k].filter
        PROVE  IsSuffix(heard[obj'[p].clients[k].id], heard[obj'[p].clients[j].id])
    BY <1>5, <2>1 DEF Sound, SuffixesHeard
  <2>2. Copying => \A h \in 1..MaxId : h > counter => heard[h] = <<>>
    BY DEF Sound, SuffixesHeard
  <2>3. QED
    BY <1>1, <2>1, <2>2 DEF SuffixesHeard, Copying
<1>8. /\ misused' => raced' \/ wiped'
      /\ kind' \in Joining => ~strayed'
  BY <1>1 DEF Sound
<1>9. QED
  BY <1>3, <1>4, <1>6, <1>7, <1>8

\* An object without listeners is told to stop
\* (potentiallyStopSubscription, with mutex_ held).
LEMMA StopsKeeps ==
  ASSUME SubsTypes, Sound, NEW c \in Caller, Stops(c)
  PROVE  SubsTypes' /\ Sound'
<1> DEFINE o == call[c].o
<1>1. /\ call[c].at = "stopping" /\ o \in 1..Len(obj) /\ obj[o].alive /\ lock = Nobody
      /\ UNCHANGED <<kind, subs, wiped, counter, idMap, heard, sent, misused, strayed>>
  BY DEF Stops, StopIfUnused, SubsTypes, Pointing, idVars, sendVars, undef
<1>2. /\ call \in [Caller -> Doings] /\ call[c] \in Doings /\ obj \in Seq(Object)
      /\ obj[o] \in Object /\ counter \in Nat
      /\ subs \subseteq 1..Len(obj) /\ idMap \subseteq (1..MaxId) \X (1..Len(obj))
      /\ raced \in BOOLEAN /\ wiped \in BOOLEAN /\ lock \in Caller \cup {Nobody}
  BY <1>1, ObjectFacts DEF SubsTypes
<1>3. kind # "rabbitmq"
  BY <1>1 DEF Sound, ExchangesAreOwn, Pointing
<1>4. ExchangesAreOwn'
  BY <1>1, <1>3 DEF ExchangesAreOwn
<1>5. \A d \in Caller : call[d].at # "freeing" /\ d # Nobody
  BY <1>1, NobodyFrees, SubscriptionsAssumption
<1>6. CASE obj[o].clients = <<>>
  <2> DEFINE y == [obj[o] EXCEPT !.running = FALSE]
             x == [call[c] EXCEPT !.at = "freeing"]
  <2>1. /\ obj' = [obj EXCEPT ![o] = y] /\ lock' = c /\ call' = [call EXCEPT ![c] = x]
        /\ raced' = (raced \/ Holders(o) # {c})
    BY <1>6 DEF Stops, StopIfUnused, Go
  <2>2. x \in Doings /\ x.at = "freeing" /\ x.o = o
    BY <1>2 DEF Doings, CallAt
  <2>3. /\ y \in Object /\ y.key = obj[o].key /\ y.clients = <<>> /\ y.alive = obj[o].alive
        /\ y.gone = obj[o].gone
    <3>1. FALSE \in BOOLEAN
      OBVIOUS
    <3>2. QED
      BY <1>2, <1>6, <3>1 DEF Object
  <2> HIDE DEF x, y
  <2>4. /\ call'[c] = x /\ \A d \in Caller : d # c => call'[d] = call[d]
    BY <1>2, <2>1
  <2>5. /\ obj' \in Seq(Object) /\ Len(obj') = Len(obj) /\ obj'[o] = y
        /\ \A p \in 1..Len(obj) : p # o => obj'[p] = obj[p]
    BY <1>1, <1>2, <2>1, <2>3, Changed
  <2>6. \A p \in 1..Len(obj) : /\ obj'[p].key = obj[p].key /\ obj'[p].clients = obj[p].clients
                               /\ obj'[p].alive = obj[p].alive /\ obj'[p].gone = obj[p].gone
    BY <1>6, <2>3, <2>5
  <2>7. /\ SubsTypes' /\ IdsAreLeft' /\ IdsAreDrawnOnce' /\ SuffixesHeard'
        /\ misused' => raced' \/ wiped'
        /\ kind' \in Joining => ~strayed'
    <3>1. call[c].at # "adding" /\ x.at \in {"freeing", "removed"} /\ x.o \in 1..Len(obj)
      BY <1>1, <2>2
    <3>2. raced' \in BOOLEAN /\ (raced => raced')
      BY <2>1
    <3>3. subs' \subseteq subs /\ idMap' \subseteq idMap /\ wiped' \in BOOLEAN
          /\ (wiped => wiped') /\ lock' \in Caller \cup {Nobody}
          /\ UNCHANGED <<kind, counter, heard, sent, misused, strayed>>
      BY <1>1, <1>2, <2>1
    <3>4. \A p \in 1..Len(obj) : obj'[p].clients = obj[p].clients \/ obj'[p].clients = <<>>
      BY <2>6
    <3>5. QED
      BY <2>1, <2>2, <2>5, <3>1, <3>2, <3>3, <3>4, GivingUpKeeps
  <2>8. FreeingHolds'
    BY <1>5, <2>1, <2>2, <2>4 DEF FreeingHolds
  <2>9. AliveIsOwned'
    BY <1>1, <2>5, <2>6 DEF Sound, AliveIsOwned
  <2>10. ASSUME ~raced', ~wiped'
         PROVE  Orderly'
    <3>1. ~raced /\ ~wiped /\ Holders(o) = {c}
      BY <1>1, <2>1, <2>10
    <3>2. IdsLeadToListeners /\ KeysDiffer /\ NoneIsLeft /\ PointersAreGood
      BY <3>1 DEF Sound, Orderly
    <3>3. o \in subs
      BY <1>1, <3>2 DEF PointersAreGood, Pointing
    <3>4. \A w \in idMap : w[2] # o
      BY <1>6, <3>2 DEF IdsLeadToListeners
    <3>5. IdsLeadToListeners'
      <4>1. ASSUME NEW w \in idMap
            PROVE  obj'[w[2]] = obj[w[2]]
        BY <1>2, <2>5, <3>4
      <4>2. QED
        BY <1>1, <3>2, <4>1 DEF IdsLeadToListeners
    <3>6. KeysDiffer'
      BY <1>1, <1>2, <2>6, <3>2 DEF KeysDiffer
    <3>7. ASSUME NEW p, p = o
          PROVE  Holders(p)' = {} /\ Freeing(p)'
      <4>1. \A d \in Caller : call[d].o = o /\ call[d].at \in Pointing => d = c
        BY <3>1 DEF Holders
      <4>2. Holders(p)' = {}
        BY <2>2, <2>4, <3>7, <4>1 DEF Holders, Pointing
      <4>3. Freeing(p)'
        BY <2>2, <2>4, <3>7 DEF Freeing
      <4>4. QED
        BY <4>2, <4>3
    <3>8. \A p : p # o => Holders(p)' = Holders(p)
      BY <1>1, <2>2, <2>4 DEF Holders, Pointing
    <3>9. NoneIsLeft'
      <4>1. ASSUME NEW p \in subs
            PROVE  /\ obj'[p].clients # <<>> \/ Holders(p)' # {} \/ Freeing(p)'
                   /\ obj'[p].running \/ Freeing(p)'
        <5>1. CASE p = o
          BY <3>7, <5>1
        <5>2. CASE p # o
          <6>1. obj'[p] = obj[p] /\ ~Freeing(p)
            BY <1>2, <1>5, <2>5, <5>2 DEF Freeing
          <6>2. QED
            BY <3>2, <3>8, <5>2, <6>1 DEF NoneIsLeft
        <5>3. QED
          BY <5>1, <5>2
      <4>2. QED
        BY <1>1, <4>1 DEF NoneIsLeft
    <3>10. PointersAreGood'
      <4>1. ASSUME NEW d \in Caller, call'[d].at \in Pointing
            PROVE  /\ call'[d].o \in subs /\ obj'[call'[d].o].running
                   /\ call'[d].at = "removing" => \A w \in idMap : w[1] # call'[d].id
        <5>1. d # c /\ call'[d] = call[d]
          BY <2>2, <2>4, <4>1 DEF Pointing
        <5>2. call[d].o # o
          BY <3>1, <4>1, <5>1 DEF Holders
        <5>3. /\ call[d].o \in subs /\ obj[call[d].o].running
              /\ call[d].at = "removing" => \A w \in idMap : w[1] # call[d].id
          BY <3>2, <4>1, <5>1 DEF PointersAreGood
        <5>4. obj'[call[d].o] = obj[call[d].o]
          BY <1>2, <2>5, <5>2, <5>3
        <5>5. QED
          BY <5>1, <5>3, <5>4
      <4>2. QED
        BY <1>1, <4>1 DEF PointersAreGood
    <3>11. FreeingIsAlone'
      <4>1. ASSUME NEW d \in Caller, call'[d].at = "freeing"
            PROVE  call'[d].o = o
        BY <1>5, <2>2, <2>4, <4>1
      <4>2. obj'[o].clients = <<>>
        BY <1>1, <1>6, <2>6
      <4>3. \A p : p = o => Holders(p)' = {}
        BY <3>7
      <4>4. subs' = subs /\ idMap' = idMap
        BY <1>1
      <4> HIDE DEF o
      <4>5. QED
        BY <3>3, <3>4, <4>1, <4>2, <4>3, <4>4 DEF FreeingIsAlone
    <3>12. QED
      BY <3>5, <3>6, <3>9, <3>10, <3>11 DEF Orderly
  <2>11. Orderly'
    BY <2>10 DEF Orderly
  <2>12. QED
    BY <1>4, <2>7, <2>8, <2>9, <2>11 DEF Sound
<1>7. CASE obj[o].clients # <<>>
  <2> DEFINE x == [Out EXCEPT !.at = "removed", !.id = call[c].id]
  <2>1. obj' = obj /\ lock' = lock /\ raced' = raced /\ call' = [call EXCEPT ![c] = x]
    BY <1>7 DEF Stops, StopIfUnused, Back
  <2>2. x \in Doings /\ x.at = "removed"
    BY <1>2 DEF Out, Doings, CallAt, Filter
  <2> HIDE DEF x
  <2>3. /\ call'[c] = x /\ \A d \in Caller : d # c => call'[d] = call[d]
    BY <1>2, <2>1
  <2>4. /\ SubsTypes' /\ IdsAreLeft' /\ IdsAreDrawnOnce' /\ SuffixesHeard'
        /\ misused' => raced' \/ wiped'
        /\ kind' \in Joining => ~strayed'
    <3>1. call[c].at # "adding" /\ x.at \in {"freeing", "removed"} /\ x.at # "freeing"
      BY <1>1, <2>2
    <3>2. subs' \subseteq subs /\ idMap' \subseteq idMap /\ wiped' \in BOOLEAN /\ raced' \in BOOLEAN
          /\ (wiped => wiped') /\ (raced => raced') /\ lock' \in Caller \cup {Nobody}
          /\ UNCHANGED <<kind, counter, heard, sent, misused, strayed>>
      BY <1>1, <1>2, <2>1
    <3>3. /\ obj' \in Seq(Object) /\ Len(obj') = Len(obj)
          /\ \A p \in 1..Len(obj) : obj'[p].clients = obj[p].clients \/ obj'[p].clients = <<>>
      BY <1>2, <2>1
    <3>4. QED
      BY <2>1, <2>2, <3>1, <3>2, <3>3, GivingUpKeeps
  <2>5. \A d \in Caller : call'[d].at # "freeing"
    BY <1>5, <2>2, <2>3
  <2>6. FreeingHolds' /\ AliveIsOwned'
    BY <1>1, <1>5, <2>1, <2>5 DEF Sound, FreeingHolds, AliveIsOwned
  <2>7. ASSUME IdsLeadToListeners, KeysDiffer, NoneIsLeft, PointersAreGood
        PROVE  Orderly'
    <3>1. IdsLeadToListeners' /\ KeysDiffer'
      BY <1>1, <2>1, <2>7 DEF IdsLeadToListeners, KeysDiffer
    <3>2. \A p : p # o => Holders(p)' = Holders(p)
      BY <1>1, <2>2, <2>3 DEF Holders, Pointing
    <3>3. NoneIsLeft'
      <4>1. ASSUME NEW p \in subs
            PROVE  /\ obj[p].clients # <<>> \/ Holders(p)' # {}
                   /\ obj[p].running
        <5>1. ~Freeing(p)
          BY <1>5 DEF Freeing
        <5>2. QED
          BY <1>7, <2>7, <3>2, <5>1 DEF NoneIsLeft
      <4>2. QED
        BY <1>1, <2>1, <4>1 DEF NoneIsLeft
    <3>4. PointersAreGood'
      <4>1. ASSUME NEW d \in Caller, call'[d].at \in Pointing
            PROVE  call'[d] = call[d]
        BY <2>2, <2>3, <4>1 DEF Pointing
      <4>2. QED
        BY <1>1, <2>1, <2>7, <4>1 DEF PointersAreGood
    <3>5. FreeingIsAlone'
      BY <2>5 DEF FreeingIsAlone
    <3>6. QED
      BY <3>1, <3>3, <3>4, <3>5 DEF Orderly
  <2>8. Orderly'
    BY <1>1, <2>1, <2>7 DEF Sound, Orderly
  <2>9. QED
    BY <1>4, <2>4, <2>6, <2>8 DEF Sound
<1>8. QED
  BY <1>6, <1>7

\* Objects are freed: the caller's own, or with it those of its address
\* (the end of potentiallyStopSubscription).
LEMMA FreeingKeeps ==
  ASSUME SubsTypes, Sound, NEW c \in Caller, call[c].at = "freeing", kind # "rabbitmq",
         NEW D \in SUBSET (1..Len(obj)), call[c].o \in subs => call[c].o \in D,
         kind \in Joining => \A p \in D : obj[p].gone, Free(c, D)
  PROVE  SubsTypes' /\ Sound'
<1> DEFINE freed(p) == [obj[p] EXCEPT !.running = FALSE, !.alive = FALSE,
                                      !.clients = <<>>, !.inbox = <<>>]
           x == [Out EXCEPT !.at = "removed", !.id = call[c].id]
<1>1. /\ subs' = subs \ D /\ lock' = Nobody /\ call' = [call EXCEPT ![c] = x]
      /\ obj' = [p \in 1..Len(obj) |-> IF p \in D THEN freed(p) ELSE obj[p]]
      /\ raced' = (raced \/ \E p \in D : Holders(p) # {})
      /\ wiped' = (wiped \/ \E p \in D : obj[p].clients # <<>>)
      /\ UNCHANGED <<kind, counter, idMap, heard, sent, misused, strayed>>
  BY DEF Free, Back, idVars, sendVars, undef
<1>2. /\ call \in [Caller -> Doings] /\ call[c] \in Doings /\ obj \in Seq(Object)
      /\ counter \in Nat /\ Len(obj) \in Nat
      /\ subs \subseteq 1..Len(obj) /\ idMap \subseteq (1..MaxId) \X (1..Len(obj))
  BY ObjectFacts DEF SubsTypes
<1>3. ASSUME NEW p \in 1..Len(obj)
      PROVE  /\ freed(p) \in Object /\ freed(p).key = obj[p].key /\ freed(p).clients = <<>>
             /\ freed(p).gone = obj[p].gone /\ freed(p).alive = FALSE
  <2>1. /\ obj[p] \in Object /\ FALSE \in BOOLEAN /\ <<>> \in Seq(Listener)
        /\ <<>> \in Seq(Message)
    BY ObjectFacts
  <2>2. QED
    BY <2>1 DEF Object
<1>4. x \in Doings /\ x.at = "removed"
  BY <1>2 DEF Out, Doings, CallAt, Filter
<1> HIDE DEF freed, x
<1>5. /\ call'[c] = x /\ \A d \in Caller : d # c => call'[d] = call[d]
  BY <1>1, <1>2
<1>6. /\ \A p \in D : obj'[p] = freed(p)
      /\ \A p \in 1..Len(obj) : p \notin D => obj'[p] = obj[p]
      /\ \A p \in 1..Len(obj) : obj'[p] \in Object
  BY <1>1, <1>2, <1>3, ObjectFacts
<1>7. obj' \in Seq(Object) /\ Len(obj') = Len(obj)
  BY <1>1, <1>2, <1>6
<1>8. \A p \in 1..Len(obj) : /\ obj'[p].key = obj[p].key
                             /\ obj'[p].clients = obj[p].clients \/ obj'[p].clients = <<>>
  BY <1>3, <1>6
<1>9. /\ SubsTypes' /\ IdsAreLeft' /\ IdsAreDrawnOnce' /\ SuffixesHeard'
      /\ misused' => raced' \/ wiped'
      /\ kind' \in Joining => ~strayed'
  <2>1. call[c].at # "adding" /\ x.at \in {"freeing", "removed"} /\ x.at # "freeing"
    BY <1>4
  <2>2. /\ subs' \subseteq subs /\ idMap' \subseteq idMap /\ lock' \in Caller \cup {Nobody}
        /\ UNCHANGED <<kind, counter, heard, sent, misused, strayed>>
    BY <1>1
  <2>3. raced' \in BOOLEAN /\ (raced => raced') /\ wiped' \in BOOLEAN /\ (wiped => wiped')
    BY <1>1
  <2>4. \A p \in 1..Len(obj) : obj'[p].clients = obj[p].clients \/ obj'[p].clients = <<>>
    BY <1>8
  <2>5. QED
    BY <1>1, <1>4, <1>7, <2>1, <2>2, <2>3, <2>4, GivingUpKeeps
<1>10. \A d \in Caller : call'[d].at # "freeing" /\ d # Nobody
  <2>1. \A d \in Caller : call[d].at = "freeing" => d = c
    BY DEF Sound, FreeingHolds
  <2>2. QED
    BY <1>4, <1>5, <2>1, SubscriptionsAssumption
<1>11. FreeingHolds'
  BY <1>1, <1>10 DEF FreeingHolds
<1>12. ExchangesAreOwn'
  BY <1>1 DEF ExchangesAreOwn
<1>13. AliveIsOwned'
  <2>1. ASSUME NEW p \in 1..Len(obj)
        PROVE  /\ obj'[p].alive <=> p \in subs'
               /\ kind \in Joining => obj'[p].alive \/ obj'[p].gone
    <3>1. CASE p \in D
      BY <1>1, <1>3, <1>6, <3>1
    <3>2. CASE p \notin D
      <4>1. obj'[p] = obj[p] /\ (p \in subs' <=> p \in subs)
        BY <1>1, <1>6, <3>2
      <4>2. QED
        BY <4>1 DEF Sound, AliveIsOwned
    <3>3. QED
      BY <3>1, <3>2
  <2>2. QED
    BY <1>1, <1>7, <2>1 DEF AliveIsOwned
<1>14. ASSUME ~raced', ~wiped'
       PROVE  Orderly'
  <2>1. ~raced /\ ~wiped /\ \A p \in D : Holders(p) = {} /\ obj[p].clients = <<>>
    BY <1>1, <1>14
  <2>2. IdsLeadToListeners /\ KeysDiffer /\ NoneIsLeft /\ PointersAreGood /\ FreeingIsAlone
    BY <2>1 DEF Sound, Orderly
  <2>3. call[c].o \in D
    BY <2>2 DEF FreeingIsAlone
  <2>4. IdsLeadToListeners'
    <3>1. ASSUME NEW w \in idMap
          PROVE  w[2] \in subs' /\ obj'[w[2]] = obj[w[2]]
      <4>1. w[2] \in subs /\ obj[w[2]].clients # <<>> /\ w[2] \in 1..Len(obj)
        BY <1>2, <2>2 DEF IdsLeadToListeners
      <4>2. w[2] \notin D
        BY <2>1, <4>1
      <4>3. QED
        BY <1>1, <1>6, <4>1, <4>2
    <3>2. QED
      BY <1>1, <2>2, <3>1 DEF IdsLeadToListeners
  <2>5. KeysDiffer'
    BY <1>1, <1>2, <1>8, <2>2 DEF KeysDiffer
  <2>6. \A p : Holders(p)' = Holders(p)
    BY <1>4, <1>5 DEF Holders, Pointing
  <2>7. NoneIsLeft'
    <3>1. ASSUME NEW p \in subs, p \notin D
          PROVE  /\ obj'[p].clients # <<>> \/ Holders(p)' # {}
                 /\ obj'[p].running
      <4>1. ~Freeing(p)
        <5>1. \A d \in Caller : call[d].at = "freeing" => d = c
          BY DEF Sound, FreeingHolds
        <5>2. QED
          BY <2>3, <3>1, <5>1 DEF Freeing
      <4>2. obj'[p] = obj[p]
        BY <1>2, <1>6, <3>1
      <4>3. QED
        BY <2>2, <2>6, <4>1, <4>2 DEF NoneIsLeft
    <3>2. QED
      BY <1>1, <3>1 DEF NoneIsLeft
  <2>8. PointersAreGood'
    <3>1. ASSUME NEW d \in Caller, call'[d].at \in Pointing
          PROVE  /\ call'[d].o \in subs' /\ obj'[call'[d].o].running
                 /\ call'[d].at = "removing" => \A w \in idMap : w[1] # call'[d].id
      <4>1. call'[d] = call[d]
        BY <1>4, <1>5, <3>1 DEF Pointing
      <4>2. /\ call[d].o \in subs /\ obj[call[d].o].running
            /\ call[d].at = "removing" => \A w \in idMap : w[1] # call[d].id
        BY <2>2, <3>1, <4>1 DEF PointersAreGood
      <4>3. d \in Holders(call[d].o)
        BY <3>1, <4>1 DEF Holders
      <4>4. call[d].o \notin D
        BY <2>1, <4>3
      <4>5. obj'[call[d].o] = obj[call[d].o]
        BY <1>2, <1>6, <4>2, <4>4
      <4>6. QED
        BY <1>1, <4>1, <4>2, <4>4, <4>5
    <3>2. QED
      BY <1>1, <3>1 DEF PointersAreGood
  <2>9. FreeingIsAlone'
    BY <1>10 DEF FreeingIsAlone
  <2>10. QED
    BY <2>4, <2>5, <2>7, <2>8, <2>9 DEF Orderly
<1>15. Orderly'
  BY <1>14 DEF Orderly
<1>16. QED
  BY <1>9, <1>11, <1>12, <1>13, <1>15 DEF Sound

\* A removal that frees the objects of a host keeps it all.
LEMMA FreesKeeps ==
  ASSUME SubsTypes, Sound, NEW c \in Caller, Frees(c)
  PROVE  SubsTypes' /\ Sound'
<1> DEFINE o == call[c].o
           S == {p \in subs : obj[p].at.host = obj[o].at.host}
<1>1. call[c].at = "freeing" /\ kind # "rabbitmq" /\ o \in 1..Len(obj)
      /\ subs \subseteq 1..Len(obj)
  BY DEF Frees, SubsTypes
<1>2. CASE Free(c, {o}) /\ (kind \in Joining => obj[o].gone)
  BY <1>1, <1>2, FreeingKeeps
<1>3. CASE Free(c, S) /\ kind \notin Joining
  <2>1. S \in SUBSET (1..Len(obj)) /\ (o \in subs => o \in S)
    BY <1>1
  <2> HIDE DEF S
  <2>2. QED
    BY <1>1, <1>3, <2>1, FreeingKeeps
<1>4. QED
  BY <1>2, <1>3 DEF Frees

\* A connection of RabbitMQ is given up by its id (removeExchangeSubscription).
LEMMA RemovesExchangeKeeps ==
  ASSUME SubsTypes, Sound, NEW c \in Caller, RemovesExchange(c)
  PROVE  SubsTypes' /\ Sound'
<1>1. PICK i \in 0..MaxId : RabbitMQRemove(c, i)
  BY DEF RemovesExchange
<1> DEFINE found == {w \in idMap : w[1] = i}
<1>2. /\ call[c].at = "out" /\ idMap' = idMap \ found /\ kind = "rabbitmq" /\ lock = Nobody
      /\ UNCHANGED <<kind, subs, raced, wiped, counter, heard, sent, misused, strayed>>
      /\ \/ /\ found = {} /\ obj' = obj /\ lock' = lock
            /\ call' = [call EXCEPT ![c] = [Out EXCEPT !.at = "removed", !.id = i]]
         \/ \E w \in found :
              /\ call' = [call EXCEPT ![c] =
                            [Out EXCEPT !.at = "freeing", !.o = w[2], !.id = i]]
              /\ obj' = [obj EXCEPT ![w[2]].running = FALSE]
              /\ lock' = c
  BY <1>1 DEF RabbitMQRemove, RabbitMQ, sendVars, undef
<1>3. /\ call \in [Caller -> Doings] /\ call[c] \in Doings /\ obj \in Seq(Object)
      /\ counter \in Nat /\ Len(obj) \in Nat /\ raced \in BOOLEAN /\ wiped \in BOOLEAN
      /\ subs \subseteq 1..Len(obj) /\ idMap \subseteq (1..MaxId) \X (1..Len(obj))
      /\ {"out", "removed"} \subseteq Idling /\ {"removed", "freeing"} \subseteq CallAt
      /\ Every \in Filter /\ 0 \in Nat
  BY ObjectFacts DEF SubsTypes, Idling, CallAt, Pointing, Filter
<1>4. CASE /\ found = {} /\ obj' = obj /\ lock' = lock
           /\ call' = [call EXCEPT ![c] = [Out EXCEPT !.at = "removed", !.id = i]]
  <2> DEFINE x == [Out EXCEPT !.at = "removed", !.id = i]
  <2>1. x \in Doings /\ x.at = "removed"
    BY <1>3 DEF Out, Doings
  <2> HIDE DEF x
  <2>2. /\ call' \in [Caller -> Doings]
        /\ \A d \in Caller : call'[d].at \in Pointing \cup {"freeing", "publishing", "late"}
                               => call'[d].o \in 1..Len(obj)
        /\ \A d \in Caller : \/ call'[d] = call[d]
                             \/ call[d].at \in Idling /\ call'[d].at \in Idling
    <3>1. call' = [call EXCEPT ![c] = x]
      BY <1>4 DEF x
    <3>2. call[c].at \in Idling /\ x.at \in Idling /\ x.at \notin {"publishing", "late"}
      BY <1>2, <1>3, <2>1
    <3>3. QED
      BY <2>1, <3>1, <3>2, MovesIdly
  <2>3. idMap' = idMap /\ obj' = obj /\ lock' = lock
    BY <1>2, <1>4
  <2>4. SubsTypes' /\ Inert
    BY <1>2, <2>2, <2>3 DEF SubsTypes, Copying, Inert
  <2>5. SuffixesHeard'
    BY <1>2, <2>4, SilenceKeepsSuffixes
  <2>6. kind' \in Joining => ~strayed'
    BY <1>2 DEF Sound
  <2>7. QED
    BY <2>4, <2>5, <2>6, InertIsSafe DEF Sound
<1>5. ASSUME NEW w \in found,
             call' = [call EXCEPT ![c] = [Out EXCEPT !.at = "freeing", !.o = w[2], !.id = i]],
             obj' = [obj EXCEPT ![w[2]].running = FALSE], lock' = c
      PROVE  SubsTypes' /\ Sound'
  <2> DEFINE o == w[2]
             x == [Out EXCEPT !.at = "freeing", !.o = o, !.id = i]
             y == [obj[o] EXCEPT !.running = FALSE]
  <2>1. w \in idMap /\ w[1] = i /\ o \in 1..Len(obj) /\ o \in Nat /\ obj[o] \in Object
    BY <1>3, ObjectFacts
  <2>2. x \in Doings /\ x.at = "freeing" /\ x.o = o
    BY <1>3, <2>1 DEF Out, Doings
  <2>3. /\ y \in Object /\ y.key = obj[o].key /\ y.clients = obj[o].clients
        /\ y.alive = obj[o].alive /\ y.gone = obj[o].gone
    <3>1. FALSE \in BOOLEAN
      OBVIOUS
    <3>2. QED
      BY <2>1, <3>1 DEF Object
  <2>4. call' = [call EXCEPT ![c] = x] /\ obj' = [obj EXCEPT ![o] = y]
    BY <1>5
  <2> HIDE DEF x, y, o
  <2>5. /\ call'[c] = x /\ \A d \in Caller : d # c => call'[d] = call[d]
    BY <1>3, <2>4
  <2>6. /\ obj' \in Seq(Object) /\ Len(obj') = Len(obj) /\ obj'[o] = y
        /\ \A p \in 1..Len(obj) : p # o => obj'[p] = obj[p]
    BY <1>3, <2>1, <2>3, <2>4, Changed
  <2>7. \A p \in 1..Len(obj) : /\ obj'[p].key = obj[p].key /\ obj'[p].clients = obj[p].clients
                               /\ obj'[p].alive = obj[p].alive /\ obj'[p].gone = obj[p].gone
    BY <2>3, <2>6
  <2>8. /\ SubsTypes' /\ IdsAreLeft' /\ IdsAreDrawnOnce' /\ SuffixesHeard'
        /\ misused' => raced' \/ wiped'
        /\ kind' \in Joining => ~strayed'
    <3>1. call[c].at # "adding" /\ x.at \in {"freeing", "removed"} /\ x.o \in 1..Len(obj)
      BY <1>2, <2>1, <2>2
    <3>2. subs' \subseteq subs /\ idMap' \subseteq idMap /\ wiped' \in BOOLEAN /\ raced' \in BOOLEAN
          /\ (wiped => wiped') /\ (raced => raced') /\ lock' \in Caller \cup {Nobody}
          /\ UNCHANGED <<kind, counter, heard, sent, misused, strayed>>
      BY <1>2, <1>3, <1>5
    <3>3. \A p \in 1..Len(obj) : obj'[p].clients = obj[p].clients \/ obj'[p].clients = <<>>
      BY <2>7
    <3>4. QED
      BY <2>2, <2>4, <2>6, <3>1, <3>2, <3>3, GivingUpKeeps
  <2>9. \A d \in Caller : call[d].at # "freeing" /\ call[d].at \notin Pointing /\ d # Nobody
    BY <1>2, NobodyFrees, SubscriptionsAssumption DEF Sound, ExchangesAreOwn
  <2>10. \A d \in Caller : call'[d].at \notin Pointing
    BY <2>2, <2>5, <2>9 DEF Pointing
  <2>11. FreeingHolds'
    BY <1>5, <2>2, <2>5, <2>9 DEF FreeingHolds
  <2>12. AliveIsOwned'
    BY <1>2, <2>6, <2>7 DEF Sound, AliveIsOwned
  <2>13. ExchangesAreOwn'
    <3>1. \A p \in subs : Len(obj'[p].clients) = 1 /\ obj'[p].key = <<obj'[p].clients[1].id>>
      BY <1>2, <1>3, <2>7 DEF Sound, ExchangesAreOwn
    <3>2. QED
      BY <1>2, <2>10, <3>1 DEF ExchangesAreOwn
  <2>14. ASSUME IdsLeadToListeners, KeysDiffer, NoneIsLeft, PointersAreGood, FreeingIsAlone
         PROVE  Orderly'
    <3>1. o \in subs
      BY <2>1, <2>14 DEF IdsLeadToListeners, o
    <3>2. ASSUME NEW v \in idMap, v[2] = o
          PROVE  v[1] = i
      <4>1. PICK j \in DOMAIN obj[o].clients : obj[o].clients[j].id = v[1]
        BY <2>14, <3>2 DEF IdsLeadToListeners
      <4>2. PICK k \in DOMAIN obj[o].clients : obj[o].clients[k].id = w[1]
        BY <2>1, <2>14 DEF IdsLeadToListeners, o
      <4>3. Len(obj[o].clients) = 1 /\ obj[o].clients \in Seq(Listener)
        BY <1>2, <2>1, <3>1, ObjectFacts DEF Sound, ExchangesAreOwn
      <4>4. j = 1 /\ k = 1
        BY <4>1, <4>2, <4>3
      <4>5. QED
        BY <2>1, <4>1, <4>2, <4>4
    <3>3. \A v \in idMap' : v \in idMap /\ v[2] # o
      BY <1>2, <3>2
    <3>4. IdsLeadToListeners'
      <4>1. ASSUME NEW v \in idMap'
            PROVE  v \in idMap /\ obj'[v[2]] = obj[v[2]]
        BY <1>3, <2>6, <3>3
      <4>2. subs' = subs
        BY <1>2
      <4>3. ASSUME NEW v \in idMap'
            PROVE  /\ v[2] \in subs' /\ obj'[v[2]].running
                   /\ \E j \in DOMAIN obj'[v[2]].clients : obj'[v[2]].clients[j].id = v[1]
        BY <2>14, <4>1, <4>2 DEF IdsLeadToListeners
      <4>4. QED
        BY <4>3 DEF IdsLeadToListeners
    <3>5. KeysDiffer'
      <4>1. subs' = subs /\ \A p \in subs : obj'[p].key = obj[p].key
        BY <1>2, <1>3, <2>7
      <4>2. QED
        BY <2>14, <4>1 DEF KeysDiffer
    <3>6. NoneIsLeft'
      <4>1. ASSUME NEW p \in subs
            PROVE  /\ obj'[p].clients # <<>>
                   /\ obj'[p].running \/ Freeing(p)'
        <5>1. Len(obj'[p].clients) = 1
          BY <1>2, <2>13, <4>1 DEF ExchangesAreOwn
        <5>2. obj'[p].clients # <<>>
          BY <5>1
        <5>3. CASE p = o
          BY <2>2, <2>5, <5>2, <5>3 DEF Freeing
        <5>4. CASE p # o
          <6>1. obj'[p] = obj[p] /\ ~Freeing(p)
            BY <1>3, <2>6, <2>9, <5>4 DEF Freeing
          <6>2. QED
            BY <2>14, <5>2, <6>1 DEF NoneIsLeft
        <5>5. QED
          BY <5>3, <5>4
      <4>2. QED
        BY <1>2, <4>1 DEF NoneIsLeft
    <3>7. PointersAreGood'
      BY <2>10 DEF PointersAreGood
    <3>8. FreeingIsAlone'
      <4>1. \A p : Holders(p)' = {}
        BY <2>10 DEF Holders
      <4>2. \A d \in Caller : call'[d].at = "freeing" => call'[d].o = o
        BY <2>2, <2>5, <2>9
      <4>3. kind' = "rabbitmq" /\ subs' = subs
        BY <1>2
      <4>4. QED
        BY <3>1, <3>3, <4>1, <4>2, <4>3 DEF FreeingIsAlone
    <3>9. QED
      BY <3>4, <3>5, <3>6, <3>7, <3>8 DEF Orderly
  <2>15. Orderly'
    BY <1>2, <2>14 DEF Sound, Orderly
  <2>16. QED
    BY <2>8, <2>11, <2>12, <2>13, <2>15 DEF Sound
<1>6. QED
  BY <1>2, <1>4, <1>5

\* The connection is closed when its thread has gone (RabbitMQErase).
LEMMA ErasesKeeps ==
  ASSUME SubsTypes, Sound, NEW c \in Caller, RabbitMQErase(c)
  PROVE  SubsTypes' /\ Sound'
<1> DEFINE o == call[c].o
           x == [Out EXCEPT !.at = "removed", !.id = call[c].id]
           y == [obj[o] EXCEPT !.alive = FALSE, !.clients = <<>>, !.inbox = <<>>]
<1>1. /\ kind = "rabbitmq" /\ call[c].at = "freeing" /\ obj[o].gone /\ o \in 1..Len(obj)
      /\ subs' = subs \ {o} /\ lock' = Nobody
      /\ obj' = [obj EXCEPT ![o] = y] /\ call' = [call EXCEPT ![c] = x]
      /\ UNCHANGED <<kind, raced, wiped, counter, idMap, heard, sent, misused, strayed>>
  BY DEF RabbitMQErase, RabbitMQ, Back, SubsTypes, idVars, sendVars, undef
<1>2. /\ call \in [Caller -> Doings] /\ call[c] \in Doings /\ obj \in Seq(Object)
      /\ obj[o] \in Object /\ counter \in Nat /\ raced \in BOOLEAN /\ wiped \in BOOLEAN
      /\ subs \subseteq 1..Len(obj) /\ idMap \subseteq (1..MaxId) \X (1..Len(obj))
  BY <1>1, ObjectFacts DEF SubsTypes
<1>3. x \in Doings /\ x.at = "removed"
  BY <1>2 DEF Out, Doings, CallAt, Filter
<1>4. /\ y \in Object /\ y.key = obj[o].key /\ y.clients = <<>> /\ y.alive = FALSE
      /\ y.gone = obj[o].gone
  <2>1. FALSE \in BOOLEAN /\ <<>> \in Seq(Listener) /\ <<>> \in Seq(Message)
    OBVIOUS
  <2>2. QED
    BY <1>2, <2>1 DEF Object
<1> HIDE DEF x, y
<1>5. /\ call'[c] = x /\ \A d \in Caller : d # c => call'[d] = call[d]
  BY <1>1, <1>2
<1>6. /\ obj' \in Seq(Object) /\ Len(obj') = Len(obj) /\ obj'[o] = y
      /\ \A p \in 1..Len(obj) : p # o => obj'[p] = obj[p]
  BY <1>1, <1>2, <1>4, Changed
<1>7. /\ SubsTypes' /\ IdsAreLeft' /\ IdsAreDrawnOnce' /\ SuffixesHeard'
      /\ misused' => raced' \/ wiped'
      /\ kind' \in Joining => ~strayed'
  <2>1. call[c].at # "adding" /\ x.at \in {"freeing", "removed"} /\ x.at # "freeing"
    BY <1>1, <1>3
  <2>2. subs' \subseteq subs /\ idMap' \subseteq idMap /\ wiped' \in BOOLEAN /\ raced' \in BOOLEAN
        /\ (wiped => wiped') /\ (raced => raced') /\ lock' \in Caller \cup {Nobody}
        /\ UNCHANGED <<kind, counter, heard, sent, misused, strayed>>
    BY <1>1, <1>2
  <2>3. \A p \in 1..Len(obj) : obj'[p].clients = obj[p].clients \/ obj'[p].clients = <<>>
    BY <1>4, <1>6
  <2>4. QED
    BY <1>1, <1>3, <1>6, <2>1, <2>2, <2>3, GivingUpKeeps
<1>8. \A d \in Caller : /\ call'[d].at # "freeing" /\ call'[d].at \notin Pointing /\ d # Nobody
                        /\ call[d].at = "freeing" => d = c
  <2>1. \A d \in Caller : call[d].at = "freeing" => d = c
    BY <1>1 DEF Sound, FreeingHolds
  <2>2. \A d \in Caller : call[d].at \notin Pointing
    BY <1>1 DEF Sound, ExchangesAreOwn
  <2>3. QED
    BY <1>3, <1>5, <2>1, <2>2, SubscriptionsAssumption DEF Pointing
<1>9. FreeingHolds'
  BY <1>1, <1>8 DEF FreeingHolds
<1>10. AliveIsOwned'
  <2>1. ASSUME NEW p \in 1..Len(obj)
        PROVE  /\ obj'[p].alive <=> p \in subs'
               /\ kind \in Joining => obj'[p].alive \/ obj'[p].gone
    <3>1. CASE p = o
      BY <1>1, <1>4, <1>6, <3>1
    <3>2. CASE p # o
      BY <1>1, <1>6, <3>2 DEF Sound, AliveIsOwned
    <3>3. QED
      BY <3>1, <3>2
  <2>2. QED
    BY <1>1, <1>6, <2>1 DEF AliveIsOwned
<1>11. \A p \in subs' : p \in subs /\ p # o /\ obj'[p] = obj[p]
  BY <1>1, <1>2, <1>6
<1>12. ExchangesAreOwn'
  <2>1. \A p \in subs' : Len(obj'[p].clients) = 1 /\ obj'[p].key = <<obj'[p].clients[1].id>>
    BY <1>1, <1>11 DEF Sound, ExchangesAreOwn
  <2>2. QED
    BY <1>8, <2>1 DEF ExchangesAreOwn
<1>13. ASSUME IdsLeadToListeners, KeysDiffer, NoneIsLeft, PointersAreGood, FreeingIsAlone
       PROVE  Orderly'
  <2>1. IdsLeadToListeners'
    <3>1. ASSUME NEW w \in idMap
          PROVE  w[2] \in subs' /\ obj'[w[2]] = obj[w[2]]
      <4>1. w[2] \in subs /\ w[2] # o
        BY <1>1, <1>13 DEF IdsLeadToListeners, FreeingIsAlone
      <4>2. QED
        BY <1>1, <1>11, <4>1
    <3>2. QED
      BY <1>1, <1>13, <3>1 DEF IdsLeadToListeners
  <2>2. KeysDiffer'
    BY <1>11, <1>13 DEF KeysDiffer
  <2>3. NoneIsLeft'
    <3>1. ASSUME NEW p \in subs'
          PROVE  obj'[p].clients # <<>> /\ obj'[p].running
      <4>1. p \in subs /\ p # o /\ obj'[p] = obj[p]
        BY <1>11
      <4>2. ~Freeing(p)
        BY <1>8, <4>1 DEF Freeing
      <4>3. Len(obj[p].clients) = 1
        BY <1>1, <4>1 DEF Sound, ExchangesAreOwn
      <4>4. obj[p].clients # <<>>
        <5>1. ASSUME obj[p].clients = <<>>
              PROVE  Len(obj[p].clients) = 0
          BY <5>1
        <5>2. QED
          BY <4>3, <5>1
      <4>5. QED
        BY <1>13, <4>1, <4>2, <4>4 DEF NoneIsLeft
    <3>2. QED
      BY <3>1 DEF NoneIsLeft
  <2>4. PointersAreGood' /\ FreeingIsAlone'
    BY <1>8 DEF PointersAreGood, FreeingIsAlone
  <2>5. QED
    BY <2>1, <2>2, <2>3, <2>4 DEF Orderly
<1>14. Orderly'
  BY <1>1, <1>13 DEF Sound, Orderly
<1>15. QED
  BY <1>7, <1>9, <1>10, <1>12, <1>14 DEF Sound

\* A connection of RabbitMQ is made with its one listener
\* (addExchangeSubscriptionClient).
LEMMA AddsExchangeKeeps ==
  ASSUME SubsTypes, Sound, NEW c \in Caller, AddsExchange(c)
  PROVE  SubsTypes' /\ Sound'
<1>1. PICK l \in Locator, f \in Filter : RabbitMQAdd(c, l, f)
  BY DEF AddsExchange
<1> DEFINE i == counter + 1
           n == Len(obj) + 1
           z == [id |-> i, filter |-> f, by |-> c]
           y == [Fresh(<<i>>, l, f) EXCEPT !.clients = <<z>>]
           x == [Out EXCEPT !.at = "added", !.id = i]
<1>2. /\ kind = "rabbitmq" /\ call[c].at = "out" /\ lock = Nobody /\ Room
      /\ counter' = i /\ obj' = Append(obj, y) /\ subs' = subs \cup {n}
      /\ idMap' = idMap \cup {<<i, n>>} /\ call' = [call EXCEPT ![c] = x]
      /\ UNCHANGED <<kind, lock, raced, wiped, heard, sent, misused, strayed>>
  BY <1>1 DEF RabbitMQAdd, RabbitMQ, sendVars, undef
<1>3. /\ call \in [Caller -> Doings] /\ obj \in Seq(Object) /\ Len(obj) \in Nat /\ n \in Nat
      /\ counter \in Nat /\ i \in Nat /\ i > counter
      /\ subs \subseteq 1..Len(obj) /\ idMap \subseteq (1..MaxId) \X (1..Len(obj))
  BY ObjectFacts DEF SubsTypes
<1>4. x.at = "added" /\ x.id = i
  BY DEF Out
<1>5. Adding' = Adding /\ Cardinality(Adding) \in Nat
  BY <1>2, <1>4, AddingChanges
<1>6. i \in 1..MaxId /\ i \in 0..MaxId /\ counter' + Cardinality(Adding') <= MaxId
  <2>1. counter + Cardinality(Adding) < MaxId
    BY <1>2 DEF Room, Adding
  <2>2. QED
    BY <1>2, <1>3, <1>5, <2>1, SubscriptionsAssumption
<1>7. x \in Doings
  <2>1. "added" \in CallAt /\ Every \in Filter /\ 0 \in Nat
    BY DEF CallAt, Filter
  <2>2. QED
    BY <1>6, <2>1 DEF Out, Doings
<1>8. z \in Listener /\ z.id = i
  BY <1>6 DEF Listener
<1>9. /\ y \in Object /\ y.key = <<i>> /\ y.clients = <<z>> /\ y.running = TRUE
      /\ y.alive = TRUE
  <2>1. <<z>> \in Seq(Listener) /\ <<>> \in Seq(Message) /\ TRUE \in BOOLEAN /\ FALSE \in BOOLEAN
        /\ 1 \in 1..2
    BY <1>8
  <2>2. <<i>> \in Key
    BY <1>3 DEF Key
  <2> HIDE DEF z, i
  <2>3. QED
    BY <2>1, <2>2 DEF Fresh, Object
<1>10. DOMAIN y.clients = {1} /\ y.clients[1] = z /\ y.clients # <<>> /\ Len(y.clients) = 1
  <2> HIDE DEF z, y
  <2>1. QED
    BY <1>9
<1> HIDE DEF x, y, z
<1>11. /\ obj' \in Seq(Object) /\ Len(obj') = n /\ obj'[n] = y
       /\ \A p \in 1..Len(obj) : obj'[p] = obj[p]
       /\ n \in 1..Len(obj') /\ n \notin 1..Len(obj) /\ n \notin subs
       /\ \A p \in 1..Len(obj') : p = n \/ p \in 1..Len(obj)
       /\ 1..Len(obj) \subseteq 1..Len(obj')
  <2>1. obj' \in Seq(Object) /\ Len(obj') = n /\ obj'[n] = y
        /\ \A p \in 1..Len(obj) : obj'[p] = obj[p]
    BY <1>2, <1>3, <1>9, Added
  <2>2. QED
    BY <1>3, <2>1
<1> HIDE DEF i, n
<1>12. /\ call' \in [Caller -> Doings] /\ call'[c] = x
       /\ \A d \in Caller : d # c => call'[d] = call[d]
  BY <1>2, <1>3, <1>7
<1>13. \A d \in Caller : /\ call[d].at \notin Pointing /\ call[d].at # "freeing"
                         /\ call'[d].at \notin Pointing /\ call'[d].at # "freeing"
  <2>1. \A d \in Caller : call[d].at \notin Pointing /\ call[d].at # "freeing"
    BY <1>2, NobodyFrees DEF Sound, ExchangesAreOwn
  <2>2. QED
    BY <1>4, <1>12, <2>1 DEF Pointing
<1>14. SubsTypes'
  <2>1. \A d \in Caller : call'[d].at \in Pointing \cup {"freeing", "publishing", "late"}
                             => call'[d].o \in 1..Len(obj')
    BY <1>4, <1>11, <1>12 DEF SubsTypes, Pointing
  <2>2. subs' \subseteq 1..Len(obj') /\ idMap' \subseteq (1..MaxId) \X (1..Len(obj'))
    BY <1>2, <1>3, <1>6, <1>11
  <2>3. counter' \in Nat
    BY <1>2, <1>3
  <2>4. QED
    BY <1>2, <1>11, <1>12, <2>1, <2>2, <2>3 DEF SubsTypes, Copying
<1>15. FreeingHolds'
  BY <1>2, <1>13, SubscriptionsAssumption DEF FreeingHolds
<1>16. AliveIsOwned'
  BY <1>2, <1>9, <1>11 DEF Sound, AliveIsOwned
<1>17. ASSUME NEW p \in 1..Len(obj'), NEW j \in DOMAIN obj'[p].clients
       PROVE  \/ p = n /\ j = 1 /\ obj'[p].clients[j] = z
              \/ /\ p \in 1..Len(obj) /\ j \in DOMAIN obj[p].clients
                 /\ obj'[p].clients[j] = obj[p].clients[j]
  BY <1>10, <1>11
<1>18. IdsAreDrawnOnce'
  <2>1. \A w \in idMap' : w[1] <= counter'
    <3>1. \A w \in idMap : w[1] \in Nat /\ w[1] <= counter
      BY <1>3 DEF Sound, IdsAreDrawnOnce
    <3>2. QED
      BY <1>2, <1>3, <3>1
  <2>2. \A d \in Caller : call'[d].at = "removing" => call'[d].id <= counter'
    BY <1>13 DEF Pointing
  <2>3. ASSUME NEW p \in 1..Len(obj), NEW j \in DOMAIN obj[p].clients
        PROVE  obj[p].clients[j].id \in Nat /\ obj[p].clients[j].id <= counter
    <3>1. obj[p].clients[j] \in Listener
      BY ObjectFacts
    <3>2. QED
      BY <3>1 DEF Sound, IdsAreDrawnOnce, Listener
  <2>4. \A p \in 1..Len(obj') : \A j \in DOMAIN obj'[p].clients :
          obj'[p].clients[j].id <= counter'
    BY <1>2, <1>3, <1>8, <1>17, <2>3
  <2>5. ASSUME NEW p \in 1..Len(obj'), NEW q \in 1..Len(obj'), NEW j \in DOMAIN obj'[p].clients,
               NEW k \in DOMAIN obj'[q].clients,
               obj'[p].clients[j].id = obj'[q].clients[k].id
        PROVE  p = q /\ j = k
    <3>1. CASE /\ p \in 1..Len(obj) /\ j \in DOMAIN obj[p].clients
               /\ obj'[p].clients[j] = obj[p].clients[j]
      <4>1. obj'[q].clients[k].id # i
        BY <1>3, <2>3, <2>5, <3>1
      <4>2. /\ q \in 1..Len(obj) /\ k \in DOMAIN obj[q].clients
            /\ obj'[q].clients[k] = obj[q].clients[k]
        BY <1>8, <1>17, <4>1
      <4>3. QED
        BY <2>5, <3>1, <4>2 DEF Sound, IdsAreDrawnOnce
    <3>2. CASE p = n /\ j = 1 /\ obj'[p].clients[j] = z
      <4>1. obj'[q].clients[k].id = i
        BY <1>8, <2>5, <3>2
      <4>2. q = n /\ k = 1
        BY <1>3, <1>17, <2>3, <4>1
      <4>3. QED
        BY <3>2, <4>2
    <3>3. QED
      BY <1>17, <3>1, <3>2
  <2>6. QED
    BY <2>1, <2>2, <2>4, <2>5 DEF IdsAreDrawnOnce
<1>19. ExchangesAreOwn'
  <2>1. ASSUME NEW p \in subs'
        PROVE  Len(obj'[p].clients) = 1 /\ obj'[p].key = <<obj'[p].clients[1].id>>
    <3>1. CASE p = n
      BY <1>8, <1>9, <1>10, <1>11, <3>1
    <3>2. CASE p # n
      <4>1. p \in subs /\ obj'[p] = obj[p]
        BY <1>2, <1>3, <1>11, <3>2
      <4>2. QED
        BY <1>2, <4>1 DEF Sound, ExchangesAreOwn
    <3>3. QED
      BY <3>1, <3>2
  <2>2. QED
    BY <1>13, <2>1 DEF ExchangesAreOwn
<1>20. SuffixesHeard'
  <2>1. ASSUME NEW p \in 1..Len(obj'), NEW j \in DOMAIN obj'[p].clients,
               NEW k \in DOMAIN obj'[p].clients, j < k
        PROVE  p \in 1..Len(obj) /\ obj'[p] = obj[p]
    <3>1. CASE p = n
      BY <1>10, <1>11, <2>1, <3>1
    <3>2. CASE p # n
      BY <1>11, <3>2
    <3>3. QED
      BY <3>1, <3>2
  <2>2. ASSUME Copying, NEW h \in 1..MaxId, h > counter'
        PROVE  heard[h] = <<>>
    <3>1. h > counter
      BY <1>2, <1>3, <2>2
    <3>2. QED
      BY <2>2, <3>1 DEF Sound, SuffixesHeard
  <2>3. ASSUME Copying, NEW p \in 1..Len(obj'), NEW j \in DOMAIN obj'[p].clients,
               NEW k \in DOMAIN obj'[p].clients, j < k,
               obj'[p].clients[j].filter = obj'[p].clients[k].filter
        PROVE  IsSuffix(heard[obj'[p].clients[k].id], heard[obj'[p].clients[j].id])
    <3>1. p \in 1..Len(obj) /\ obj'[p] = obj[p]
      BY <2>1, <2>3
    <3>2. QED
      BY <2>3, <3>1 DEF Sound, SuffixesHeard
  <2>4. kind' = kind /\ heard' = heard
    BY <1>2
  <2>5. QED
    BY <2>2, <2>3, <2>4 DEF SuffixesHeard, Copying
<1>21. ASSUME IdsLeadToListeners, KeysDiffer, NoneIsLeft
       PROVE  Orderly'
  <2>1. IdsLeadToListeners'
    <3>1. ASSUME NEW w \in idMap'
          PROVE  /\ w[2] \in subs' /\ obj'[w[2]].running
                 /\ \E j \in DOMAIN obj'[w[2]].clients : obj'[w[2]].clients[j].id = w[1]
      <4>1. CASE w \in idMap
        <5>1. w[2] \in subs /\ w[2] \in 1..Len(obj)
          BY <1>3, <1>21, <4>1 DEF IdsLeadToListeners
        <5>2. obj'[w[2]] = obj[w[2]] /\ w[2] \in subs'
          BY <1>2, <1>11, <5>1
        <5>3. QED
          BY <1>21, <4>1, <5>2 DEF IdsLeadToListeners
      <4>2. CASE w = <<i, n>>
        <5>1. w[1] = i /\ w[2] = n /\ n \in subs'
          BY <1>2, <4>2
        <5>2. QED
          BY <1>8, <1>9, <1>10, <1>11, <5>1
      <4>3. QED
        BY <1>2, <4>1, <4>2
    <3>2. QED
      BY <3>1 DEF IdsLeadToListeners
  <2>2. KeysDiffer'
    <3>1. ASSUME NEW p \in subs
          PROVE  obj[p].key # <<i>> /\ obj'[p] = obj[p]
      <4>1. /\ p \in 1..Len(obj) /\ Len(obj[p].clients) = 1
            /\ obj[p].clients \in Seq(Listener)
            /\ obj[p].key = <<obj[p].clients[1].id>>
        BY <1>2, <1>3, ObjectFacts DEF Sound, ExchangesAreOwn
      <4>2. 1 \in DOMAIN obj[p].clients /\ obj[p].clients[1] \in Listener
        BY <4>1
      <4>3. obj[p].clients[1].id <= counter /\ obj[p].clients[1].id \in Nat
        BY <4>1, <4>2 DEF Sound, IdsAreDrawnOnce, Listener
      <4>4. obj[p].clients[1].id # i
        BY <1>3, <4>3
      <4>5. QED
        BY <1>11, <4>1, <4>4
    <3>2. obj'[n].key = <<i>>
      BY <1>9, <1>11
    <3>3. subs' = subs \cup {n}
      BY <1>2
    <3>4. ASSUME NEW p \in subs', NEW q \in subs', obj'[p].key = obj'[q].key
          PROVE  p = q
      <4>1. CASE p \in subs /\ q \in subs
        BY <1>21, <3>1, <3>4, <4>1 DEF KeysDiffer
      <4>2. CASE p = n \/ q = n
        <5>1. obj'[p].key = <<i>> /\ obj'[q].key = <<i>>
          BY <3>2, <3>4, <4>2
        <5>2. p \notin subs /\ q \notin subs
          BY <3>1, <5>1
        <5>3. QED
          BY <3>3, <5>2
      <4>3. QED
        BY <3>3, <4>1, <4>2
    <3>5. QED
      BY <3>4 DEF KeysDiffer
  <2>3. NoneIsLeft'
    <3>1. ASSUME NEW p \in subs'
          PROVE  obj'[p].clients # <<>> /\ obj'[p].running
      <4>1. CASE p = n
        BY <1>9, <1>10, <1>11, <4>1
      <4>2. CASE p # n
        <5>1. p \in subs /\ obj'[p] = obj[p]
          BY <1>2, <1>3, <1>11, <4>2
        <5>2. Holders(p) = {} /\ ~Freeing(p)
          BY <1>13 DEF Holders, Freeing
        <5>3. QED
          BY <1>21, <5>1, <5>2 DEF NoneIsLeft
      <4>3. QED
        BY <4>1, <4>2
    <3>2. QED
      BY <3>1 DEF NoneIsLeft
  <2>4. PointersAreGood' /\ FreeingIsAlone'
    BY <1>13 DEF PointersAreGood, FreeingIsAlone
  <2>5. QED
    BY <2>1, <2>2, <2>3, <2>4 DEF Orderly
<1>22. Orderly'
  BY <1>2, <1>21 DEF Sound, Orderly
<1>23. /\ IdsAreLeft'
       /\ misused' => raced' \/ wiped'
       /\ kind' \in Joining => ~strayed'
  BY <1>2, <1>6 DEF Sound, IdsAreLeft
<1>24. QED
  BY <1>14, <1>15, <1>16, <1>18, <1>19, <1>20, <1>22, <1>23 DEF Sound

-----------------------------------------------------------------------------
(* The invariant.                                                          *)

\* A step that changes nothing but messages is safe when the listeners heard
\* in order and no thread went on with a freed object.
LEMMA InertKeeps ==
  ASSUME SubsTypes, Sound, Inert, SuffixesHeard', kind \in Joining => ~strayed'
  PROVE  Sound'
<1>1. kind' = kind
  BY DEF Inert
<1>2. QED
  BY <1>1, InertIsSafe DEF Sound

\* The threads of the subscriptions, where the destructor joins them or not.
LEMMA ThreadStepsKeep ==
  ASSUME SubsTypes, Sound, NEW o \in 1..Len(obj), ThreadSteps(o)
  PROVE  SubsTypes' /\ Sound'
<1>1. SubsTypes' /\ Inert
  BY ThreadStepsAreInert
<1>2. kind' = kind
  BY <1>1 DEF Inert
<1>3. CASE NNGRedial(o) \/ Receive(o)
  <2>1. heard' = heard /\ strayed' = strayed
    BY <1>3 DEF NNGRedial, Receive
  <2>2. QED
    BY <1>1, <2>1, SilenceKeepsSuffixes, InertKeeps DEF Sound
<1>4. CASE ThreadEnds(o)
  <2>1. heard' = heard /\ ~obj[o].gone /\ strayed' = (strayed \/ ~obj[o].alive)
    BY <1>4 DEF ThreadEnds
  <2>2. kind \in Joining => ~strayed'
    BY <2>1 DEF Sound, AliveIsOwned
  <2>3. QED
    BY <1>1, <2>1, <2>2, SilenceKeepsSuffixes, InertKeeps
<1>5. CASE Copying /\ HandOut(o, HeardCopies)
  <2>1. strayed' = strayed
    BY <1>5 DEF HandOut
  <2>2. SuffixesHeard'
    BY <1>1, <1>5, HandOutKeepsSuffixes
  <2>3. QED
    BY <1>1, <2>1, <2>2, InertKeeps DEF Sound
<1>6. CASE ~Copying /\ HandOut(o, HeardMoved)
  <2>1. strayed' = strayed
    BY <1>6 DEF HandOut
  <2>2. SuffixesHeard'
    BY <1>2, <1>6 DEF SuffixesHeard, Copying
  <2>3. QED
    BY <1>1, <2>1, <2>2, InertKeeps DEF Sound
<1>7. QED
  BY <1>3, <1>4, <1>5, <1>6 DEF ThreadSteps

\* The queues in shared memory.
LEMMA ShmStepsKeep ==
  ASSUME SubsTypes, Sound, Shm, ShmSteps
  PROVE  SubsTypes' /\ Sound'
<1>1. SubsTypes' /\ Inert
  BY ShmStepsAreInert
<1>2. kind \notin Joining /\ Copying
  BY DEF Shm, Joining, Copying
<1>3. SuffixesHeard'
  <2>1. CASE \E o \in 1..Len(obj) : HandOut(o, HeardCopies)
    BY <1>1, <1>2, <2>1, HandOutKeepsSuffixes
  <2>2. CASE heard' = heard
    BY <1>1, <2>2, SilenceKeepsSuffixes
  <2>3. QED
    BY <2>1, <2>2 DEF ShmSteps, ShmTakeQueue, ShmHandleData, ShmDropStale, ShmReadTail, ShmAppend
<1>4. QED
  BY <1>1, <1>2, <1>3, InertKeeps

\* Publishing, making a sender, returning and waiting.
LEMMA QuietStepsKeep ==
  ASSUME SubsTypes, Sound,
         \/ \E c \in Caller : Returns(c)
         \/ Sends
         \/ \E l \in Locator : Open(l)
         \/ Waits
  PROVE  SubsTypes' /\ Sound'
<1>1. SubsTypes' /\ Inert
  BY ReturnsIsInert, SendsIsInert, OpenIsInert
<1>2. heard' = heard /\ strayed' = strayed
  BY DEF Returns, Sends, Send, Open, Waits, undef
<1>3. QED
  BY <1>1, <1>2, SilenceKeepsSuffixes, InertKeeps DEF Sound

\* Every change of the subscriptions keeps the invariant.
LEMMA SubsStepKeeps ==
  ASSUME SubsTypes, Sound, SubsStep
  PROVE  SubsTypes' /\ Sound'
<1>1. ASSUME NEW c \in Caller, CallerSteps(c)
      PROVE  SubsTypes' /\ Sound'
  <2>1. CASE Registers(c) \/ Misuses(c) \/ Takes(c)
    BY <2>1, RegistersKeeps, MisusesKeeps, TakesKeeps
  <2>2. CASE Drops(c) \/ Stops(c) \/ Frees(c)
    BY <2>2, DropsKeeps, StopsKeeps, FreesKeeps
  <2>3. CASE AddsExchange(c) \/ RemovesExchange(c) \/ RabbitMQErase(c)
    BY <2>3, AddsExchangeKeeps, RemovesExchangeKeeps, ErasesKeeps
  <2>4. CASE Returns(c)
    BY <2>4, QuietStepsKeep
  <2>5. QED
    BY <1>1, <2>1, <2>2, <2>3, <2>4 DEF CallerSteps
<1>2. QED
  BY <1>1, FindsKeeps, ThreadStepsKeep, ShmStepsKeep, QuietStepsKeep DEF SubsStep

\* At the start there are no objects, no ids and no calls (the components'
\* constructors).
LEMMA InitKeeps ==
  ASSUME Init
  PROVE  IndInv
<1>1. SubsInit /\ NodesInit /\ ListenerInit
  BY DEF Init
<1>2. Out \in Doings /\ Out.at = "out"
  BY SubscriptionsAssumption DEF Out, Doings, CallAt, Pointing, Filter
<1>3. \A c \in Caller : call[c] \in Doings /\ call[c].at = "out"
  BY <1>1, <1>2 DEF SubsInit
<1>4. Len(obj) = 0 /\ 1..Len(obj) = {}
  BY <1>1 DEF SubsInit
<1>5. SubsTypes
  <2>1. obj \in Seq(Object) /\ call \in [Caller -> Doings]
    BY <1>1, <1>2 DEF SubsInit
  <2>2. heard \in [1..MaxId -> Seq(Message)]
    BY <1>1 DEF SubsInit
  <2>3. \A c \in Caller : call[c].at \notin Pointing \cup {"freeing", "publishing", "late"}
    BY <1>3 DEF Pointing
  <2>4. counter \in Nat /\ sent \in 0..MaxSent
    BY <1>1, SubscriptionsAssumption DEF SubsInit
  <2>5. subs = {} /\ idMap = {} /\ lock = Nobody
        /\ {misused, strayed, raced, wiped} \subseteq BOOLEAN
    BY <1>1 DEF SubsInit
  <2>6. QED
    BY <2>1, <2>2, <2>3, <2>4, <2>5 DEF SubsTypes
<1>6. NodeTypes
  <2>1. fetch \in [Caller -> Fetching]
    BY <1>1, SubscriptionsAssumption DEF NodesInit, Fetching
  <2>2. node \in [Caller -> Importing]
    <3>1. ASSUME NEW c \in Caller
          PROVE  node[c] \in Importing
      <4> DEFINE w == [m \in Command |-> IF m = "start" /\ role[c] = "importer" THEN 1 ELSE 0]
      <4>1. w \in [Command -> Nat]
        OBVIOUS
      <4>2. node[c] = [client |-> 0, last |-> "start", overlapped |-> FALSE, waiting |-> w]
        BY <1>1 DEF NodesInit
      <4> HIDE DEF w
      <4>3. "start" \in Command /\ 0 \in 0..MaxId /\ FALSE \in BOOLEAN
        BY SubscriptionsAssumption DEF Command
      <4>4. QED
        BY <4>1, <4>2, <4>3 DEF Importing
    <3>2. DOMAIN node = Caller /\ node = [c \in Caller |-> node[c]]
      BY <1>1 DEF NodesInit
    <3>3. QED
      BY <3>1, <3>2
  <2>3. want \in [Caller -> Wanted]
    BY <1>1, NodesAssumption DEF NodesInit
  <2>4. QED
    BY <2>1, <2>2, <2>3 DEF NodeTypes
<1>7. FacilityTypes
  <2>1. Idle \in Task \/ Caller = {}
    BY <1>6, SubscriptionsAssumption DEF Idle, Task, Ops, NodeTypes
  <2>2. QED
    BY <1>1, <2>1 DEF ListenerInit, FacilityTypes
<1>8. IdsAreLeft
  <2>1. Adding = {}
    BY <1>3 DEF Adding
  <2>2. Cardinality(Adding) = 0
    BY <2>1, FS_EmptySet
  <2>3. QED
    BY <1>1, <2>2, SubscriptionsAssumption DEF SubsInit, IdsAreLeft
<1>9. FreeingHolds /\ PointersAreGood /\ FreeingIsAlone
  BY <1>1, <1>3, SubscriptionsAssumption DEF SubsInit, FreeingHolds, PointersAreGood,
     FreeingIsAlone, Pointing
<1>10. AliveIsOwned /\ KeysDiffer /\ NoneIsLeft /\ IdsLeadToListeners
  BY <1>1, <1>4 DEF SubsInit, AliveIsOwned, KeysDiffer, NoneIsLeft, IdsLeadToListeners
<1>11. IdsAreDrawnOnce /\ ExchangesAreOwn
  BY <1>1, <1>3, <1>4 DEF SubsInit, IdsAreDrawnOnce, ExchangesAreOwn, Pointing
<1>12. SuffixesHeard
  BY <1>1, <1>4 DEF SubsInit, SuffixesHeard
<1>13. Sound
  BY <1>1, <1>8, <1>9, <1>10, <1>11, <1>12 DEF SubsInit, Sound, Orderly
<1>14. QED
  BY <1>5, <1>6, <1>7, <1>13 DEF IndInv, Types

\* The inductive invariant of the components and the nodes on top of them.
THEOREM IndInvHolds == Spec => []IndInv
<1>1. Init => IndInv
  BY InitKeeps
<1>2. IndInv /\ [Next]_vars => IndInv'
  <2> SUFFICES ASSUME Types, Sound, [Next]_vars
               PROVE  Types' /\ Sound'
    BY DEF IndInv
  <2>1. SubsStep /\ NodeTypes' /\ FacilityTypes'
    BY NextIsStep
  <2>2. SubsTypes' /\ Sound'
    BY <2>1, SubsStepKeeps DEF Types
  <2>3. QED
    BY <2>1, <2>2 DEF Types
<1>3. QED
  BY <1>1, <1>2, PTL DEF Spec

-----------------------------------------------------------------------------
(* What follows.                                                           *)

\* As long as no object was freed under a caller's pointer or with listeners,
\* idToSubscriptionMap_ and subscriptions_ agree.
THEOREM RegistryIsConsistent == Spec => []RegistryConsistent
<1>1. IndInv => RegistryConsistent
  <2> SUFFICES ASSUME SubsTypes, Sound, ~raced, ~wiped
               PROVE  RegistryConsistent
    BY DEF IndInv, Types, RegistryConsistent
  <2>1. IdsLeadToListeners /\ KeysDiffer /\ NoneIsLeft
    BY DEF Sound, Orderly
  <2>2. ASSUME NEW x \in idMap
        PROVE  Cardinality({n \in DOMAIN obj[x[2]].clients :
                              obj[x[2]].clients[n].id = x[1]}) = 1
    <3>1. x[2] \in 1..Len(obj)
      BY <2>1 DEF IdsLeadToListeners, SubsTypes
    <3>2. PICK p \in DOMAIN obj[x[2]].clients : obj[x[2]].clients[p].id = x[1]
      BY <2>1 DEF IdsLeadToListeners
    <3>3. {n \in DOMAIN obj[x[2]].clients : obj[x[2]].clients[n].id = x[1]} = {p}
      BY <3>1, <3>2 DEF Sound, IdsAreDrawnOnce
    <3>4. QED
      BY <3>3, FS_Singleton
  <2>3. ASSUME NEW o \in subs
        PROVE  obj[o].clients # <<>> \/ Holders(o) # {} \/ lock # Nobody
    <3>1. ~Freeing(o) \/ lock # Nobody
      BY NobodyFrees
    <3>2. QED
      BY <2>1, <3>1 DEF NoneIsLeft
  <2>4. \A x \in idMap : x[2] \in subs /\ obj[x[2]].running
    BY <2>1 DEF IdsLeadToListeners
  <2>5. QED
    BY <2>1, <2>2, <2>3, <2>4 DEF RegistryConsistent, KeysDiffer
<1>2. QED
  BY <1>1, IndInvHolds, PTL

\* A freed object is used only where calls overlapped or one was freed in use,
\* and never by a thread that is joined.
THEOREM FreedIsNeverUsed == Spec => []FreedIsNotUsed
<1>1. IndInv => FreedIsNotUsed
  BY DEF IndInv, Sound, FreedIsNotUsed
<1>2. QED
  BY <1>1, IndInvHolds, PTL

\* No callback takes a message from a later listener where each is called with
\* a copy.
THEOREM LaterListenersHearSuffixes == Spec => []LaterListenerHearsASuffix
<1>1. IndInv => LaterListenerHearsASuffix
  <2> SUFFICES ASSUME SubsTypes, Sound, Copying, NEW o \in subs,
                      NEW p \in 1..Len(obj[o].clients), NEW q \in 1..Len(obj[o].clients),
                      p < q, obj[o].clients[p].filter = obj[o].clients[q].filter
               PROVE  IsSuffix(heard[obj[o].clients[q].id], heard[obj[o].clients[p].id])
    BY DEF IndInv, Types, Copying, LaterListenerHearsASuffix
  <2>1. o \in 1..Len(obj) /\ obj[o].clients \in Seq(Listener)
    BY ObjectFacts
  <2>2. p \in DOMAIN obj[o].clients /\ q \in DOMAIN obj[o].clients
    BY <2>1
  <2>3. QED
    BY <2>1, <2>2 DEF Sound, SuffixesHeard
<1>2. QED
  BY <1>1, IndInvHolds, PTL

-----------------------------------------------------------------------------
(* What a call does to the ids and to the listeners.                       *)

\* Where a call is that gives a listener back.
Giving == {"removing", "stopping", "freeing", "removed"}

\* The listeners that are in the list of an object.
Listening ==
  {y \in (1..Len(obj)) \X Listener :
     \E p \in DOMAIN obj[y[1]].clients : obj[y[1]].clients[p] = y[2]}

NoNewListener == Listening' \subseteq Listening /\ subs \subseteq subs'

\* A call that draws an id for a listener in object o.
Draws(c, o) ==
  LET i == counter + 1
  IN  /\ counter' = i /\ idMap' = idMap \cup {<<i, o>>}
      /\ call' = [call EXCEPT ![c] = [Out EXCEPT !.at = "added", !.id = i]]
      /\ \A y \in Listening' : y \in Listening \/ (y[1] = o /\ y[2].id = i /\ y[2].by = c)
      /\ subs \subseteq subs'

\* A call that begins to subscribe.
Enters(c) ==
  /\ call[c].at = "out"
  /\ \E x \in Doings : x.at = "adding" /\ call' = [call EXCEPT ![c] = x]
  /\ NoNewListener /\ UNCHANGED <<counter, idMap>>

\* A call that begins to give the listener of an id back.
Gives(c, i) ==
  /\ call[c].at = "out"
  /\ counter' = counter /\ idMap' = {w \in idMap : w[1] # i}
  /\ \E x \in Doings :
       /\ call' = [call EXCEPT ![c] = x] /\ x.id = i
       /\ \/ x.at = "removed" /\ \A w \in idMap : w[1] # i
          \/ /\ x.at = "removing" \/ (x.at = "freeing" /\ kind = "rabbitmq")
             /\ <<i, x.o>> \in idMap
  /\ NoNewListener

\* A call that goes on with that, and once it has been in the list of the
\* object or has freed the object the listener is gone.
MovesOn(c) ==
  /\ call[c].at \in Giving \ {"removed"}
  /\ UNCHANGED <<counter, idMap>> /\ Listening' \subseteq Listening
  /\ \E x \in Doings :
       /\ call' = [call EXCEPT ![c] = x] /\ x.id = call[c].id
       /\ x.at \in Giving \ {"removing"}
       /\ x.at = "freeing" => x.o \in subs'
  /\ call[c].at = "freeing" \/ subs \subseteq subs'
  /\ call[c].at # "stopping" =>
       \A y \in Listening' : y[1] # call[c].o \/ y[2].id # call[c].id

\* A caller that leaves with its result.
Leaves(c) ==
  /\ call[c].at \in {"added", "removed"}
  /\ call' = [call EXCEPT ![c] = Out]
  /\ NoNewListener /\ UNCHANGED <<counter, idMap>>

\* What threads and publishers do: a caller without a role may publish.
Silent ==
  /\ NoNewListener /\ UNCHANGED <<counter, idMap>>
  /\ \A d \in Caller :
       \/ call'[d] = call[d]
       \/ /\ role[d] = "idle" \/ call[d].at = "publishing"
          /\ {call[d].at, call'[d].at} \subseteq {"out", "publishing", "late"}

\* No listener is new when each list has only what it had.
LEMMA ListsKept ==
  ASSUME Len(obj') = Len(obj),
         \A o \in 1..Len(obj) : \A p \in DOMAIN obj'[o].clients :
           \E q \in DOMAIN obj[o].clients : obj'[o].clients[p] = obj[o].clients[q]
  PROVE  Listening' \subseteq Listening
<1>1. ASSUME NEW y \in Listening'
      PROVE  y \in Listening
  <2>1. y \in (1..Len(obj)) \X Listener /\ y[1] \in 1..Len(obj)
    BY DEF Listening
  <2>2. PICK p \in DOMAIN obj'[y[1]].clients : obj'[y[1]].clients[p] = y[2]
    BY DEF Listening
  <2>3. PICK q \in DOMAIN obj[y[1]].clients : obj[y[1]].clients[q] = y[2]
    BY <2>1, <2>2
  <2>4. QED
    BY <2>1, <2>3 DEF Listening
<1>2. QED
  BY <1>1

\* Threads, publishers and returns leave the lists alone.
LEMMA InertListens ==
  ASSUME Inert
  PROVE  NoNewListener /\ UNCHANGED <<counter, idMap>>
<1>1. Listening' \subseteq Listening
  BY ListsKept DEF Inert
<1>2. QED
  BY <1>1 DEF Inert, NoNewListener

\* addSubscription.
LEMMA RegistersDraws ==
  ASSUME SubsTypes, NEW c \in Caller, Registers(c)
  PROVE  Draws(c, call[c].o)
<1> DEFINE o == call[c].o
           z == [id |-> counter + 1, filter |-> call[c].filter, by |-> c]
           y == [obj[o] EXCEPT !.clients = Append(obj[o].clients, z)]
<1>1. /\ call[c].at = "adding" /\ o \in 1..Len(obj) /\ obj \in Seq(Object)
      /\ obj[o].clients \in Seq(Listener) /\ obj[o] \in Object
  BY ObjectFacts DEF Registers, SubsTypes, Pointing
<1>2. /\ obj' = [obj EXCEPT ![o] = y] /\ subs' = subs
      /\ counter' = counter + 1 /\ idMap' = idMap \cup {<<counter + 1, o>>}
      /\ call' = [call EXCEPT ![c] = [Out EXCEPT !.at = "added", !.id = counter + 1]]
  BY DEF Registers, Register
<1>3. y.clients = Append(obj[o].clients, z)
  BY <1>1 DEF Object
<1>4. z.id = counter + 1 /\ z.by = c
  OBVIOUS
<1> HIDE DEF y, z
<1>5. Len(obj') = Len(obj) /\ obj'[o] = y /\ \A p \in 1..Len(obj) : p # o => obj'[p] = obj[p]
  BY <1>1, <1>2
<1>6. ASSUME NEW s \in Seq(Listener), NEW p \in DOMAIN Append(s, z)
      PROVE  Append(s, z)[p] = z \/ (p \in DOMAIN s /\ Append(s, z)[p] = s[p])
  BY <1>6
<1>7. ASSUME NEW w \in Listening'
      PROVE  w \in Listening \/ (w[1] = o /\ w[2].id = counter + 1 /\ w[2].by = c)
  <2>1. w \in (1..Len(obj)) \X Listener /\ w[1] \in 1..Len(obj)
    BY <1>5 DEF Listening
  <2>2. PICK p \in DOMAIN obj'[w[1]].clients : obj'[w[1]].clients[p] = w[2]
    BY DEF Listening
  <2>3. CASE w[1] = o
    <3>1. p \in DOMAIN Append(obj[o].clients, z) /\ w[2] = Append(obj[o].clients, z)[p]
      BY <1>3, <1>5, <2>2, <2>3
    <3>2. w[2] = z \/ (p \in DOMAIN obj[o].clients /\ w[2] = obj[o].clients[p])
      BY <1>1, <1>6, <3>1
    <3>3. QED
      BY <1>4, <2>1, <2>3, <3>2 DEF Listening
  <2>4. CASE w[1] # o
    BY <1>5, <2>1, <2>2, <2>4 DEF Listening
  <2>5. QED
    BY <2>3, <2>4
<1>8. QED
  BY <1>2, <1>7 DEF Draws

\* addExchangeSubscription.
LEMMA AddsExchangeDraws ==
  ASSUME SubsTypes, NEW c \in Caller, AddsExchange(c)
  PROVE  call[c].at = "out" /\ Draws(c, Len(obj) + 1)
<1>1. PICK l \in Locator, f \in Filter : RabbitMQAdd(c, l, f)
  BY DEF AddsExchange
<1> DEFINE n == Len(obj) + 1
           z == [id |-> counter + 1, filter |-> f, by |-> c]
           y == [Fresh(<<counter + 1>>, l, f) EXCEPT !.clients = <<z>>]
<1>2. /\ obj' = Append(obj, y) /\ subs' = subs \cup {n} /\ call[c].at = "out"
      /\ counter' = counter + 1 /\ idMap' = idMap \cup {<<counter + 1, n>>}
      /\ call' = [call EXCEPT ![c] = [Out EXCEPT !.at = "added", !.id = counter + 1]]
  BY <1>1 DEF RabbitMQAdd
<1>3. y.clients = <<z>>
  BY DEF Fresh
<1>4. z.id = counter + 1 /\ z.by = c
  OBVIOUS
<1> HIDE DEF y, z
<1>5. obj \in Seq(Object) /\ Len(obj) \in Nat
  BY ObjectFacts DEF SubsTypes
<1>6. Len(obj') = n /\ obj'[n] = y /\ \A p \in 1..Len(obj) : obj'[p] = obj[p]
  BY <1>2, <1>5
<1>7. ASSUME NEW w \in Listening'
      PROVE  w \in Listening \/ (w[1] = n /\ w[2].id = counter + 1 /\ w[2].by = c)
  <2>1. w \in (1..n) \X Listener /\ w[1] \in 1..n
    BY <1>6 DEF Listening
  <2>2. PICK p \in DOMAIN obj'[w[1]].clients : obj'[w[1]].clients[p] = w[2]
    BY DEF Listening
  <2>3. CASE w[1] = n
    <3>1. p \in DOMAIN <<z>> /\ w[2] = <<z>>[p]
      BY <1>3, <1>6, <2>2, <2>3
    <3>2. w[2] = z
      BY <3>1
    <3>3. QED
      BY <1>4, <2>3, <3>2
  <2>4. CASE w[1] # n
    <3>1. w[1] \in 1..Len(obj)
      BY <1>5, <2>1, <2>4
    <3>2. obj'[w[1]] = obj[w[1]] /\ w \in (1..Len(obj)) \X Listener
      BY <1>6, <2>1, <3>1
    <3>3. QED
      BY <2>2, <3>2 DEF Listening
  <2>5. QED
    BY <2>3, <2>4
<1>8. QED
  BY <1>2, <1>7 DEF Draws

\* A call goes on, and takes the listener out or leaves the lists alone.
LEMMA MovesAlong ==
  ASSUME SubsTypes, NEW c \in Caller, call[c].at \in Giving \ {"removed"},
         UNCHANGED <<counter, idMap>>, Listening' \subseteq Listening,
         NEW at \in Giving \ {"removing"},
         \/ Go(c, at)
         \/ Back(c, at) /\ at = "removed",
         at = "freeing" => call[c].o \in subs',
         call[c].at = "freeing" \/ subs \subseteq subs',
         call[c].at # "stopping" =>
           \A y \in Listening' : y[1] # call[c].o \/ y[2].id # call[c].id
  PROVE  MovesOn(c)
<1>1. call[c] \in Doings /\ call \in [Caller -> Doings]
  BY DEF SubsTypes
<1>2. CASE Go(c, at)
  <2> DEFINE x == [call[c] EXCEPT !.at = at]
  <2>1. x \in Doings /\ x.id = call[c].id /\ x.at = at /\ x.o = call[c].o
    BY <1>1 DEF Doings, Giving, CallAt, Pointing
  <2>2. call' = [call EXCEPT ![c] = x]
    BY <1>1, <1>2 DEF Go
  <2> HIDE DEF x
  <2>3. QED
    BY <2>1, <2>2 DEF MovesOn
<1>3. CASE Back(c, at) /\ at = "removed"
  <2> DEFINE x == [Out EXCEPT !.at = at, !.id = call[c].id]
  <2>1. x \in Doings /\ x.id = call[c].id /\ x.at = at
    BY <1>1, <1>3 DEF Doings, CallAt, Out, Filter
  <2>2. call' = [call EXCEPT ![c] = x]
    BY <1>3 DEF Back
  <2> HIDE DEF x
  <2>3. QED
    BY <1>3, <2>1, <2>2 DEF MovesOn
<1>4. QED
  BY <1>2, <1>3

\* removeSubscription.
LEMMA DropsMoves ==
  ASSUME SubsTypes, Sound, NEW c \in Caller, Drops(c)
  PROVE  MovesOn(c)
<1> DEFINE o == call[c].o
           i == call[c].id
           cl == obj[o].clients
           s == Without(cl, i)
           y == [obj[o] EXCEPT !.clients = s]
<1>1. /\ call[c].at = "removing" /\ o \in 1..Len(obj) /\ obj \in Seq(Object)
      /\ cl \in Seq(Listener) /\ obj[o] \in Object /\ subs' = subs
      /\ obj' = [obj EXCEPT ![o] = y] /\ Go(c, "stopping") /\ UNCHANGED <<counter, idMap>>
  BY ObjectFacts DEF Drops, Drop, SubsTypes, Pointing, idVars
<1>2. \A j, k \in DOMAIN cl : cl[j].id = cl[k].id => j = k
  BY <1>1 DEF Sound, IdsAreDrawnOnce
<1>3. PICK f \in [DOMAIN s -> DOMAIN cl] :
        /\ \A j \in DOMAIN s : s[j] = cl[f[j]] /\ cl[f[j]].id # i
        /\ \A j, k \in DOMAIN s : j < k => f[j] < f[k]
        /\ \A k \in DOMAIN cl : cl[k].id # i => \E j \in DOMAIN s : f[j] = k
  <2> HIDE DEF cl, i
  <2>1. QED
    BY <1>1, <1>2, TakenOut
<1>4. y.clients = s
  BY <1>1 DEF Object
<1> HIDE DEF s, y
<1>5. Len(obj') = Len(obj) /\ obj'[o] = y /\ \A p \in 1..Len(obj) : p # o => obj'[p] = obj[p]
  BY <1>1
<1>6. Listening' \subseteq Listening
  <2>1. ASSUME NEW q \in 1..Len(obj), NEW p \in DOMAIN obj'[q].clients
        PROVE  \E r \in DOMAIN obj[q].clients : obj'[q].clients[p] = obj[q].clients[r]
    <3>1. CASE q = o
      <4>1. p \in DOMAIN s /\ obj'[q].clients[p] = s[p] /\ f[p] \in DOMAIN cl
        BY <1>3, <1>4, <1>5, <3>1
      <4>2. QED
        BY <1>3, <3>1, <4>1
    <3>2. CASE q # o
      BY <1>5, <3>2
    <3>3. QED
      BY <3>1, <3>2
  <2>2. QED
    BY <1>5, <2>1, ListsKept
<1>7. ASSUME NEW w \in Listening', w[1] = o
      PROVE  w[2].id # i
  <2>1. PICK p \in DOMAIN obj'[w[1]].clients : obj'[w[1]].clients[p] = w[2]
    BY DEF Listening
  <2>2. p \in DOMAIN s /\ w[2] = s[p]
    BY <1>4, <1>5, <1>7, <2>1
  <2>3. QED
    BY <1>3, <2>2
<1>8. "stopping" \in Giving \ {"removing"} /\ call[c].at \in Giving \ {"removed"}
  BY <1>1 DEF Giving
<1>9. \A w \in Listening' : w[1] # o \/ w[2].id # i
  BY <1>7
<1>10. QED
  BY <1>1, <1>6, <1>8, <1>9, MovesAlong

\* checkWhetherNeedsToStop.
LEMMA StopsMoves ==
  ASSUME SubsTypes, Sound, NEW c \in Caller, Stops(c)
  PROVE  MovesOn(c)
<1> DEFINE o == call[c].o
           y == [obj[o] EXCEPT !.running = FALSE]
<1>1. /\ call[c].at = "stopping" /\ o \in 1..Len(obj) /\ obj[o].alive /\ subs' = subs
      /\ obj \in Seq(Object) /\ obj[o] \in Object /\ UNCHANGED <<counter, idMap>>
      /\ \/ Go(c, "freeing") /\ obj' = [obj EXCEPT ![o] = y]
         \/ Back(c, "removed") /\ obj' = obj
  BY ObjectFacts DEF Stops, StopIfUnused, SubsTypes, Pointing, idVars
<1>2. o \in subs
  BY <1>1 DEF Sound, AliveIsOwned
<1>3. y.clients = obj[o].clients
  BY <1>1 DEF Object
<1> HIDE DEF y
<1>4. Len(obj') = Len(obj) /\ \A p \in 1..Len(obj) : obj'[p].clients = obj[p].clients
  BY <1>1, <1>3
<1>5. Listening' \subseteq Listening
  BY <1>4, ListsKept
<1>6. {"freeing", "removed"} \subseteq Giving \ {"removing"} /\ call[c].at \in Giving \ {"removed"}
  BY <1>1 DEF Giving
<1>7. QED
  BY <1>1, <1>2, <1>5, <1>6, MovesAlong

\* No list has more when some of them are cleared.
LEMMA ClearedLists ==
  ASSUME SubsTypes, NEW D \in SUBSET (1..Len(obj)), Len(obj') = Len(obj),
         \A p \in 1..Len(obj) : IF p \in D THEN obj'[p].clients = <<>>
                                ELSE obj'[p].clients = obj[p].clients
  PROVE  Listening' \subseteq Listening /\ \A y \in Listening' : y[1] \notin D
<1>1. ASSUME NEW q \in 1..Len(obj), NEW p \in DOMAIN obj'[q].clients
      PROVE  q \notin D /\ \E r \in DOMAIN obj[q].clients : obj'[q].clients[p] = obj[q].clients[r]
  <2>1. DOMAIN <<>> = {}
    OBVIOUS
  <2>2. q \notin D
    BY <1>1, <2>1
  <2>3. QED
    BY <2>2
<1>2. Listening' \subseteq Listening
  BY <1>1, ListsKept
<1>3. ASSUME NEW y \in Listening'
      PROVE  y[1] \notin D
  BY <1>1 DEF Listening
<1>4. QED
  BY <1>2, <1>3

\* The destructor of one object, or of all those of a host.
LEMMA FreesMoves ==
  ASSUME SubsTypes, Sound, NEW c \in Caller, Frees(c), call[c].o \in subs
  PROVE  MovesOn(c)
<1>1. call[c].at = "freeing" /\ call[c].o \in 1..Len(obj) /\ subs \subseteq 1..Len(obj)
      /\ Len(obj) \in Nat
  BY ObjectFacts DEF Frees, SubsTypes
<1>2. ASSUME NEW D \in SUBSET (1..Len(obj)), Free(c, D), call[c].o \in D
      PROVE  MovesOn(c)
  <2> DEFINE freed(p) == [obj[p] EXCEPT !.running = FALSE, !.alive = FALSE,
                                        !.clients = <<>>, !.inbox = <<>>]
  <2>1. /\ obj' = [p \in 1..Len(obj) |-> IF p \in D THEN freed(p) ELSE obj[p]]
        /\ Back(c, "removed") /\ UNCHANGED <<counter, idMap>>
    BY <1>2 DEF Free, idVars
  <2>2. \A p \in 1..Len(obj) : freed(p).clients = <<>>
    BY ObjectFacts DEF Object
  <2> HIDE DEF freed
  <2>3. /\ Len(obj') = Len(obj)
        /\ \A p \in 1..Len(obj) : IF p \in D THEN obj'[p].clients = <<>>
                                  ELSE obj'[p].clients = obj[p].clients
    BY <1>1, <2>1, <2>2
  <2>4. Listening' \subseteq Listening /\ \A y \in Listening' : y[1] \notin D
    BY <2>3, ClearedLists
  <2>5. "removed" \in Giving \ {"removing"} /\ call[c].at \in Giving \ {"removed"}
    BY <1>1 DEF Giving
  <2>6. \A y \in Listening' : y[1] # call[c].o
    BY <1>2, <2>4
  <2>7. QED
    BY <1>1, <2>1, <2>4, <2>5, <2>6, MovesAlong
<1> DEFINE S == {p \in subs : obj[p].at.host = obj[call[c].o].at.host}
<1>3. S \in SUBSET (1..Len(obj)) /\ call[c].o \in S /\ {call[c].o} \in SUBSET (1..Len(obj))
      /\ call[c].o \in {call[c].o}
  BY <1>1
<1>4. Free(c, S) \/ Free(c, {call[c].o})
  BY DEF Frees
<1> HIDE DEF S
<1>5. QED
  BY <1>2, <1>3, <1>4

\* The destructor of a RabbitMQ connection.
LEMMA ErasesMoves ==
  ASSUME SubsTypes, NEW c \in Caller, RabbitMQErase(c)
  PROVE  MovesOn(c)
<1> DEFINE o == call[c].o
           y == [obj[o] EXCEPT !.alive = FALSE, !.clients = <<>>, !.inbox = <<>>]
<1>1. /\ call[c].at = "freeing" /\ o \in 1..Len(obj) /\ obj \in Seq(Object)
      /\ obj[o] \in Object /\ obj' = [obj EXCEPT ![o] = y]
      /\ Back(c, "removed") /\ UNCHANGED <<counter, idMap>>
  BY ObjectFacts DEF RabbitMQErase, SubsTypes, idVars
<1>2. y.clients = <<>>
  BY <1>1 DEF Object
<1> HIDE DEF y
<1>3. /\ Len(obj') = Len(obj)
      /\ \A p \in 1..Len(obj) : IF p \in {o} THEN obj'[p].clients = <<>>
                                ELSE obj'[p].clients = obj[p].clients
  BY <1>1, <1>2
<1>4. Listening' \subseteq Listening /\ \A w \in Listening' : w[1] # o
  <2>1. {o} \in SUBSET (1..Len(obj))
    BY <1>1
  <2>2. QED
    BY <1>3, <2>1, ClearedLists
<1>5. "removed" \in Giving \ {"removing"} /\ call[c].at \in Giving \ {"removed"}
  BY <1>1 DEF Giving
<1>6. QED
  BY <1>1, <1>4, <1>5, MovesAlong

\* An object that is being freed is still the map's; RabbitMQ has no other way
\* to one.
OwnedWhileFreed ==
  kind # "rabbitmq" => \A c \in Caller : call[c].at = "freeing" => call[c].o \in subs

\* The rest of a call draws an id, goes on with giving a listener back, or
\* meets a freed object.
LEMMA CallNextDoes ==
  ASSUME SubsTypes, Sound, OwnedWhileFreed, NEW c \in Caller, CallNext(c)
  PROVE  \/ call[c].at = "adding" /\ Draws(c, call[c].o)
         \/ MovesOn(c)
         \/ Silent
<1>1. CASE Registers(c)
  BY <1>1, RegistersDraws DEF Registers
<1>2. CASE Misuses(c)
  <2>1. obj' = obj /\ subs' = subs /\ call' = call /\ UNCHANGED <<counter, idMap>>
    BY <1>2 DEF Misuses, Misuse, objVars, idVars
  <2>2. Listening' = Listening
    BY <2>1 DEF Listening
  <2>3. QED
    BY <2>1, <2>2 DEF Silent, NoNewListener
<1>3. CASE Frees(c)
  <2>1. call[c].o \in subs
    BY <1>3 DEF Frees, OwnedWhileFreed
  <2>2. QED
    BY <1>3, <2>1, FreesMoves
<1>4. CASE Waits
  <2>1. obj' = obj /\ subs' = subs /\ call' = call /\ UNCHANGED <<counter, idMap>>
    BY <1>4 DEF Waits, objVars, idVars
  <2>2. Listening' = Listening
    BY <2>1 DEF Listening
  <2>3. QED
    BY <2>1, <2>2 DEF Silent, NoNewListener
<1>5. QED
  BY <1>1, <1>2, <1>3, <1>4, CallNextChanges, DropsMoves, StopsMoves, ErasesMoves

\* getOrStartSubscription: an object is found or made, with no listener more.
LEMMA FindOrMakeEnters ==
  ASSUME SubsTypes, NEW c \in Caller, NEW key \in Key, NEW l \in Locator, NEW f \in Filter,
         NEW tp \in Filter, FindOrMake(c, key, l, f, tp)
  PROVE  Enters(c)
<1>1. /\ call[c].at = "out" /\ UNCHANGED <<counter, idMap>> /\ obj \in Seq(Object)
      /\ Len(obj) \in Nat /\ subs \subseteq 1..Len(obj)
  BY ObjectFacts DEF FindOrMake, idVars, SubsTypes
<1>2. ASSUME NEW o \in Nat
      PROVE  [at |-> "adding", o |-> o, id |-> 0, filter |-> f] \in Doings
  BY SubscriptionsAssumption DEF Doings, CallAt, Pointing
<1>3. CASE /\ \E o \in subs : call' = [call EXCEPT ![c] =
                [at |-> "adding", o |-> o, id |-> 0, filter |-> f]]
           /\ UNCHANGED <<subs, obj>>
  <2>1. Listening' = Listening
    BY <1>3 DEF Listening
  <2>2. PICK o \in subs : call' = [call EXCEPT ![c] =
                [at |-> "adding", o |-> o, id |-> 0, filter |-> f]]
    BY <1>3
  <2>3. o \in 1..Len(obj) /\ o \in Nat
    <3>1. o \in 1..Len(obj)
      BY <1>1
    <3>2. QED
      BY <1>1, <3>1
  <2>4. QED
    BY <1>1, <1>2, <1>3, <2>1, <2>2, <2>3 DEF Enters, NoNewListener
<1>4. CASE /\ obj' = Append(obj, Fresh(key, l, tp))
           /\ subs' = subs \cup {Len(obj) + 1}
           /\ call' = [call EXCEPT ![c] =
                [at |-> "adding", o |-> Len(obj) + 1, id |-> 0, filter |-> f]]
  <2> DEFINE y == Fresh(key, l, tp)
             n == Len(obj) + 1
  <2>1. y.clients = <<>> /\ obj' = Append(obj, y)
    BY <1>4 DEF Fresh
  <2> HIDE DEF y
  <2>2. Len(obj') = n /\ obj'[n] = y /\ \A p \in 1..Len(obj) : obj'[p] = obj[p]
    BY <1>1, <2>1
  <2>3. ASSUME NEW w \in Listening'
        PROVE  w \in Listening
    <3>1. w \in (1..n) \X Listener /\ w[1] \in 1..n
      BY <2>2 DEF Listening
    <3>2. PICK p \in DOMAIN obj'[w[1]].clients : obj'[w[1]].clients[p] = w[2]
      BY DEF Listening
    <3>3. w[1] # n
      <4>1. DOMAIN <<>> = {}
        OBVIOUS
      <4>2. QED
        BY <2>1, <2>2, <3>2, <4>1
    <3>4. w[1] \in 1..Len(obj) /\ w \in (1..Len(obj)) \X Listener
      BY <1>1, <3>1, <3>3
    <3>5. QED
      BY <2>2, <3>2, <3>4 DEF Listening
  <2>4. n \in Nat /\ subs \subseteq subs'
    BY <1>1, <1>4
  <2>5. QED
    BY <1>1, <1>2, <1>4, <2>3, <2>4 DEF Enters, NoNewListener
<1>5. QED
  BY <1>3, <1>4 DEF FindOrMake

\* To subscribe is to enter, or to draw an id at once.
LEMMA SubscribeDoes ==
  ASSUME SubsTypes, NEW c \in Caller, NEW s \in Wanted,
         \/ ZeroMQGetOrStart(c, s.loc, s.filter) \/ NNGGetOrStart(c, s.loc, s.filter)
         \/ MulticastGetOrStart(c, s.loc, s.filter) \/ SinglecastGetOrStart(c, s.loc, s.filter)
         \/ RedisGetOrStart(c, s.loc, s.filter) \/ RabbitMQAdd(c, s.loc, s.filter)
         \/ ShmGetOrStart(c, s.loc, s.filter)
  PROVE  Enters(c) \/ (call[c].at = "out" /\ Draws(c, Len(obj) + 1))
<1>1. s.loc \in Locator /\ s.filter \in Filter /\ Every \in Filter
  BY KeysOfWanted
<1>2. CASE ZeroMQGetOrStart(c, s.loc, s.filter)
  BY <1>1, <1>2, KeysOfWanted, FindOrMakeEnters DEF ZeroMQGetOrStart, ZeroMQKey
<1>3. CASE \/ NNGGetOrStart(c, s.loc, s.filter) \/ MulticastGetOrStart(c, s.loc, s.filter)
           \/ SinglecastGetOrStart(c, s.loc, s.filter)
  BY <1>1, <1>3, KeysOfWanted, FindOrMakeEnters DEF NNGGetOrStart, MulticastGetOrStart,
     SinglecastGetOrStart
<1>4. CASE RedisGetOrStart(c, s.loc, s.filter)
  BY <1>1, <1>4, KeysOfWanted, FindOrMakeEnters DEF RedisGetOrStart, RedisKey
<1>5. CASE RabbitMQAdd(c, s.loc, s.filter)
  BY <1>1, <1>5, AddsExchangeDraws DEF AddsExchange
<1>6. CASE ShmGetOrStart(c, s.loc, s.filter)
  BY <1>1, <1>6, KeysOfWanted, FindOrMakeEnters DEF ShmGetOrStart
<1>7. QED
  BY <1>2, <1>3, <1>4, <1>5, <1>6

\* removeSubscriptionClient takes the id out of the map, or removeExchangeSubscription.
LEMMA UnsubscribeDoes ==
  ASSUME SubsTypes, NEW c \in Caller, NEW i \in 0..MaxId, Unsubscribe(c, i)
  PROVE  Gives(c, i)
<1> DEFINE found == {x \in idMap : x[1] = i}
<1>1. /\ idMap \subseteq (1..MaxId) \X (1..Len(obj)) /\ Len(obj) \in Nat
      /\ Every \in Filter /\ {"removed", "removing", "freeing"} \subseteq CallAt
      /\ obj \in Seq(Object)
  BY ObjectFacts DEF SubsTypes, Filter, CallAt, Pointing
<1>2. idMap \ found = {w \in idMap : w[1] # i}
  OBVIOUS
<1>3. [Out EXCEPT !.at = "removed", !.id = i] \in Doings
  BY <1>1 DEF Out, Doings
<1>4. ASSUME NEW x \in found, NEW at \in {"removing", "freeing"}
      PROVE  /\ [Out EXCEPT !.at = at, !.o = x[2], !.id = i] \in Doings
             /\ <<i, x[2]>> \in idMap
  <2>1. x[2] \in Nat /\ x = <<i, x[2]>>
    BY <1>1
  <2>2. QED
    BY <1>1, <2>1 DEF Out, Doings
<1>5. ASSUME TakeId(c, i)
      PROVE  Gives(c, i)
  <2>1. /\ call[c].at = "out" /\ counter' = counter /\ idMap' = idMap \ found
        /\ obj' = obj /\ subs' = subs
        /\ \/ /\ found = {}
              /\ call' = [call EXCEPT ![c] = [Out EXCEPT !.at = "removed", !.id = i]]
           \/ \E x \in found :
                call' = [call EXCEPT ![c] = [Out EXCEPT !.at = "removing", !.o = x[2], !.id = i]]
    BY <1>5 DEF TakeId, objVars
  <2>2. NoNewListener
    BY <2>1 DEF NoNewListener, Listening
  <2>3. CASE /\ found = {}
             /\ call' = [call EXCEPT ![c] = [Out EXCEPT !.at = "removed", !.id = i]]
    <3> DEFINE y == [Out EXCEPT !.at = "removed", !.id = i]
    <3>1. y \in Doings /\ y.at = "removed" /\ y.id = i /\ call' = [call EXCEPT ![c] = y]
      BY <1>3, <2>3 DEF Out
    <3> HIDE DEF y
    <3>2. QED
      BY <1>2, <2>1, <2>2, <2>3, <3>1 DEF Gives
  <2>4. ASSUME NEW x \in found,
               call' = [call EXCEPT ![c] = [Out EXCEPT !.at = "removing", !.o = x[2], !.id = i]]
        PROVE  Gives(c, i)
    <3> DEFINE y == [Out EXCEPT !.at = "removing", !.o = x[2], !.id = i]
    <3>1. /\ y \in Doings /\ y.at = "removing" /\ y.id = i /\ y.o = x[2]
          /\ call' = [call EXCEPT ![c] = y] /\ <<i, x[2]>> \in idMap
      BY <1>4, <2>4 DEF Out
    <3> HIDE DEF y
    <3>2. QED
      BY <1>2, <2>1, <2>2, <3>1 DEF Gives
  <2>5. QED
    BY <2>1, <2>3, <2>4
<1>6. ASSUME RabbitMQRemove(c, i)
      PROVE  Gives(c, i)
  <2>1. /\ call[c].at = "out" /\ counter' = counter /\ idMap' = idMap \ found
        /\ subs' = subs /\ kind = "rabbitmq"
        /\ \/ /\ found = {} /\ obj' = obj
              /\ call' = [call EXCEPT ![c] = [Out EXCEPT !.at = "removed", !.id = i]]
           \/ \E x \in found :
                /\ call' = [call EXCEPT ![c] = [Out EXCEPT !.at = "freeing", !.o = x[2], !.id = i]]
                /\ obj' = [obj EXCEPT ![x[2]].running = FALSE]
    BY <1>6 DEF RabbitMQRemove, RabbitMQ
  <2>2. CASE /\ found = {} /\ obj' = obj
             /\ call' = [call EXCEPT ![c] = [Out EXCEPT !.at = "removed", !.id = i]]
    <3> DEFINE y == [Out EXCEPT !.at = "removed", !.id = i]
    <3>1. y \in Doings /\ y.at = "removed" /\ y.id = i /\ call' = [call EXCEPT ![c] = y]
      BY <1>3, <2>2 DEF Out
    <3>2. NoNewListener
      BY <2>1, <2>2 DEF NoNewListener, Listening
    <3> HIDE DEF y
    <3>3. QED
      BY <1>2, <2>1, <2>2, <3>1, <3>2 DEF Gives
  <2>3. ASSUME NEW x \in found, obj' = [obj EXCEPT ![x[2]].running = FALSE],
               call' = [call EXCEPT ![c] = [Out EXCEPT !.at = "freeing", !.o = x[2], !.id = i]]
        PROVE  Gives(c, i)
    <3> DEFINE y == [Out EXCEPT !.at = "freeing", !.o = x[2], !.id = i]
    <3>1. /\ y \in Doings /\ y.at = "freeing" /\ y.id = i /\ y.o = x[2]
          /\ call' = [call EXCEPT ![c] = y] /\ <<i, x[2]>> \in idMap
      BY <1>4, <2>3 DEF Out
    <3>2. x[2] \in 1..Len(obj)
      BY <1>1
    <3>3. \A p \in 1..Len(obj) : obj'[p].clients = obj[p].clients /\ Len(obj') = Len(obj)
      <4>1. obj[x[2]] \in Object
        BY <1>1, <3>2
      <4>2. [obj[x[2]] EXCEPT !.running = FALSE].clients = obj[x[2]].clients
        BY <4>1 DEF Object
      <4>3. QED
        BY <1>1, <2>3, <3>2, <4>2
    <3>4. NoNewListener
      <4>1. Listening' \subseteq Listening
        BY <3>2, <3>3, ListsKept
      <4>2. QED
        BY <2>1, <4>1 DEF NoNewListener
    <3> HIDE DEF y
    <3>5. QED
      BY <1>2, <2>1, <3>1, <3>4 DEF Gives
  <2>4. QED
    BY <2>1, <2>2, <2>3
<1>7. QED
  BY <1>5, <1>6 DEF Unsubscribe, ZeroMQRemoveClient, NNGRemoveClient, MulticastRemoveClient,
     SinglecastRemoveClient, RedisRemoveClient, ShmRemoveClient

\* The caller has its result.
LEMMA ReturnsLeaves ==
  ASSUME SubsTypes, NEW c \in Caller, Returns(c)
  PROVE  Leaves(c)
BY ReturnsIsInert, InertListens DEF Returns, Leaves

\* Threads and publishers that leave every call as it is are silent.
LEMMA InertIsSilent ==
  ASSUME Inert, call' = call
  PROVE  Silent
BY InertListens DEF Silent

\* The queues in shared memory, where a caller without a role appends.
LEMMA ShmTakeQueueIsSilent ==
  ASSUME SubsTypes, Shm, NEW o \in 1..Len(obj), ShmTakeQueue(o)
  PROVE  Silent
<1>1. Inert
  BY ShmStepsAreInert DEF ShmSteps
<1>2. ASSUME NEW d \in Caller
      PROVE  \/ call'[d] = call[d]
             \/ call[d].at = "publishing" /\ call'[d].at = "late"
  <2>1. call[d] \in Doings
    BY DEF SubsTypes
  <2>2. call'[d] = IF call[d].at = "publishing" /\ call[d].o = o
                   THEN [call[d] EXCEPT !.at = "late"] ELSE call[d]
    BY DEF ShmTakeQueue
  <2>3. [call[d] EXCEPT !.at = "late"].at = "late"
    BY <2>1 DEF Doings
  <2>4. QED
    BY <2>2, <2>3
<1>3. QED
  BY <1>1, <1>2, InertListens DEF Silent

\* A caller without a role reads the tail of a queue, and appends to it.
LEMMA ShmPublishIsSilent ==
  ASSUME SubsTypes, Shm, NEW c \in Caller, role[c] = "idle",
         \/ \E o \in 1..Len(obj) : ShmReadTail(c, o)
         \/ \E tp \in Topic : ShmAppend(c, tp)
  PROVE  Silent
<1>1. Inert
  BY ShmStepsAreInert DEF ShmSteps
<1>2. call \in [Caller -> Doings] /\ call[c].at \in {"out", "publishing", "late"}
  BY DEF SubsTypes, ShmReadTail, ShmAppend
<1>3. CASE \E o \in 1..Len(obj) : ShmReadTail(c, o)
  <2>1. PICK o \in 1..Len(obj) : ShmReadTail(c, o)
    BY <1>3
  <2> DEFINE x == [Out EXCEPT !.at = "publishing", !.o = o]
  <2>2. call' = [call EXCEPT ![c] = x] /\ x.at = "publishing"
    BY <2>1 DEF ShmReadTail, Out
  <2> HIDE DEF x
  <2>3. call'[c].at = "publishing" /\ \A d \in Caller : d # c => call'[d] = call[d]
    BY <1>2, <2>2
  <2>4. QED
    BY <1>1, <1>2, <2>3, InertListens DEF Silent
<1>4. CASE \E tp \in Topic : ShmAppend(c, tp)
  <2>1. call' = [call EXCEPT ![c] = Out] /\ Out.at = "out"
    BY <1>4 DEF ShmAppend, Out
  <2>2. call'[c].at = "out" /\ \A d \in Caller : d # c => call'[d] = call[d]
    BY <1>2, <2>1
  <2>3. QED
    BY <1>1, <1>2, <2>2, InertListens DEF Silent
<1>5. QED
  BY <1>3, <1>4

\* The thread of a subscription.
LEMMA ThreadNextIsSilent ==
  ASSUME SubsTypes, NEW o \in 1..Len(obj), ThreadNext(o)
  PROVE  Silent
<1>1. ThreadStep(o)
  BY DEF ThreadNext
<1>2. ASSUME ThreadSteps(o)
      PROVE  Silent
  <2>1. Inert
    BY <1>2, ThreadStepsAreInert
  <2>2. call' = call
    BY <1>2 DEF ThreadSteps, NNGRedial, Receive, ThreadEnds, HandOut, Set
  <2>3. QED
    BY <2>1, <2>2, InertIsSilent
<1>3. CASE \/ ZeroMQRun(o) \/ NNGRun(o) \/ MulticastHandleReceive(o)
           \/ SinglecastHandleReceive(o) \/ RedisRun(o) \/ RabbitMQRun(o)
  <2>1. CASE ZeroMQRun(o) \/ NNGRun(o) \/ RedisRun(o) \/ RabbitMQRun(o)
    <3>1. Copying
      BY <2>1 DEF ZeroMQRun, NNGRun, RedisRun, RabbitMQRun, ZeroMQ, NNG, Redis, RabbitMQ, Copying
    <3>2. QED
      BY <1>2, <2>1, <3>1 DEF ZeroMQRun, NNGRun, RedisRun, RabbitMQRun, ThreadSteps
  <2>2. CASE MulticastHandleReceive(o) \/ SinglecastHandleReceive(o)
    <3>1. ~Copying
      BY <2>2 DEF MulticastHandleReceive, SinglecastHandleReceive, Multicast, Singlecast, Copying
    <3>2. QED
      BY <1>2, <2>2, <3>1 DEF MulticastHandleReceive, SinglecastHandleReceive, ThreadSteps
  <2>3. QED
    BY <1>3, <2>1, <2>2
<1>4. CASE ShmRun(o)
  <2>1. Shm
    BY <1>4 DEF ShmRun
  <2>2. CASE ShmTakeQueue(o)
    BY <2>1, <2>2, ShmTakeQueueIsSilent
  <2>3. CASE ShmHandleData(o)
    <3>1. Inert
      BY <2>1, <2>3, ShmStepsAreInert DEF ShmSteps
    <3>2. call' = call
      BY <2>3 DEF ShmHandleData, HandOut, Set
    <3>3. QED
      BY <3>1, <3>2, InertIsSilent
  <2>4. CASE ThreadEnds(o)
    BY <1>2, <2>4 DEF ThreadSteps
  <2>5. QED
    BY <1>4, <2>2, <2>3, <2>4 DEF ShmRun
<1>5. QED
  BY <1>1, <1>3, <1>4 DEF ThreadStep

\* Publishing.
LEMMA ExporterNextIsSilent ==
  ASSUME SubsTypes, ExporterNext
  PROVE  Silent
<1>1. ExporterStep
  BY DEF ExporterNext
<1>2. ASSUME NEW l \in Exported, Open(l)
      PROVE  Silent
  <2>1. Inert /\ call' = call
    BY <1>2, NodesAssumption, OpenIsInert DEF Open
  <2>2. QED
    BY <2>1, InertIsSilent
<1>3. ASSUME NEW l \in Exported, NEW tp \in Topic, NEW To \in SUBSET subs, Send(l, tp, To)
      PROVE  Silent
  <2>1. Sends
    BY <1>3, NodesAssumption DEF Sends
  <2>2. Inert /\ call' = call
    BY <1>3, <2>1, SendsIsInert DEF Send
  <2>3. QED
    BY <2>2, InertIsSilent
<1>4. CASE ZeroMQExporter
  BY <1>2, <1>3, <1>4 DEF ZeroMQExporter, Exports, ZeroMQGetOrStartSender, ZeroMQPublish
<1>5. CASE NNGExporter
  BY <1>2, <1>3, <1>5 DEF NNGExporter, Exports, NNGGetOrStartSender, NNGPublish
<1>6. CASE MulticastExporter
  BY <1>2, <1>3, <1>6 DEF MulticastExporter, Exports, MulticastGetOrStartSender, MulticastPublish
<1>7. CASE SinglecastExporter
  BY <1>2, <1>3, <1>7 DEF SinglecastExporter, Exports, SinglecastGetOrStartSender,
     SinglecastPublish
<1>8. CASE RedisExporter
  BY <1>2, <1>3, <1>8 DEF RedisExporter, Exports, RedisGetOrStartSender, RedisPublish
<1>9. CASE RabbitMQExporter
  <2>1. PICK l \in Exported : \/ RabbitMQPublishingConnection(l)
                              \/ \E tp \in Topic : RabbitMQPublish(l, tp)
    BY <1>9 DEF RabbitMQExporter, Exports
  <2>2. CASE RabbitMQPublishingConnection(l)
    BY <1>2, <2>2 DEF RabbitMQPublishingConnection
  <2>3. ASSUME NEW tp \in Topic, RabbitMQPublish(l, tp)
        PROVE  Silent
    <3> DEFINE To == {o \in subs : obj[o].at = l /\ Matches(obj[o].topic, tp)}
    <3>1. Send(l, tp, To) /\ To \in SUBSET subs
      BY <2>3 DEF RabbitMQPublish
    <3> HIDE DEF To
    <3>2. QED
      BY <1>3, <3>1
  <2>4. QED
    BY <2>1, <2>2, <2>3
<1>10. CASE ShmExporter
  <2>1. CASE \E l \in Exported : ShmGetOrStartSender(l)
    BY <1>2, <2>1 DEF ShmGetOrStartSender
  <2>2. CASE \E o \in 1..Len(obj) : ShmDropStale(o)
    <3>1. Inert /\ call' = call
      BY <2>2, ShmStepsAreInert DEF ShmDropStale, ShmSteps
    <3>2. QED
      BY <3>1, InertIsSilent
  <2>3. ASSUME NEW c \in Caller, role[c] = "idle",
               \/ \E o \in 1..Len(obj) : ShmReadTail(c, o)
               \/ \E tp \in Topic : ShmAppend(c, tp)
        PROVE  Silent
    <3>1. Shm
      BY <2>3 DEF ShmReadTail, ShmAppend
    <3>2. QED
      BY <2>3, <3>1, ShmPublishIsSilent
  <2>4. QED
    BY <1>10, <2>1, <2>2, <2>3 DEF ShmExporter
<1>11. QED
  BY <1>1, <1>4, <1>5, <1>6, <1>7, <1>8, <1>9, <1>10 DEF ExporterStep

-----------------------------------------------------------------------------
(* Who uses the component.                                                 *)

\* The facility, with a thread that handles requests and one that carries out
\* commands, or any number of importers, exporters and fetches.
FacilityAlone(r) ==
  /\ \A c \in Caller : r[c] \in {"handler", "control", "idle"}
  /\ \A c, d \in Caller : r[c] = r[d] /\ r[c] # "idle" => c = d

NodesAlone(r) == \A c \in Caller : r[c] \in {"importer", "fetcher", "reaper", "idle"}

OneUser == \A s \in Scenario : FacilityAlone(s.role) \/ NodesAlone(s.role)

-----------------------------------------------------------------------------
(* The inductive invariant of the facility.                                *)

\* What a thread of the facility is doing, and where its call is.
Fits(c) ==
  /\ task[c].op = "adding" => call[c].at \in {"adding", "added"}
  /\ task[c].op = "removing" => call[c].at \in Giving
  /\ task[c].op = "taking" => call[c].at \in {"out"} \cup Giving
  /\ task[c].op \notin {"adding", "removing", "taking"} => call[c].at = "out"
  /\ task[c].op = "taking" <=> holder = c
  /\ role[c] = "handler" => task[c].op \notin {"restart", "readd"} /\ task[c].specs = {}
  /\ role[c] = "control" => task[c].op \notin {"note", "remove", "removing", "forget"}
  /\ task[c].op \in {"restart", "readd", "add", "adding"} \/ task[c].specs = {}

\* An id is for one specification, wherever it is written.
IsEntry(i, s) ==
  i # 0 /\ (<<i, s>> \in told \/ <<i, s>> \in registered \/ <<s, i>> \in restartInfo)

EntriesAgree ==
  /\ \A i \in 0..MaxId, s \in Wanted : IsEntry(i, s) =>
       /\ i <= counter
       /\ \A t \in Wanted : IsEntry(i, t) => s = t
       /\ \A c \in Caller : call[c].at = "added" => call[c].id # i
  /\ \A c \in Caller : call[c].at = "added" => call[c].id \in 1..counter
  /\ \A c, d \in Caller :
       call[c].at = "added" /\ call[d].at = "added" /\ call[c].id = call[d].id => c = d

\* The facility has the id, or is just getting it.
IsKnown(i) ==
  \/ \E r \in registered : r[1] = i
  \/ \E c \in Caller : call[c].at = "added" /\ call[c].id = i

\* An id to remove was told, and when the call is on its way it has left the
\* component's map; so have those that removeAll has given back.
Awaits(c) ==
  /\ task[c].op \in {"remove", "forget", "removing"} => \E p \in told : p[1] = task[c].id
  /\ task[c].op = "removing" => \A x \in idMap : x[1] # task[c].id
  /\ task[c].op = "taking" => \A r \in registered : r[1] \in task[c].ids
                                                     \/ \A x \in idMap : x[1] # r[1]

\* Somebody will see to a specification.
IsCovered(s) ==
  \/ \E r \in registered : r[2] = s
  \/ \E x \in restartInfo : x[1] = s
  \/ \E c \in Caller : s \in task[c].specs
  \/ \E c \in Caller : task[c].op \in {"add", "adding", "note"} /\ task[c].spec = s

\* What is being removed is not kept; to stop is to write down what is taken.
Withholds(c) ==
  /\ role[c] = "handler" /\ task[c].op \in {"remove", "removing", "forget"}
       => \A s \in kept : <<task[c].id, s>> \notin told
  /\ role[c] = "handler" /\ task[c].op \in {"removeAll", "taking"} => kept = {}
  /\ role[c] = "control" /\ task[c].op \in {"removeAll", "taking"} => stopped

FacilityInv ==
  /\ told \subseteq (1..MaxId) \X Wanted /\ kept \subseteq Wanted
  /\ EntriesAgree
  /\ \A x \in idMap : IsKnown(x[1])
  /\ \A s \in kept : IsCovered(s)
  /\ \A c \in Caller : Serving(c) => Fits(c) /\ Awaits(c) /\ Withholds(c)

FacilityState == SubsTypes /\ FacilityTypes /\ FacilityAlone(role) /\ FacilityInv

\* The other thread of the facility stays where it is.
Others(c) == \A d \in Caller \ {c} : task'[d] = task[d] /\ call'[d] = call[d]

\* It is not disturbed by a step that draws no id it has seen, takes nothing
\* from it and respects subscriptionsMutex_.
LEMMA OthersKeep ==
  ASSUME FacilityState, NEW c \in Caller, Others(c), role' = role,
         \A x \in idMap' : x \in idMap \/ x[1] > counter,
         holder' = holder \/ {holder, holder'} \subseteq {Nobody, c},
         registered' \subseteq registered \/ holder = Nobody,
         told' = told \/ (role[c] = "handler" /\ told \subseteq told'),
         kept' = kept \/ role[c] = "handler",
         stopped' = stopped \/ role[c] = "control"
  PROVE  \A d \in Caller \ {c} : Serving(d)' => Fits(d)' /\ Awaits(d)' /\ Withholds(d)'
<1> SUFFICES ASSUME NEW d \in Caller \ {c}, Serving(d)
             PROVE  Fits(d)' /\ Awaits(d)' /\ Withholds(d)'
  BY DEF Serving
<1>1. /\ task'[d] = task[d] /\ call'[d] = call[d] /\ d # c /\ d # Nobody
      /\ Fits(d) /\ Awaits(d) /\ Withholds(d)
  BY SubscriptionsAssumption DEF Others, FacilityState, FacilityInv
<1>2. holder' = d <=> holder = d
  BY <1>1
<1>3. Fits(d)'
  BY <1>1, <1>2 DEF Fits
<1>4. counter \in Nat /\ told \subseteq (1..MaxId) \X Wanted
      /\ registered \subseteq (0..MaxId) \X Wanted
  BY DEF FacilityState, FacilityInv, SubsTypes, FacilityTypes
<1>5. ASSUME NEW r \in registered
      PROVE  r[1] <= counter
  <2>1. r[1] \in 0..MaxId /\ r[2] \in Wanted /\ r = <<r[1], r[2]>>
    BY <1>4
  <2>2. CASE r[1] = 0
    BY <1>4, <2>2
  <2>3. CASE r[1] # 0
    <3>1. IsEntry(r[1], r[2])
      BY <2>1, <2>3 DEF IsEntry
    <3>2. QED
      BY <2>1, <3>1 DEF FacilityState, FacilityInv, EntriesAgree
  <2>4. QED
    BY <2>2, <2>3
<1>6. ASSUME NEW p \in told
      PROVE  p[1] <= counter
  <2>1. p[1] \in 0..MaxId /\ p[1] # 0 /\ p[2] \in Wanted /\ p = <<p[1], p[2]>>
    BY <1>4
  <2>2. IsEntry(p[1], p[2])
    BY <2>1 DEF IsEntry
  <2>3. QED
    BY <2>1, <2>2 DEF FacilityState, FacilityInv, EntriesAgree
<1>7. told \subseteq told'
  OBVIOUS
<1>8. Awaits(d)'
  <2>1. task[d].op \in {"remove", "forget", "removing"} => \E p \in told' : p[1] = task[d].id
    BY <1>1, <1>7 DEF Awaits
  <2>2. ASSUME task[d].op = "removing", NEW x \in idMap'
        PROVE  x[1] # task[d].id
    <3>1. PICK p \in told : p[1] = task[d].id
      BY <1>1, <2>2 DEF Awaits
    <3>2. CASE x \in idMap
      BY <1>1, <2>2, <3>2 DEF Awaits
    <3>3. CASE x[1] > counter
      <4>1. p[1] \in Nat
        BY <1>4
      <4>2. p[1] <= counter
        BY <1>6
      <4>3. x[1] # p[1]
        BY <1>4, <3>3, <4>1, <4>2
      <4>4. QED
        BY <3>1, <4>3
    <3>4. QED
      BY <3>2, <3>3
  <2>3. ASSUME task[d].op = "taking", NEW r \in registered', r[1] \notin task[d].ids,
               NEW x \in idMap'
        PROVE  x[1] # r[1]
    <3>1. holder = d
      BY <1>1, <2>3 DEF Fits
    <3>2. r \in registered
      BY <1>1, <3>1
    <3>3. CASE x \in idMap
      BY <1>1, <2>3, <3>2, <3>3 DEF Awaits
    <3>4. CASE x[1] > counter
      <4>1. r[1] \in Nat /\ r[1] <= counter
        BY <1>4, <1>5, <3>2
      <4>2. QED
        BY <1>4, <3>4, <4>1
    <3>5. QED
      BY <3>3, <3>4
  <2>4. QED
    BY <1>1, <2>1, <2>2, <2>3 DEF Awaits
<1>9. Withholds(d)'
  <2>1. CASE role[d] = "handler"
    <3>1. role[c] # "handler"
      BY <1>1, <2>1 DEF FacilityState, FacilityAlone
    <3>2. kept' = kept /\ told' = told
      BY <3>1
    <3>3. QED
      BY <1>1, <2>1, <3>2 DEF Withholds
  <2>2. CASE role[d] = "control"
    <3>1. role[c] # "control"
      BY <1>1, <2>2 DEF FacilityState, FacilityAlone
    <3>2. QED
      BY <1>1, <2>2, <3>1 DEF Withholds
  <2>3. QED
    BY <2>1, <2>2 DEF Serving
<1>10. QED
  BY <1>3, <1>8, <1>9

\* Entries go on agreeing while none is new and none is drawn.
LEMMA EntriesStay ==
  ASSUME EntriesAgree, counter' = counter,
         \A i \in 0..MaxId, s \in Wanted : IsEntry(i, s)' => IsEntry(i, s),
         \A d \in Caller : call'[d].at = "added" => call'[d] = call[d]
  PROVE  EntriesAgree'
<1>1. ASSUME NEW i \in 0..MaxId, NEW s \in Wanted, IsEntry(i, s)'
      PROVE  /\ i <= counter'
             /\ \A t \in Wanted : IsEntry(i, t)' => s = t
             /\ \A c \in Caller : call'[c].at = "added" => call'[c].id # i
  BY <1>1 DEF EntriesAgree
<1>2. \A c \in Caller : call'[c].at = "added" => call'[c].id \in 1..counter'
  BY DEF EntriesAgree
<1>3. \A c, d \in Caller :
        call'[c].at = "added" /\ call'[d].at = "added" /\ call'[c].id = call'[d].id => c = d
  BY DEF EntriesAgree
<1>4. QED
  BY <1>1, <1>2, <1>3 DEF EntriesAgree

\* An id that is drawn is for nothing yet.
LEMMA DrawsAnEntry ==
  ASSUME FacilityState, NEW c \in Caller, call[c].at # "added", NEW o, Draws(c, o),
         UNCHANGED <<registered, restartInfo, told>>
  PROVE  /\ EntriesAgree' /\ \A y \in idMap' : IsKnown(y[1])'
         /\ \A y \in idMap' : y \in idMap \/ y[1] > counter
         /\ call'[c].at = "added" /\ \A d \in Caller : d # c => call'[d] = call[d]
<1> DEFINE x == [Out EXCEPT !.at = "added", !.id = counter + 1]
           i == counter + 1
<1>1. /\ counter' = i /\ idMap' = idMap \cup {<<i, o>>} /\ call' = [call EXCEPT ![c] = x]
      /\ call \in [Caller -> Doings] /\ counter \in Nat
  BY DEF Draws, FacilityState, SubsTypes
<1>2. x.at = "added" /\ x.id = i
  BY DEF Out
<1> HIDE DEF x
<1>3. call'[c] = x /\ \A d \in Caller : d # c => call'[d] = call[d]
  BY <1>1
<1>4. \A j, s : IsEntry(j, s)' = IsEntry(j, s)
  BY DEF IsEntry
<1>5. EntriesAgree'
  <2>1. ASSUME NEW j \in 0..MaxId, NEW s \in Wanted, IsEntry(j, s)'
        PROVE  /\ j <= counter'
               /\ \A t \in Wanted : IsEntry(j, t)' => s = t
               /\ \A d \in Caller : call'[d].at = "added" => call'[d].id # j
    <3>1. IsEntry(j, s) /\ j \in Nat
      BY <1>4, <2>1
    <3>2. j <= counter /\ j < i
      BY <1>1, <3>1 DEF FacilityState, FacilityInv, EntriesAgree
    <3>3. \A t \in Wanted : IsEntry(j, t)' => s = t
      BY <1>4, <3>1 DEF FacilityState, FacilityInv, EntriesAgree
    <3>4. \A d \in Caller : call'[d].at = "added" => call'[d].id # j
      BY <1>2, <1>3, <3>1, <3>2 DEF FacilityState, FacilityInv, EntriesAgree
    <3>5. QED
      BY <1>1, <3>2, <3>3, <3>4
  <2>2. \A d \in Caller \ {c} : call'[d].at = "added" => call'[d].id \in 1..counter
    BY <1>3 DEF FacilityState, FacilityInv, EntriesAgree
  <2>3. \A d \in Caller : call'[d].at = "added" => call'[d].id \in 1..counter'
    BY <1>1, <1>2, <1>3, <2>2
  <2>4. ASSUME NEW d \in Caller, NEW e \in Caller, call'[d].at = "added",
               call'[e].at = "added", call'[d].id = call'[e].id
        PROVE  d = e
    <3>1. CASE d # c /\ e # c
      BY <1>3, <2>4, <3>1 DEF FacilityState, FacilityInv, EntriesAgree
    <3>2. CASE d = c \/ e = c
      BY <1>1, <1>2, <1>3, <2>2, <2>4, <3>2
    <3>3. QED
      BY <3>1, <3>2
  <2>5. QED
    BY <2>1, <2>3, <2>4 DEF EntriesAgree
<1>6. ASSUME NEW y \in idMap'
      PROVE  IsKnown(y[1])'
  <2>1. CASE y \in idMap
    <3>1. IsKnown(y[1])
      BY <2>1 DEF FacilityState, FacilityInv
    <3>2. \A d \in Caller : call[d].at = "added" => call'[d] = call[d]
      BY <1>3
    <3>3. QED
      BY <3>1, <3>2 DEF IsKnown
  <2>2. CASE y[1] = i
    BY <1>2, <1>3, <2>2 DEF IsKnown
  <2>3. QED
    BY <1>1, <2>1, <2>2
<1>7. \A y \in idMap' : y \in idMap \/ y[1] > counter
  BY <1>1
<1>8. QED
  BY <1>2, <1>3, <1>5, <1>6, <1>7

\* A step of the component leaves the facility's own state alone.
LEMMA ComponentKeepsFacility ==
  ASSUME FacilityState, UNCHANGED <<role, listenerVars>>,
         \/ Silent
         \/ \E c \in Caller : MovesOn(c)
         \/ \E c \in Caller : call[c].at = "adding" /\ Draws(c, call[c].o)
  PROVE  FacilityInv'
<1>1. /\ UNCHANGED <<role, registered, restartInfo, stopped, holder, task, told, kept>>
      /\ call \in [Caller -> Doings] /\ counter \in Nat
      /\ \A c \in Caller : Serving(c) => Fits(c) /\ Awaits(c) /\ Withholds(c)
  BY DEF listenerVars, FacilityState, FacilityInv, SubsTypes
<1>2. \A i, s : IsEntry(i, s)' = IsEntry(i, s)
  BY <1>1 DEF IsEntry
<1>3. \A s : IsCovered(s)' = IsCovered(s)
  BY <1>1 DEF IsCovered
<1>4. \A d \in Caller : Withholds(d)' = Withholds(d) /\ Serving(d)' = Serving(d)
  BY <1>1 DEF Withholds, Serving
<1>5. \A s \in kept' : IsCovered(s)'
  BY <1>1, <1>3 DEF FacilityState, FacilityInv
<1>6. told' \subseteq (1..MaxId) \X Wanted /\ kept' \subseteq Wanted
  BY <1>1 DEF FacilityState, FacilityInv
<1>7. ASSUME EntriesAgree', \A x \in idMap' : IsKnown(x[1])',
             \A d \in Caller : Serving(d) => Fits(d)' /\ Awaits(d)'
      PROVE  FacilityInv'
  BY <1>1, <1>4, <1>5, <1>6, <1>7 DEF FacilityInv
<1>8. CASE Silent
  <2>1. \A d \in Caller : Serving(d) => call'[d] = call[d]
    <3>1. ASSUME NEW d \in Caller, Serving(d), call'[d] # call[d]
          PROVE  FALSE
      <4>1. call[d].at = "publishing"
        BY <1>8, <3>1 DEF Silent, Serving
      <4>2. call[d].at # "publishing"
        BY <1>1, <3>1 DEF Fits, Giving
      <4>3. QED
        BY <4>1, <4>2
    <3>2. QED
      BY <3>1
  <2>2. UNCHANGED <<counter, idMap>> /\ \A d \in Caller : call'[d].at = "added" => call'[d] = call[d]
    BY <1>8 DEF Silent
  <2>3. \A d \in Caller : call[d].at = "added" => call'[d] = call[d]
    BY <1>8 DEF Silent
  <2>4. EntriesAgree'
    BY <1>2, <2>2, EntriesStay DEF FacilityState, FacilityInv
  <2>5. \A x \in idMap' : IsKnown(x[1])'
    BY <1>1, <2>2, <2>3 DEF IsKnown, FacilityState, FacilityInv
  <2>6. \A d \in Caller : Serving(d) => Fits(d)' /\ Awaits(d)'
    BY <1>1, <2>1, <2>2 DEF Fits, Awaits
  <2>7. QED
    BY <1>7, <2>4, <2>5, <2>6
<1>9. ASSUME NEW c \in Caller, MovesOn(c)
      PROVE  FacilityInv'
  <2>1. PICK x \in Doings : /\ call' = [call EXCEPT ![c] = x] /\ x.id = call[c].id
                            /\ x.at \in Giving \ {"removing"}
    BY <1>9 DEF MovesOn
  <2>2. call'[c] = x /\ \A d \in Caller : d # c => call'[d] = call[d]
    BY <1>1, <2>1
  <2>3. UNCHANGED <<counter, idMap>> /\ call[c].at \in {"removing", "stopping", "freeing"}
    BY <1>9 DEF MovesOn, Giving
  <2>4. \A d \in Caller : call'[d].at = "added" => call'[d] = call[d]
    BY <2>1, <2>2 DEF Giving
  <2>5. EntriesAgree'
    BY <1>2, <2>3, <2>4, EntriesStay DEF FacilityState, FacilityInv
  <2>6. \A d \in Caller : call[d].at = "added" => call'[d] = call[d]
    BY <2>2, <2>3
  <2>7. \A y \in idMap' : IsKnown(y[1])'
    BY <1>1, <2>3, <2>6 DEF IsKnown, FacilityState, FacilityInv
  <2>8. ASSUME NEW d \in Caller, Serving(d)
        PROVE  Fits(d)' /\ Awaits(d)'
    <3>1. Awaits(d)'
      BY <1>1, <2>3, <2>8 DEF Awaits
    <3>2. CASE d # c
      BY <1>1, <2>2, <2>8, <3>1, <3>2 DEF Fits
    <3>3. CASE d = c
      <4>1. task[c].op \in {"removing", "taking"}
        BY <1>1, <2>3, <2>8, <3>3 DEF Fits
      <4>2. call'[c].at \in Giving
        BY <2>1, <2>2
      <4>3. Fits(c)'
        BY <1>1, <2>8, <3>3, <4>1, <4>2 DEF Fits
      <4>4. QED
        BY <3>1, <3>3, <4>3
    <3>4. QED
      BY <3>2, <3>3
  <2>9. QED
    BY <1>7, <2>5, <2>7, <2>8
<1>10. ASSUME NEW c \in Caller, call[c].at = "adding", Draws(c, call[c].o)
       PROVE  FacilityInv'
  <2>1. /\ EntriesAgree' /\ \A y \in idMap' : IsKnown(y[1])'
        /\ \A y \in idMap' : y \in idMap \/ y[1] > counter
        /\ call'[c].at = "added" /\ \A d \in Caller : d # c => call'[d] = call[d]
    BY <1>1, <1>10, DrawsAnEntry
  <2>2. \A d \in Caller \ {c} : Serving(d)' => Fits(d)' /\ Awaits(d)' /\ Withholds(d)'
    <3>1. Others(c)
      BY <1>1, <2>1 DEF Others
    <3>2. QED
      BY <1>1, <2>1, <3>1, OthersKeep
  <2>3. ASSUME Serving(c)
        PROVE  Fits(c)' /\ Awaits(c)'
    <3>1. task[c].op = "adding"
      BY <1>1, <1>10, <2>3 DEF Fits, Giving
    <3>2. QED
      BY <1>1, <2>1, <2>3, <3>1 DEF Fits, Awaits
  <2>4. \A d \in Caller : Serving(d) => Fits(d)' /\ Awaits(d)'
    BY <1>4, <2>2, <2>3
  <2>5. QED
    BY <1>7, <2>1, <2>4
<1>11. QED
  BY <1>8, <1>9, <1>10

\* What is left to show of a step of one of the facility's threads.
LEMMA TurnKeeps ==
  ASSUME FacilityState, NEW c \in Caller, Others(c), role' = role,
         \A x \in idMap' : x \in idMap \/ x[1] > counter,
         holder' = holder \/ {holder, holder'} \subseteq {Nobody, c},
         registered' \subseteq registered \/ holder = Nobody,
         told' = told \/ (role[c] = "handler" /\ told \subseteq told'),
         kept' = kept \/ role[c] = "handler",
         stopped' = stopped \/ role[c] = "control",
         told' \subseteq (1..MaxId) \X Wanted /\ kept' \subseteq Wanted,
         EntriesAgree', \A x \in idMap' : IsKnown(x[1])', \A s \in kept' : IsCovered(s)',
         Fits(c)' /\ Awaits(c)' /\ Withholds(c)'
  PROVE  FacilityInv'
<1>1. \A d \in Caller \ {c} : Serving(d)' => Fits(d)' /\ Awaits(d)' /\ Withholds(d)'
  BY OthersKeep
<1>2. \A d \in Caller : Serving(d)' => Fits(d)' /\ Awaits(d)' /\ Withholds(d)'
  BY <1>1
<1>3. QED
  BY <1>2 DEF FacilityInv

\* Nothing of the component's changes: what is left when the thread gets
\* another task.
LEMMA TaskChanges ==
  ASSUME FacilityState, NEW c \in Caller, Serving(c), NEW t,
         task' = [task EXCEPT ![c] = t], UNCHANGED <<subsVars, role>>,
         holder' = holder \/ {holder, holder'} \subseteq {Nobody, c},
         registered' \subseteq registered, told' = told,
         kept' = kept \/ role[c] = "handler",
         stopped' = stopped \/ role[c] = "control",
         kept' \subseteq Wanted,
         \A i \in 0..MaxId, s \in Wanted : IsEntry(i, s)' => IsEntry(i, s),
         \A x \in idMap : IsKnown(x[1])', \A s \in kept' : IsCovered(s)',
         task'[c] = t /\ (\A d \in Caller : d # c => task'[d] = task[d])
           => Fits(c)' /\ Awaits(c)' /\ Withholds(c)'
  PROVE  FacilityInv'
<1>1. /\ call' = call /\ UNCHANGED <<counter, idMap>> /\ task \in [Caller -> Task]
      /\ told \subseteq (1..MaxId) \X Wanted
  BY DEF FacilityState, FacilityInv, FacilityTypes, subsVars, idVars
<1>2. task'[c] = t /\ \A d \in Caller : d # c => task'[d] = task[d]
  BY <1>1
<1>3. Others(c)
  BY <1>1, <1>2 DEF Others
<1>4. EntriesAgree'
  BY <1>1, EntriesStay DEF FacilityState, FacilityInv
<1>5. \A x \in idMap' : x \in idMap \/ x[1] > counter
  BY <1>1
<1>6. \A x \in idMap' : IsKnown(x[1])'
  BY <1>1
<1>7. QED
  BY <1>1, <1>2, <1>3, <1>4, <1>5, <1>6, TurnKeeps

\* Somebody goes on seeing to a specification while no task with one is given up.
LEMMA CoverStays ==
  ASSUME NEW s, IsCovered(s), NEW c \in Caller, Others(c),
         registered \subseteq registered', restartInfo \subseteq restartInfo',
         s \in task[c].specs => s \in task'[c].specs \/ (task'[c].op = "add" /\ task'[c].spec = s),
         task[c].op \in {"add", "adding", "note"} /\ task[c].spec = s
           => task'[c].op \in {"add", "adding", "note"} /\ task'[c].spec = s
  PROVE  IsCovered(s)'
<1>1. \A d \in Caller : d # c => task'[d] = task[d]
  BY DEF Others
<1>2. QED
  BY <1>1 DEF IsCovered

\* A request to add (actuallyHandle, AddSubscription).
LEMMA AskToAddKeeps ==
  ASSUME FacilityState, NEW c \in Caller, NEW s \in Wanted, AskToAdd(c, s)
  PROVE  FacilityInv'
<1> DEFINE t == [Idle EXCEPT !.op = IF stopped THEN "note" ELSE "add", !.spec = s]
<1>1. /\ role[c] = "handler" /\ task[c].op = "idle" /\ task' = [task EXCEPT ![c] = t]
      /\ kept' = kept \cup {s} /\ UNCHANGED <<subsVars, role>>
      /\ UNCHANGED <<registered, restartInfo, stopped, holder, told>>
  BY DEF AskToAdd, Quiet, nodeVars
<1>2. t.op \in {"note", "add"} /\ t.spec = s /\ t.specs = {}
  BY DEF Idle
<1> HIDE DEF t
<1>3. /\ Serving(c) /\ Fits(c) /\ Awaits(c) /\ Withholds(c) /\ task \in [Caller -> Task]
      /\ kept \subseteq Wanted /\ call' = call /\ UNCHANGED <<counter, idMap>>
  BY <1>1 DEF Serving, FacilityState, FacilityInv, FacilityTypes, subsVars, idVars
<1>4. task'[c] = t /\ \A d \in Caller : d # c => task'[d] = task[d]
  BY <1>1, <1>3
<1>5. Fits(c)' /\ Awaits(c)' /\ Withholds(c)'
  BY <1>1, <1>2, <1>3, <1>4 DEF Fits, Awaits, Withholds
<1>6. Others(c)
  BY <1>3, <1>4 DEF Others
<1>7. ASSUME NEW u \in kept'
      PROVE  IsCovered(u)'
  <2>1. CASE u = s
    BY <1>2, <1>4, <2>1 DEF IsCovered
  <2>2. CASE u \in kept
    <3>1. IsCovered(u)
      BY <2>2 DEF FacilityState, FacilityInv
    <3>2. task[c].specs = {}
      BY <1>1, <1>3 DEF Fits
    <3>3. QED
      BY <1>1, <1>6, <3>1, <3>2, CoverStays
  <2>3. QED
    BY <1>1, <2>1, <2>2
<1>8. \A i \in 0..MaxId, u \in Wanted : IsEntry(i, u)' => IsEntry(i, u)
  BY <1>1 DEF IsEntry
<1>9. \A x \in idMap : IsKnown(x[1])'
  BY <1>1, <1>3 DEF IsKnown, FacilityState, FacilityInv
<1>10. kept' \subseteq Wanted
  BY <1>1, <1>3
<1>11. QED
  BY <1>1, <1>3, <1>5, <1>7, <1>8, <1>9, <1>10, TaskChanges

\* A request to remove.
LEMMA AskToRemoveKeeps ==
  ASSUME FacilityState, NEW c \in Caller, NEW i \in 1..MaxId, AskToRemove(c, i)
  PROVE  FacilityInv'
<1> DEFINE t == [Idle EXCEPT !.op = IF stopped THEN "forget" ELSE "remove", !.id = i]
<1>1. /\ role[c] = "handler" /\ task[c].op = "idle" /\ task' = [task EXCEPT ![c] = t]
      /\ kept' = {s \in kept : <<i, s>> \notin told} /\ UNCHANGED <<subsVars, role>>
      /\ UNCHANGED <<registered, restartInfo, stopped, holder, told>>
      /\ \E x \in told : x[1] = i
  BY DEF AskToRemove, Quiet, nodeVars
<1>2. t.op \in {"forget", "remove"} /\ t.id = i /\ t.specs = {}
  BY DEF Idle
<1> HIDE DEF t
<1>3. /\ Serving(c) /\ Fits(c) /\ Awaits(c) /\ Withholds(c) /\ task \in [Caller -> Task]
      /\ kept \subseteq Wanted /\ call' = call /\ UNCHANGED <<counter, idMap>>
  BY <1>1 DEF Serving, FacilityState, FacilityInv, FacilityTypes, subsVars, idVars
<1>4. task'[c] = t /\ \A d \in Caller : d # c => task'[d] = task[d]
  BY <1>1, <1>3
<1>5. Fits(c)' /\ Awaits(c)' /\ Withholds(c)'
  BY <1>1, <1>2, <1>3, <1>4 DEF Fits, Awaits, Withholds
<1>6. Others(c)
  BY <1>3, <1>4 DEF Others
<1>7. ASSUME NEW u \in kept'
      PROVE  IsCovered(u)'
  <2>1. IsCovered(u)
    BY <1>1 DEF FacilityState, FacilityInv
  <2>2. task[c].specs = {}
    BY <1>1, <1>3 DEF Fits
  <2>3. QED
    BY <1>1, <1>6, <2>1, <2>2, CoverStays
<1>8. \A j \in 0..MaxId, u \in Wanted : IsEntry(j, u)' => IsEntry(j, u)
  BY <1>1 DEF IsEntry
<1>9. \A x \in idMap : IsKnown(x[1])'
  BY <1>1, <1>3 DEF IsKnown, FacilityState, FacilityInv
<1>10. kept' \subseteq Wanted
  BY <1>1, <1>3
<1>11. QED
  BY <1>1, <1>3, <1>5, <1>7, <1>8, <1>9, <1>10, TaskChanges

\* A request to remove everything.
LEMMA AskToRemoveAllKeeps ==
  ASSUME FacilityState, NEW c \in Caller, AskToRemoveAll(c)
  PROVE  FacilityInv'
<1> DEFINE t == [Idle EXCEPT !.op = "removeAll"]
<1>1. /\ role[c] = "handler" /\ task[c].op = "idle" /\ task' = [task EXCEPT ![c] = t]
      /\ kept' = {} /\ UNCHANGED <<subsVars, role>>
      /\ UNCHANGED <<registered, restartInfo, stopped, holder, told>>
  BY DEF AskToRemoveAll, Quiet, nodeVars
<1>2. t.op = "removeAll" /\ t.specs = {}
  BY DEF Idle
<1> HIDE DEF t
<1>3. /\ Serving(c) /\ Fits(c) /\ Awaits(c) /\ Withholds(c) /\ task \in [Caller -> Task]
      /\ call' = call /\ UNCHANGED <<counter, idMap>>
  BY <1>1 DEF Serving, FacilityState, FacilityInv, FacilityTypes, subsVars, idVars
<1>4. task'[c] = t /\ \A d \in Caller : d # c => task'[d] = task[d]
  BY <1>1, <1>3
<1>5. Fits(c)' /\ Awaits(c)' /\ Withholds(c)'
  BY <1>1, <1>2, <1>3, <1>4 DEF Fits, Awaits, Withholds
<1>6. \A u \in kept' : IsCovered(u)'
  BY <1>1
<1>7. \A j \in 0..MaxId, u \in Wanted : IsEntry(j, u)' => IsEntry(j, u)
  BY <1>1 DEF IsEntry
<1>8. \A x \in idMap : IsKnown(x[1])'
  BY <1>1, <1>3 DEF IsKnown, FacilityState, FacilityInv
<1>9. QED
  BY <1>1, <1>3, <1>5, <1>6, <1>7, <1>8, TaskChanges

\* An addition is written down while the facility is stopped.
LEMMA NoteKeeps ==
  ASSUME FacilityState, NEW c \in Caller, Note(c)
  PROVE  FacilityInv'
<1> DEFINE u == task[c].spec
<1>1. /\ Serving(c) /\ task[c].op = "note" /\ task' = [task EXCEPT ![c] = Idle]
      /\ restartInfo' = WrittenDown(restartInfo, {<<u, 0>>}) /\ UNCHANGED <<subsVars, role>>
      /\ UNCHANGED <<registered, stopped, holder, told, kept>>
  BY DEF Note, Doing, Quiet, nodeVars
<1>2. Idle.op = "idle" /\ Idle.specs = {}
  BY DEF Idle
<1>3. /\ Fits(c) /\ Awaits(c) /\ Withholds(c) /\ task \in [Caller -> Task]
      /\ kept \subseteq Wanted /\ call' = call /\ UNCHANGED <<counter, idMap>>
  BY <1>1 DEF FacilityState, FacilityInv, FacilityTypes, subsVars, idVars
<1>4. task'[c] = Idle /\ \A d \in Caller : d # c => task'[d] = task[d]
  BY <1>1, <1>3
<1>5. Fits(c)' /\ Awaits(c)' /\ Withholds(c)'
  BY <1>1, <1>2, <1>3, <1>4 DEF Fits, Awaits, Withholds
<1>6. /\ restartInfo \subseteq restartInfo' /\ \E x \in restartInfo' : x[1] = u
      /\ restartInfo' \subseteq restartInfo \cup {<<u, 0>>}
  <2>1. <<u, 0>>[1] = u
    OBVIOUS
  <2>2. restartInfo' = restartInfo \cup {x \in {<<u, 0>>} : \A y \in restartInfo : y[1] # x[1]}
    BY <1>1 DEF WrittenDown
  <2> HIDE DEF u
  <2>3. QED
    BY <2>1, <2>2
<1>7. ASSUME NEW v \in kept
      PROVE  IsCovered(v)'
  <2>1. IsCovered(v)
    BY DEF FacilityState, FacilityInv
  <2>2. task[c].specs = {}
    BY <1>1, <1>3 DEF Fits
  <2>3. CASE v = u
    BY <1>6, <2>3 DEF IsCovered
  <2>4. CASE v # u
    <3>1. Others(c)
      BY <1>3, <1>4 DEF Others
    <3>2. QED
      BY <1>1, <1>6, <2>1, <2>2, <2>4, <3>1, CoverStays
  <2>5. QED
    BY <2>3, <2>4
<1>8. \A j \in 0..MaxId, v \in Wanted : IsEntry(j, v)' => IsEntry(j, v)
  <2>1. ASSUME NEW j, NEW v, <<v, j>> \in restartInfo', j # 0
        PROVE  <<v, j>> \in restartInfo
    BY <1>6, <2>1
  <2>2. QED
    BY <1>1, <2>1 DEF IsEntry
<1>9. \A x \in idMap : IsKnown(x[1])'
  BY <1>1, <1>3 DEF IsKnown, FacilityState, FacilityInv
<1>10. QED
  BY <1>1, <1>3, <1>5, <1>7, <1>8, <1>9, TaskChanges

\* What is being removed was told for something that is not kept.
LEMMA RemovedIsNotKept ==
  ASSUME FacilityState, NEW c \in Caller, role[c] = "handler",
         task[c].op \in {"remove", "removing", "forget"},
         NEW s \in kept, IsEntry(task[c].id, s)
  PROVE  FALSE
<1>1. /\ Awaits(c) /\ Withholds(c) /\ told \subseteq (1..MaxId) \X Wanted /\ s \in Wanted
      /\ EntriesAgree
  BY DEF FacilityState, FacilityInv, Serving
<1>2. PICK p \in told : p[1] = task[c].id
  BY <1>1 DEF Awaits
<1>3. p[1] \in 0..MaxId /\ p[1] # 0 /\ p[2] \in Wanted /\ p = <<p[1], p[2]>>
  BY <1>1
<1>4. IsEntry(p[1], p[2]) /\ IsEntry(p[1], s)
  BY <1>2, <1>3 DEF IsEntry
<1>5. p[2] = s
  BY <1>1, <1>3, <1>4 DEF EntriesAgree
<1>6. <<task[c].id, s>> \in told
  BY <1>2, <1>3, <1>5
<1>7. QED
  BY <1>1, <1>6 DEF Withholds

\* A removal while the facility is stopped.
LEMMA ForgetKeeps ==
  ASSUME FacilityState, NEW c \in Caller, Forget(c)
  PROVE  FacilityInv'
<1>1. /\ Serving(c) /\ task[c].op = "forget" /\ task' = [task EXCEPT ![c] = Idle]
      /\ restartInfo' = {x \in restartInfo : x[2] # task[c].id} /\ UNCHANGED <<subsVars, role>>
      /\ UNCHANGED <<registered, stopped, holder, told, kept>>
  BY DEF Forget, Doing, Quiet, nodeVars
<1>2. Idle.op = "idle" /\ Idle.specs = {}
  BY DEF Idle
<1>3. /\ Fits(c) /\ Awaits(c) /\ Withholds(c) /\ task \in [Caller -> Task]
      /\ kept \subseteq Wanted /\ call' = call /\ UNCHANGED <<counter, idMap>>
      /\ restartInfo \subseteq Wanted \X (0..MaxId) /\ told \subseteq (1..MaxId) \X Wanted
      /\ role[c] = "handler"
  BY <1>1 DEF FacilityState, FacilityInv, FacilityTypes, subsVars, idVars, Fits, Serving
<1>4. task'[c] = Idle /\ \A d \in Caller : d # c => task'[d] = task[d]
  BY <1>1, <1>3
<1>5. Fits(c)' /\ Awaits(c)' /\ Withholds(c)'
  BY <1>1, <1>2, <1>3, <1>4 DEF Fits, Awaits, Withholds
<1>6. ASSUME NEW v \in kept
      PROVE  IsCovered(v)'
  <2>1. IsCovered(v) /\ v \in Wanted
    BY <1>3 DEF FacilityState, FacilityInv
  <2>2. ASSUME NEW x \in restartInfo, x[1] = v
        PROVE  x[2] # task[c].id
    <3>1. SUFFICES ASSUME x[2] = task[c].id
                   PROVE  FALSE
      OBVIOUS
    <3>2. PICK p \in told : p[1] = task[c].id
      BY <1>1, <1>3 DEF Awaits
    <3>3. x = <<v, task[c].id>> /\ task[c].id # 0
      BY <1>3, <2>2, <3>1, <3>2
    <3>4. IsEntry(task[c].id, v)
      BY <3>3 DEF IsEntry
    <3>5. QED
      BY <1>1, <1>3, <3>4, RemovedIsNotKept
  <2>3. CASE \E x \in restartInfo : x[1] = v
    BY <1>1, <2>2, <2>3 DEF IsCovered
  <2>4. CASE ~ \E x \in restartInfo : x[1] = v
    <3>1. task[c].specs = {}
      BY <1>1, <1>3 DEF Fits
    <3>2. QED
      BY <1>1, <1>4, <2>1, <2>4, <3>1 DEF IsCovered
  <2>5. QED
    BY <2>3, <2>4
<1>7. \A j \in 0..MaxId, v \in Wanted : IsEntry(j, v)' => IsEntry(j, v)
  BY <1>1 DEF IsEntry
<1>8. \A x \in idMap : IsKnown(x[1])'
  BY <1>1, <1>3 DEF IsKnown, FacilityState, FacilityInv
<1>9. QED
  BY <1>1, <1>3, <1>5, <1>6, <1>7, <1>8, TaskChanges

\* The component is asked for a subscription.
LEMMA ListenKeeps ==
  ASSUME FacilityState, NEW c \in Caller,
         \/ ListenMulticast(c) \/ ListenSinglecast(c) \/ ListenRabbitMQ(c) \/ ListenRedis(c)
         \/ ListenZeroMQ(c) \/ ListenNNG(c) \/ ListenShm(c)
  PROVE  FacilityInv'
<1> DEFINE t == [task[c] EXCEPT !.op = "adding"]
<1>1. /\ Serving(c) /\ task[c].op = "add" /\ task' = [task EXCEPT ![c].op = "adding"]
      /\ UNCHANGED <<role, registered, restartInfo, stopped, holder, told, kept>>
  BY DEF ListenMulticast, ListenSinglecast, ListenRabbitMQ, ListenRedis, ListenZeroMQ,
     ListenNNG, ListenShm, Listen, Doing, nodeVars
<1>2. /\ Fits(c) /\ Awaits(c) /\ Withholds(c) /\ task \in [Caller -> Task]
      /\ kept \subseteq Wanted /\ told \subseteq (1..MaxId) \X Wanted
      /\ call \in [Caller -> Doings] /\ SubsTypes
  BY <1>1 DEF FacilityState, FacilityInv, FacilityTypes, SubsTypes
<1>3. task' = [task EXCEPT ![c] = t]
  BY <1>1, <1>2
<1>4. t.op = "adding" /\ t.spec = task[c].spec /\ t.specs = task[c].specs /\ task[c].spec \in Wanted
  BY <1>2 DEF Task
<1> HIDE DEF t
<1>5. task'[c] = t /\ \A d \in Caller : d # c => task'[d] = task[d]
  BY <1>2, <1>3
<1>6. Enters(c) \/ (call[c].at = "out" /\ Draws(c, Len(obj) + 1))
  BY <1>2, <1>4, SubscribeDoes DEF ListenMulticast, ListenSinglecast, ListenRabbitMQ,
     ListenRedis, ListenZeroMQ, ListenNNG, ListenShm, Listen
<1>7. ASSUME EntriesAgree', \A x \in idMap' : IsKnown(x[1])',
             \A x \in idMap' : x \in idMap \/ x[1] > counter,
             call'[c].at \in {"adding", "added"}, \A d \in Caller : d # c => call'[d] = call[d]
      PROVE  FacilityInv'
  <2>1. Others(c)
    BY <1>5, <1>7 DEF Others
  <2>2. Fits(c)' /\ Awaits(c)' /\ Withholds(c)'
    BY <1>1, <1>2, <1>4, <1>5, <1>7 DEF Fits, Awaits, Withholds
  <2>3. ASSUME NEW s \in kept'
        PROVE  IsCovered(s)'
    <3>1. IsCovered(s)
      BY <1>1, <2>3 DEF FacilityState, FacilityInv
    <3>2. QED
      BY <1>1, <1>4, <1>5, <2>1, <3>1, CoverStays
  <2>4. QED
    BY <1>1, <1>2, <1>7, <2>1, <2>2, <2>3, TurnKeeps
<1>8. CASE Enters(c)
  <2>1. PICK x \in Doings : x.at = "adding" /\ call' = [call EXCEPT ![c] = x]
    BY <1>8 DEF Enters
  <2>2. call'[c] = x /\ \A d \in Caller : d # c => call'[d] = call[d]
    BY <1>2, <2>1
  <2>3. call[c].at = "out" /\ UNCHANGED <<counter, idMap>>
    BY <1>8 DEF Enters
  <2>4. \A i, s : IsEntry(i, s)' = IsEntry(i, s)
    BY <1>1 DEF IsEntry
  <2>5. \A d \in Caller : call'[d].at = "added" => call'[d] = call[d]
    BY <2>1, <2>2
  <2>6. EntriesAgree'
    BY <2>3, <2>4, <2>5, EntriesStay DEF FacilityState, FacilityInv
  <2>7. \A d \in Caller : call[d].at = "added" => call'[d] = call[d]
    BY <2>2, <2>3
  <2>8. \A y \in idMap' : IsKnown(y[1])'
    BY <1>1, <2>3, <2>7 DEF IsKnown, FacilityState, FacilityInv
  <2>9. QED
    BY <1>7, <2>1, <2>2, <2>3, <2>6, <2>8
<1>9. CASE call[c].at = "out" /\ Draws(c, Len(obj) + 1)
  <2>1. /\ EntriesAgree' /\ \A y \in idMap' : IsKnown(y[1])'
        /\ \A y \in idMap' : y \in idMap \/ y[1] > counter
        /\ call'[c].at = "added" /\ \A d \in Caller : d # c => call'[d] = call[d]
    BY <1>1, <1>9, DrawsAnEntry
  <2>2. QED
    BY <1>7, <2>1
<1>10. QED
  BY <1>6, <1>8, <1>9

\* The id has come back, and is recorded and sent to the client.
LEMMA RecordKeeps ==
  ASSUME FacilityState, NEW c \in Caller, Record(c)
  PROVE  FacilityInv'
<1> DEFINE i == call[c].id
           u == task[c].spec
           t == Onward(c)
<1>1. /\ Serving(c) /\ task[c].op = "adding" /\ call[c].at = "added" /\ holder = Nobody
      /\ registered' = registered \cup {<<i, u>>}
      /\ told' = (IF role[c] = "handler" THEN told \cup {<<i, u>>} ELSE told)
      /\ call' = [call EXCEPT ![c] = Out] /\ task' = [task EXCEPT ![c] = t]
      /\ UNCHANGED <<role, counter, idMap, restartInfo, stopped, holder, kept>>
  BY DEF Record, Doing, nodeVars, idVars
<1>2. /\ Fits(c) /\ Awaits(c) /\ Withholds(c) /\ task \in [Caller -> Task]
      /\ kept \subseteq Wanted /\ told \subseteq (1..MaxId) \X Wanted
      /\ call \in [Caller -> Doings] /\ EntriesAgree
  BY <1>1 DEF FacilityState, FacilityInv, FacilityTypes, SubsTypes
<1>3. i \in 0..MaxId /\ i \in 1..counter /\ i # 0 /\ i \in 1..MaxId /\ u \in Wanted
  <2>1. i \in 0..MaxId /\ u \in Wanted
    BY <1>2 DEF Doings, Task
  <2>2. i \in 1..counter
    BY <1>1, <1>2 DEF EntriesAgree
  <2>3. QED
    BY <2>1, <2>2
<1>4. /\ t.op \in {"idle", "readd"} /\ t.specs = task[c].specs
      /\ role[c] = "handler" => t.op = "idle"
      /\ t.op = "readd" \/ t.specs = {}
  <2>1. Idle.op = "idle" /\ Idle.specs = {}
    BY DEF Idle
  <2>2. role[c] = "control" => t.op = "readd" /\ t.specs = task[c].specs
    BY <1>2 DEF Onward, Task
  <2>3. role[c] = "handler" => t = Idle /\ task[c].specs = {}
    BY <1>2 DEF Onward, Fits
  <2>4. QED
    BY <1>1, <2>1, <2>2, <2>3 DEF Serving
<1> HIDE DEF t
<1>5. task'[c] = t /\ \A d \in Caller : d # c => task'[d] = task[d]
  BY <1>1, <1>2
<1>6. call'[c] = Out /\ Out.at = "out" /\ \A d \in Caller : d # c => call'[d] = call[d]
  BY <1>1, <1>2 DEF Out
<1>7. Others(c)
  BY <1>5, <1>6 DEF Others
<1>8. Fits(c)' /\ Awaits(c)' /\ Withholds(c)'
  <2>1. holder' # c
    BY <1>1, SubscriptionsAssumption
  <2>2. Fits(c)'
    BY <1>1, <1>2, <1>4, <1>5, <1>6, <2>1 DEF Fits
  <2>3. QED
    BY <1>1, <1>4, <1>5, <2>2 DEF Awaits, Withholds
<1>9. EntriesAgree'
  <2>1. ASSUME NEW j, NEW s, IsEntry(j, s)'
        PROVE  IsEntry(j, s) \/ (j = i /\ s = u)
    BY <1>1, <2>1 DEF IsEntry
  <2>2. ASSUME NEW s \in Wanted, IsEntry(i, s)
        PROVE  FALSE
    BY <1>1, <1>2, <1>3, <2>2 DEF EntriesAgree
  <2>3. \A d \in Caller : call'[d].at = "added" => call'[d] = call[d] /\ d # c
    BY <1>6
  <2>4. \A d \in Caller : call'[d].at = "added" => call'[d].id # i /\ call'[d].id \in 1..counter
    BY <1>1, <1>2, <2>3 DEF EntriesAgree
  <2>5. ASSUME NEW j \in 0..MaxId, NEW s \in Wanted, IsEntry(j, s)'
        PROVE  /\ j <= counter'
               /\ \A v \in Wanted : IsEntry(j, v)' => s = v
               /\ \A d \in Caller : call'[d].at = "added" => call'[d].id # j
    <3>1. CASE j = i
      <4>1. \A v \in Wanted : IsEntry(j, v)' => v = u
        BY <2>1, <2>2, <3>1
      <4>2. QED
        BY <1>1, <1>3, <2>4, <2>5, <3>1, <4>1
    <3>2. CASE j # i
      <4>1. IsEntry(j, s) /\ \A v \in Wanted : IsEntry(j, v)' => IsEntry(j, v)
        BY <2>1, <2>5, <3>2
      <4>2. \A v \in Wanted : IsEntry(j, v)' => s = v
        BY <1>2, <4>1 DEF EntriesAgree
      <4>3. QED
        BY <1>1, <1>2, <2>3, <4>1, <4>2 DEF EntriesAgree
    <3>3. QED
      BY <3>1, <3>2
  <2>6. \A d, e \in Caller :
          call'[d].at = "added" /\ call'[e].at = "added" /\ call'[d].id = call'[e].id => d = e
    BY <1>2, <2>3 DEF EntriesAgree
  <2>7. QED
    BY <1>1, <2>4, <2>5, <2>6 DEF EntriesAgree
<1>10. ASSUME NEW x \in idMap'
       PROVE  IsKnown(x[1])'
  <2>1. IsKnown(x[1])
    BY <1>1, <1>10 DEF FacilityState, FacilityInv
  <2>2. <<i, u>> \in registered' /\ <<i, u>>[1] = i /\ registered \subseteq registered'
    BY <1>1
  <2>3. QED
    BY <1>6, <2>1, <2>2 DEF IsKnown
<1>11. ASSUME NEW s \in kept'
       PROVE  IsCovered(s)'
  <2>1. IsCovered(s)
    BY <1>1, <1>11 DEF FacilityState, FacilityInv
  <2>2. <<i, u>> \in registered' /\ <<i, u>>[2] = u /\ registered \subseteq registered'
    BY <1>1
  <2>3. CASE s = u
    BY <2>2, <2>3 DEF IsCovered
  <2>4. CASE s # u
    BY <1>1, <1>4, <1>5, <1>7, <2>1, <2>2, <2>4, CoverStays
  <2>5. QED
    BY <2>3, <2>4
<1>12. /\ told' \subseteq (1..MaxId) \X Wanted
       /\ told' = told \/ (role[c] = "handler" /\ told \subseteq told')
  BY <1>1, <1>2, <1>3
<1>13. QED
  BY <1>1, <1>2, <1>7, <1>8, <1>9, <1>10, <1>11, <1>12, TurnKeeps

\* The component is asked to give a subscription back, and has done so.
LEMMA UnlistenKeeps ==
  ASSUME FacilityState, NEW c \in Caller, Unlisten(c)
  PROVE  FacilityInv'
<1>1. /\ call \in [Caller -> Doings] /\ task \in [Caller -> Task] /\ kept \subseteq Wanted
      /\ told \subseteq (1..MaxId) \X Wanted /\ registered \subseteq (0..MaxId) \X Wanted
      /\ SubsTypes /\ (Serving(c) => Fits(c) /\ Awaits(c) /\ Withholds(c))
  BY DEF FacilityState, FacilityInv, FacilityTypes, SubsTypes
<1>2. CASE /\ Doing(c, "remove")
           /\ Unsubscribe(c, task[c].id)
           /\ task' = [task EXCEPT ![c].op = "removing"]
           /\ UNCHANGED <<nodeVars, registered, restartInfo, stopped, holder, told, kept>>
  <2> DEFINE i == task[c].id
             t == [task[c] EXCEPT !.op = "removing"]
  <2>1. /\ Serving(c) /\ task[c].op = "remove" /\ task' = [task EXCEPT ![c] = t]
        /\ UNCHANGED <<role, registered, restartInfo, stopped, holder, told, kept>>
    BY <1>1, <1>2 DEF Doing, nodeVars
  <2>2. t.op = "removing" /\ t.id = i /\ t.specs = task[c].specs /\ i \in 0..MaxId
    BY <1>1 DEF Task
  <2> HIDE DEF t
  <2>3. task'[c] = t /\ \A d \in Caller : d # c => task'[d] = task[d]
    BY <1>1, <2>1
  <2>4. Gives(c, i)
    <3>1. Unsubscribe(c, i)
      BY <1>2
    <3>2. QED
      BY <1>1, <2>2, <3>1, UnsubscribeDoes
  <2>5. PICK x \in Doings : call' = [call EXCEPT ![c] = x] /\ x.at \in Giving
    BY <2>4 DEF Gives, Giving
  <2>6. call'[c] = x /\ \A d \in Caller : d # c => call'[d] = call[d]
    BY <1>1, <2>5
  <2>7. call[c].at = "out" /\ counter' = counter /\ idMap' = {w \in idMap : w[1] # i}
    BY <2>4 DEF Gives
  <2>8. x.at # "added"
    BY <2>5 DEF Giving
  <2>9. EntriesAgree'
    <3>1. \A j, s : IsEntry(j, s)' = IsEntry(j, s)
      BY <2>1 DEF IsEntry
    <3>2. \A d \in Caller : call'[d].at = "added" => call'[d] = call[d]
      BY <2>6, <2>8
    <3>3. QED
      BY <2>7, <3>1, <3>2, EntriesStay DEF FacilityState, FacilityInv
  <2>10. \A y \in idMap' : IsKnown(y[1])'
    <3>1. \A d \in Caller : call[d].at = "added" => call'[d] = call[d]
      BY <2>6, <2>7
    <3>2. QED
      BY <2>1, <2>7, <3>1 DEF IsKnown, FacilityState, FacilityInv
  <2>11. Others(c)
    BY <2>3, <2>6 DEF Others
  <2>12. \A s \in kept' : IsCovered(s)'
    BY <2>1, <2>2, <2>3, <2>11, CoverStays DEF FacilityState, FacilityInv
  <2>13. Fits(c)' /\ Awaits(c)' /\ Withholds(c)'
    <3>1. Fits(c)'
      BY <1>1, <2>1, <2>2, <2>3, <2>5, <2>6 DEF Fits
    <3>2. Awaits(c)'
      BY <1>1, <2>1, <2>2, <2>3, <2>7 DEF Awaits
    <3>3. Withholds(c)'
      BY <1>1, <2>1, <2>2, <2>3 DEF Withholds
    <3>4. QED
      BY <3>1, <3>2, <3>3
  <2>14. QED
    BY <1>1, <2>1, <2>7, <2>9, <2>10, <2>11, <2>12, <2>13, TurnKeeps
<1>3. CASE /\ Doing(c, "removing") /\ call[c].at = "removed" /\ holder = Nobody
           /\ registered' = {x \in registered : x[1] # task[c].id}
           /\ call' = [call EXCEPT ![c] = Out]
           /\ task' = [task EXCEPT ![c] = Idle]
           /\ UNCHANGED <<idVars, nodeVars, restartInfo, stopped, holder, told, kept>>
  <2>1. /\ Serving(c) /\ task[c].op = "removing" /\ call[c].at = "removed"
        /\ registered' = {x \in registered : x[1] # task[c].id} /\ Fits(c) /\ Awaits(c)
        /\ UNCHANGED <<role, counter, idMap, restartInfo, stopped, holder, told, kept>>
        /\ task'[c] = Idle /\ (\A d \in Caller : d # c => task'[d] = task[d])
        /\ call'[c] = Out /\ (\A d \in Caller : d # c => call'[d] = call[d])
        /\ holder = Nobody
    <3>1. Serving(c) /\ task[c].op = "removing"
      BY <1>3 DEF Doing
    <3>2. UNCHANGED <<role, counter, idMap, restartInfo, stopped, holder, told, kept>>
      BY <1>3 DEF nodeVars, idVars
    <3>3. task'[c] = Idle /\ (\A d \in Caller : d # c => task'[d] = task[d])
      BY <1>1, <1>3
    <3>4. call'[c] = Out /\ (\A d \in Caller : d # c => call'[d] = call[d])
      BY <1>1, <1>3
    <3>5. QED
      BY <1>1, <1>3, <3>1, <3>2, <3>3, <3>4
  <2>2. Idle.op = "idle" /\ Idle.specs = {} /\ Out.at = "out"
    BY DEF Idle, Out
  <2>3. role[c] = "handler" /\ task[c].specs = {}
    BY <2>1 DEF Fits, Serving
  <2>4. \A j \in 0..MaxId, s \in Wanted : IsEntry(j, s)' => IsEntry(j, s)
    BY <2>1 DEF IsEntry
  <2>5. EntriesAgree'
    <3>1. \A d \in Caller : call'[d].at = "added" => call'[d] = call[d]
      BY <2>1, <2>2
    <3>2. QED
      BY <2>1, <2>4, <3>1, EntriesStay DEF FacilityState, FacilityInv
  <2>6. ASSUME NEW y \in idMap'
        PROVE  IsKnown(y[1])'
    <3>1. IsKnown(y[1]) /\ y[1] # task[c].id
      BY <2>1 DEF FacilityState, FacilityInv, Awaits
    <3>2. CASE \E r \in registered : r[1] = y[1]
      BY <2>1, <3>1, <3>2 DEF IsKnown
    <3>3. CASE \E d \in Caller : call[d].at = "added" /\ call[d].id = y[1]
      BY <2>1, <3>3 DEF IsKnown
    <3>4. QED
      BY <3>1, <3>2, <3>3 DEF IsKnown
  <2>7. Others(c)
    BY <2>1 DEF Others
  <2>8. ASSUME NEW s \in kept'
        PROVE  IsCovered(s)'
    <3>1. IsCovered(s) /\ s \in kept
      BY <2>1 DEF FacilityState, FacilityInv
    <3>2. CASE \E r \in registered : r[2] = s
      <4>1. PICK r \in registered : r[2] = s
        BY <3>2
      <4>2. r = <<r[1], s>> /\ r[1] \in 0..MaxId
        BY <1>1, <4>1
      <4>3. r[1] # task[c].id
        <5>1. SUFFICES ASSUME r[1] = task[c].id
                       PROVE  FALSE
          OBVIOUS
        <5>2. PICK p \in told : p[1] = task[c].id
          BY <2>1 DEF Awaits
        <5>3. task[c].id # 0
          BY <1>1, <5>2
        <5>4. IsEntry(task[c].id, s)
          BY <4>1, <4>2, <5>1, <5>3 DEF IsEntry
        <5>5. QED
          BY <2>1, <2>3, <3>1, <5>4, RemovedIsNotKept
      <4>4. r \in registered'
        BY <2>1, <4>3
      <4>5. QED
        BY <4>1, <4>4 DEF IsCovered
    <3>3. CASE ~ \E r \in registered : r[2] = s
      BY <2>1, <2>3, <3>1, <3>3 DEF IsCovered
    <3>4. QED
      BY <3>2, <3>3
  <2>9. Fits(c)' /\ Awaits(c)' /\ Withholds(c)'
    <3>1. holder' # c
      BY <2>1, SubscriptionsAssumption
    <3>2. QED
      BY <2>1, <2>2, <3>1 DEF Fits, Awaits, Withholds
  <2>10. QED
    BY <1>1, <2>1, <2>5, <2>6, <2>7, <2>8, <2>9, TurnKeeps
<1>4. QED
  BY <1>2, <1>3 DEF Unlisten

\* removeAll: with the mutex held, one subscription after the other is given
\* back, and then all are forgotten or written down.
LEMMA RemoveAllKeeps ==
  ASSUME FacilityState, NEW c \in Caller, RemoveAll(c)
  PROVE  FacilityInv'
<1>1. /\ call \in [Caller -> Doings] /\ task \in [Caller -> Task] /\ kept \subseteq Wanted
      /\ told \subseteq (1..MaxId) \X Wanted /\ registered \subseteq (0..MaxId) \X Wanted
      /\ SubsTypes /\ c # Nobody
  BY SubscriptionsAssumption DEF FacilityState, FacilityInv, FacilityTypes, SubsTypes
<1>2. Serving(c) => Fits(c) /\ Awaits(c) /\ Withholds(c)
  BY DEF FacilityState, FacilityInv
<1>3. CASE /\ Doing(c, "removeAll") /\ holder = Nobody /\ holder' = c
           /\ task' = [task EXCEPT ![c].op = "taking", ![c].ids = {x[1] : x \in registered}]
           /\ UNCHANGED <<subsVars, nodeVars, registered, restartInfo, stopped, told, kept>>
  <2> DEFINE t == [task[c] EXCEPT !.op = "taking", !.ids = {x[1] : x \in registered}]
  <2>1. /\ Serving(c) /\ task[c].op = "removeAll" /\ task' = [task EXCEPT ![c] = t]
        /\ UNCHANGED <<subsVars, role, registered, restartInfo, stopped, told, kept>>
        /\ call' = call /\ UNCHANGED <<counter, idMap>> /\ holder = Nobody /\ holder' = c
    BY <1>1, <1>3 DEF Doing, nodeVars, subsVars, idVars
  <2>2. t.op = "taking" /\ t.specs = task[c].specs /\ t.ids = {x[1] : x \in registered}
    BY <1>1 DEF Task
  <2> HIDE DEF t
  <2>3. task'[c] = t /\ \A d \in Caller : d # c => task'[d] = task[d]
    BY <1>1, <2>1
  <2>4. Fits(c)' /\ Withholds(c)'
    BY <1>2, <2>1, <2>2, <2>3 DEF Fits, Withholds
  <2>5. Awaits(c)'
    <3>1. \A r \in registered : r[1] \in t.ids
      BY <2>2
    <3>2. QED
      BY <2>1, <2>2, <2>3, <3>1 DEF Awaits
  <2>6. Others(c)
    BY <2>1, <2>3 DEF Others
  <2>7. \A s \in kept' : IsCovered(s)'
    BY <2>1, <2>2, <2>3, <2>6, CoverStays DEF FacilityState, FacilityInv
  <2>8. \A i \in 0..MaxId, s \in Wanted : IsEntry(i, s)' => IsEntry(i, s)
    BY <2>1 DEF IsEntry
  <2>9. \A x \in idMap : IsKnown(x[1])'
    BY <2>1 DEF IsKnown, FacilityState, FacilityInv
  <2>10. QED
    BY <1>1, <2>1, <2>4, <2>5, <2>7, <2>8, <2>9, TaskChanges
<1>4. ASSUME NEW i \in task[c].ids, Doing(c, "taking"), Unsubscribe(c, i),
             task' = [task EXCEPT ![c].ids = @ \ {i}],
             UNCHANGED <<nodeVars, registered, restartInfo, stopped, holder, told, kept>>
      PROVE  FacilityInv'
  <2> DEFINE t == [task[c] EXCEPT !.ids = @ \ {i}]
  <2>1. /\ Serving(c) /\ task[c].op = "taking" /\ task' = [task EXCEPT ![c] = t]
        /\ UNCHANGED <<role, registered, restartInfo, stopped, holder, told, kept>>
    BY <1>1, <1>4 DEF Doing, nodeVars
  <2>2. t.op = "taking" /\ t.specs = task[c].specs /\ t.ids = task[c].ids \ {i} /\ i \in 0..MaxId
    <3>1. task[c] \in Task
      BY <1>1
    <3>2. task[c].ids \in SUBSET (0..MaxId)
      BY <3>1 DEF Task
    <3>3. i \in 0..MaxId
      BY <1>4, <3>2
    <3>4. QED
      BY <2>1, <3>1, <3>3 DEF Task
  <2> HIDE DEF t
  <2>3. task'[c] = t /\ \A d \in Caller : d # c => task'[d] = task[d]
    BY <1>1, <2>1
  <2>4. Gives(c, i)
    BY <1>1, <1>4, <2>2, UnsubscribeDoes
  <2>5. PICK x \in Doings : call' = [call EXCEPT ![c] = x] /\ x.at \in Giving
    BY <2>4 DEF Gives, Giving
  <2>6. call'[c] = x /\ \A d \in Caller : d # c => call'[d] = call[d]
    BY <1>1, <2>5
  <2>7. call[c].at = "out" /\ counter' = counter /\ idMap' = {w \in idMap : w[1] # i}
    BY <2>4 DEF Gives
  <2>8. x.at # "added"
    BY <2>5 DEF Giving
  <2>9. EntriesAgree'
    <3>1. \A j, s : IsEntry(j, s)' = IsEntry(j, s)
      BY <2>1 DEF IsEntry
    <3>2. \A d \in Caller : call'[d].at = "added" => call'[d] = call[d]
      BY <2>6, <2>8
    <3>3. QED
      BY <2>7, <3>1, <3>2, EntriesStay DEF FacilityState, FacilityInv
  <2>10. \A y \in idMap' : IsKnown(y[1])'
    <3>1. \A d \in Caller : call[d].at = "added" => call'[d] = call[d]
      BY <2>6, <2>7
    <3>2. QED
      BY <2>1, <2>7, <3>1 DEF IsKnown, FacilityState, FacilityInv
  <2>11. Others(c)
    BY <2>3, <2>6 DEF Others
  <2>12. \A s \in kept' : IsCovered(s)'
    BY <2>1, <2>2, <2>3, <2>11, CoverStays DEF FacilityState, FacilityInv
  <2>13. Fits(c)' /\ Withholds(c)'
    <3>1. Fits(c)'
      BY <1>2, <2>1, <2>2, <2>3, <2>5, <2>6 DEF Fits
    <3>2. QED
      BY <1>2, <2>1, <2>2, <2>3, <3>1 DEF Withholds
  <2>14. Awaits(c)'
    BY <1>2, <2>1, <2>2, <2>3, <2>7 DEF Awaits
  <2>15. QED
    BY <1>1, <2>1, <2>7, <2>9, <2>10, <2>11, <2>12, <2>13, <2>14, TurnKeeps
<1>5. CASE /\ Doing(c, "taking") /\ call[c].at = "removed"
           /\ call' = [call EXCEPT ![c] = Out]
           /\ UNCHANGED <<idVars, nodeVars, listenerVars>>
  <2>1. /\ Serving(c) /\ task[c].op = "taking"
        /\ UNCHANGED <<role, counter, idMap, registered, restartInfo, stopped, holder, task>>
        /\ UNCHANGED <<told, kept>>
        /\ call'[c] = Out /\ (\A d \in Caller : d # c => call'[d] = call[d])
    BY <1>1, <1>5 DEF Doing, nodeVars, idVars, listenerVars
  <2>2. Out.at = "out"
    BY DEF Out
  <2>3. EntriesAgree'
    <3>1. \A j, s : IsEntry(j, s)' = IsEntry(j, s)
      BY <2>1 DEF IsEntry
    <3>2. \A d \in Caller : call'[d].at = "added" => call'[d] = call[d]
      BY <2>1, <2>2
    <3>3. QED
      BY <2>1, <3>1, <3>2, EntriesStay DEF FacilityState, FacilityInv
  <2>4. \A y \in idMap' : IsKnown(y[1])'
    <3>1. \A d \in Caller : call[d].at = "added" => call'[d] = call[d]
      BY <1>5, <2>1
    <3>2. QED
      BY <2>1, <3>1 DEF IsKnown, FacilityState, FacilityInv
  <2>5. Others(c)
    BY <2>1 DEF Others
  <2>6. \A s \in kept' : IsCovered(s)'
    BY <2>1 DEF IsCovered, FacilityState, FacilityInv
  <2>7. Fits(c)' /\ Awaits(c)' /\ Withholds(c)'
    BY <1>2, <2>1, <2>2 DEF Fits, Awaits, Withholds
  <2>8. QED
    BY <1>1, <2>1, <2>3, <2>4, <2>5, <2>6, <2>7, TurnKeeps
<1>6. CASE /\ Doing(c, "taking") /\ task[c].ids = {} /\ call[c].at = "out"
           /\ restartInfo' = IF stopped
                THEN WrittenDown(restartInfo, {<<x[2], x[1]>> : x \in registered})
                ELSE restartInfo
           /\ registered' = {} /\ holder' = Nobody
           /\ task' = [task EXCEPT ![c] = Idle]
           /\ UNCHANGED <<subsVars, nodeVars, stopped, told, kept>>
  <2>1. /\ Serving(c) /\ task[c].op = "taking" /\ task' = [task EXCEPT ![c] = Idle]
        /\ UNCHANGED <<subsVars, role, stopped, told, kept>>
        /\ call' = call /\ UNCHANGED <<counter, idMap>> /\ holder' = Nobody /\ registered' = {}
    BY <1>6 DEF Doing, nodeVars, subsVars, idVars
  <2>2. Idle.op = "idle" /\ Idle.specs = {}
    BY DEF Idle
  <2>3. task'[c] = Idle /\ \A d \in Caller : d # c => task'[d] = task[d]
    BY <1>1, <2>1
  <2>4. holder = c /\ task[c].specs = {}
    BY <1>2, <2>1 DEF Fits
  <2>5. Fits(c)' /\ Awaits(c)' /\ Withholds(c)'
    <3>1. Fits(c)'
      BY <1>1, <1>6, <2>1, <2>2, <2>3 DEF Fits
    <3>2. QED
      BY <2>2, <2>3, <3>1 DEF Awaits, Withholds
  <2> DEFINE more == {<<x[2], x[1]>> : x \in registered}
  <2>6. stopped => restartInfo' = restartInfo \cup {x \in more : \A y \in restartInfo : y[1] # x[1]}
    BY <1>6 DEF WrittenDown
  <2>7. ~stopped => restartInfo' = restartInfo
    BY <1>6
  <2>8. \A x \in more : \E r \in registered : x = <<r[2], r[1]>>
    OBVIOUS
  <2>9. \A r \in registered : <<r[2], r[1]>> \in more
    OBVIOUS
  <2> HIDE DEF more
  <2>10. ASSUME NEW i \in 0..MaxId, NEW s \in Wanted, IsEntry(i, s)'
         PROVE  IsEntry(i, s)
    <3>1. ASSUME <<s, i>> \in more
          PROVE  <<i, s>> \in registered
      BY <1>1, <2>8, <3>1
    <3>2. <<s, i>> \in restartInfo' => <<s, i>> \in restartInfo \/ <<s, i>> \in more
      BY <2>6, <2>7
    <3>3. QED
      BY <2>1, <2>10, <3>1, <3>2 DEF IsEntry
  <2>11. ASSUME NEW x \in idMap
         PROVE  IsKnown(x[1])'
    <3>1. \A r \in registered : r[1] # x[1]
      BY <1>2, <1>6, <2>1 DEF Awaits
    <3>2. \E d \in Caller : call[d].at = "added" /\ call[d].id = x[1]
      BY <3>1 DEF IsKnown, FacilityState, FacilityInv
    <3>3. QED
      BY <2>1, <3>2 DEF IsKnown
  <2>12. ASSUME NEW s \in kept'
         PROVE  IsCovered(s)'
    <3>1. IsCovered(s) /\ s \in kept
      BY <2>1, <2>12 DEF FacilityState, FacilityInv
    <3>2. stopped
      BY <1>2, <2>1, <3>1 DEF Withholds, Serving
    <3>3. restartInfo \subseteq restartInfo'
      BY <2>6, <3>2
    <3>4. CASE \E r \in registered : r[2] = s
      <4>1. PICK r \in registered : r[2] = s
        BY <3>4
      <4>2. <<s, r[1]>> \in more /\ <<s, r[1]>>[1] = s
        BY <2>9, <4>1
      <4>3. \E y \in restartInfo' : y[1] = s
        BY <2>6, <3>2, <3>3, <4>2
      <4>4. QED
        BY <4>3 DEF IsCovered
    <3>5. CASE ~ \E r \in registered : r[2] = s
      BY <2>1, <2>3, <2>4, <3>1, <3>3, <3>5 DEF IsCovered
    <3>6. QED
      BY <3>4, <3>5
  <2>13. QED
    BY <1>1, <2>1, <2>4, <2>5, <2>10, <2>11, <2>12, TaskChanges
<1>7. QED
  BY <1>3, <1>4, <1>5, <1>6 DEF RemoveAll, Quiet

\* stop and restart.
LEMMA ControlKeeps ==
  ASSUME FacilityState, NEW c \in Caller, ControlListener(c), UNCHANGED <<subsVars, role>>,
         UNCHANGED <<told, kept>>
  PROVE  FacilityInv'
<1>1. /\ call' = call /\ UNCHANGED <<counter, idMap>> /\ role[c] = "control"
      /\ Serving(c) /\ Fits(c) /\ Awaits(c) /\ Withholds(c)
      /\ task \in [Caller -> Task] /\ kept \subseteq Wanted
      /\ registered' = registered /\ holder' = holder
  <2>1. registered' = registered /\ holder' = holder
    BY DEF ControlListener
  <2>2. Serving(c)
    BY DEF ControlListener, Doing, Serving
  <2>3. Fits(c) /\ Awaits(c) /\ Withholds(c)
    BY <2>2 DEF FacilityState, FacilityInv
  <2>4. role[c] = "control"
    BY <2>2, <2>3 DEF ControlListener, Doing, Serving, Fits
  <2>5. task \in [Caller -> Task] /\ kept \subseteq Wanted
    BY DEF FacilityState, FacilityInv, FacilityTypes
  <2>6. QED
    BY <2>1, <2>2, <2>3, <2>4, <2>5 DEF subsVars, idVars
<1>2. \A x \in idMap : IsKnown(x[1])'
  BY <1>1 DEF IsKnown, FacilityState, FacilityInv
<1>3. ASSUME NEW t, task' = [task EXCEPT ![c] = t], t.op \in {"idle", "removeAll", "restart", "readd", "add"},
             t.op = "removeAll" => stopped', t.op \in {"restart", "readd", "add"} \/ t.specs = {},
             call[c].at = "out", task[c].op # "taking",
             \A i \in 0..MaxId, s \in Wanted : IsEntry(i, s)' => IsEntry(i, s),
             task'[c] = t /\ (\A d \in Caller : d # c => task'[d] = task[d])
               => \A s \in kept : IsCovered(s)'
      PROVE  FacilityInv'
  <2>1. task'[c] = t /\ \A d \in Caller : d # c => task'[d] = task[d]
    BY <1>1, <1>3
  <2>2. Fits(c)' /\ Awaits(c)' /\ Withholds(c)'
    <3>1. Fits(c)'
      BY <1>1, <1>3, <2>1 DEF Fits
    <3>2. QED
      BY <1>1, <1>3, <2>1, <3>1 DEF Awaits, Withholds
  <2>3. QED
    BY <1>1, <1>2, <1>3, <2>1, <2>2, TaskChanges
<1>4. task[c].op \in {"idle", "restart", "readd"} => call[c].at = "out"
  BY <1>1 DEF Fits
<1>5. ASSUME NEW t, task'[c] = t, \A d \in Caller : d # c => task'[d] = task[d],
             restartInfo \subseteq restartInfo', task[c].op \in {"idle", "restart", "readd"},
             \A s \in task[c].specs : s \in t.specs \/ (t.op = "add" /\ t.spec = s)
      PROVE  \A s \in kept : IsCovered(s)'
  <2>1. Others(c)
    BY <1>1, <1>5 DEF Others
  <2>2. QED
    BY <1>1, <1>5, <2>1, CoverStays DEF FacilityState, FacilityInv
<1>6. restartInfo' = restartInfo => \A i, s : IsEntry(i, s)' => IsEntry(i, s)
  BY <1>1 DEF IsEntry
<1>7. CASE /\ task[c].op = "idle" /\ stopped' = TRUE /\ restartInfo' = restartInfo
           /\ task' = [task EXCEPT ![c].op = "removeAll"]
  <2> DEFINE t == [task[c] EXCEPT !.op = "removeAll"]
  <2>1. task' = [task EXCEPT ![c] = t] /\ t.op = "removeAll" /\ t.specs = task[c].specs
    BY <1>1, <1>7 DEF Task
  <2> HIDE DEF t
  <2>2. task[c].specs = {}
    BY <1>1, <1>7 DEF Fits
  <2>3. QED
    BY <1>3, <1>4, <1>5, <1>6, <1>7, <2>1, <2>2
<1>8. CASE /\ task[c].op = "idle" /\ restartInfo' = {} /\ stopped' = stopped
           /\ task' = [task EXCEPT ![c].op = "restart", ![c].specs = {x[1] : x \in restartInfo}]
  <2> DEFINE t == [task[c] EXCEPT !.op = "restart", !.specs = {x[1] : x \in restartInfo}]
  <2>1. /\ task' = [task EXCEPT ![c] = t] /\ t.op = "restart"
        /\ t.specs = {x[1] : x \in restartInfo}
    BY <1>1, <1>8 DEF Task
  <2> HIDE DEF t
  <2>2. task[c].specs = {}
    BY <1>1, <1>8 DEF Fits
  <2>3. \A i, s : IsEntry(i, s)' => IsEntry(i, s)
    BY <1>1, <1>8 DEF IsEntry
  <2>4. ASSUME task'[c] = t, \A d \in Caller : d # c => task'[d] = task[d], NEW s \in kept
        PROVE  IsCovered(s)'
    <3>1. IsCovered(s)
      BY DEF FacilityState, FacilityInv
    <3>2. CASE \E x \in restartInfo : x[1] = s
      <4>1. s \in t.specs
        BY <2>1, <3>2
      <4>2. QED
        BY <2>4, <4>1 DEF IsCovered
    <3>3. CASE ~ \E x \in restartInfo : x[1] = s
      BY <1>1, <1>8, <2>2, <2>4, <3>1, <3>3 DEF IsCovered
    <3>4. QED
      BY <3>2, <3>3
  <2>5. QED
    BY <1>3, <1>4, <1>8, <2>1, <2>3, <2>4
<1>9. CASE /\ task[c].op = "restart" /\ restartInfo' = restartInfo
           /\ task' = [task EXCEPT ![c].op = "readd"]
  <2> DEFINE t == [task[c] EXCEPT !.op = "readd"]
  <2>1. task' = [task EXCEPT ![c] = t] /\ t.op = "readd" /\ t.specs = task[c].specs
    BY <1>1, <1>9 DEF Task
  <2> HIDE DEF t
  <2>2. QED
    BY <1>3, <1>4, <1>5, <1>6, <1>9, <2>1
<1>10. CASE /\ task[c].op = "readd" /\ restartInfo' = restartInfo /\ stopped' = stopped
            /\ task[c].specs = {} /\ task' = [task EXCEPT ![c] = Idle]
  <2>1. Idle.op = "idle" /\ Idle.specs = {}
    BY DEF Idle
  <2>2. QED
    BY <1>3, <1>4, <1>5, <1>6, <1>10, <2>1
<1>11. ASSUME NEW s \in task[c].specs, task[c].op = "readd", restartInfo' = restartInfo,
              task' = [task EXCEPT ![c].op = "add", ![c].spec = s, ![c].specs = @ \ {s}]
       PROVE  FacilityInv'
  <2> DEFINE t == [task[c] EXCEPT !.op = "add", !.spec = s, !.specs = @ \ {s}]
  <2>1. /\ task' = [task EXCEPT ![c] = t] /\ t.op = "add" /\ t.spec = s
        /\ t.specs = task[c].specs \ {s}
    BY <1>1, <1>11 DEF Task
  <2> HIDE DEF t
  <2>2. QED
    BY <1>3, <1>4, <1>5, <1>6, <1>11, <2>1
<1>12. QED
  BY <1>7, <1>8, <1>9, <1>10, <1>11 DEF ControlListener, Doing

\* An object that is being freed stays the map's until it is.
LEMMA OwnedStays ==
  ASSUME SubsTypes, Sound, OwnedWhileFreed, SubsStep
  PROVE  OwnedWhileFreed'
<1>1. \A d \in Caller : lock = d <=> call[d].at = "freeing"
  BY DEF Sound, FreeingHolds
<1>2. call \in [Caller -> Doings] /\ obj \in Seq(Object) /\ Len(obj) \in Nat
  BY ObjectFacts DEF SubsTypes
<1>3. ASSUME NEW c \in Caller, NEW at \in CallAt, NEW x \in Doings, x.at = at,
             call' = [call EXCEPT ![c] = x],
             kind' = kind, subs \subseteq subs' \/ call[c].at = "freeing",
             at = "freeing" => x.o \in subs'
      PROVE  OwnedWhileFreed'
  <2>1. call'[c] = x /\ \A d \in Caller : d # c => call'[d] = call[d]
    BY <1>2, <1>3
  <2>2. ASSUME kind # "rabbitmq", NEW d \in Caller, call'[d].at = "freeing"
        PROVE  call'[d].o \in subs'
    <3>1. CASE d = c
      BY <1>3, <2>1, <2>2, <3>1
    <3>2. CASE d # c
      <4>1. call[d].at = "freeing" /\ call'[d] = call[d]
        BY <2>1, <2>2, <3>2
      <4>2. call[c].at # "freeing"
        BY <1>1, <3>2, <4>1
      <4>3. QED
        BY <1>3, <2>2, <4>1, <4>2 DEF OwnedWhileFreed
    <3>3. QED
      BY <3>1, <3>2
  <2>3. QED
    BY <1>3, <2>2 DEF OwnedWhileFreed
<1>4. ASSUME Inert
      PROVE  OwnedWhileFreed'
  <2>1. \A d \in Caller : call'[d].at = "freeing" => call'[d] = call[d]
    BY <1>4 DEF Inert, Idling
  <2>2. QED
    BY <1>4, <2>1 DEF Inert, OwnedWhileFreed
<1>5. kind' = "rabbitmq" => OwnedWhileFreed'
  BY DEF OwnedWhileFreed
<1>6. ASSUME NEW c \in Caller, NEW x \in Doings, call' = [call EXCEPT ![c] = x],
             kind' = kind, subs \subseteq subs' \/ call[c].at = "freeing", x.at # "freeing"
      PROVE  OwnedWhileFreed'
  <2>1. x.at \in CallAt
    BY <1>6 DEF Doings
  <2>2. QED
    BY <1>3, <1>6, <2>1
<1>7. ASSUME NEW c \in Caller, CallerSteps(c)
      PROVE  OwnedWhileFreed'
  <2>1. CASE Registers(c)
    <3>1. Draws(c, call[c].o) /\ kind' = kind /\ call'[c].at # "freeing"
      BY <1>2, <2>1, RegistersDraws DEF Registers, Register, Out
    <3>2. \A d \in Caller : d # c => call'[d] = call[d]
      BY <1>2, <3>1 DEF Draws
    <3>3. QED
      BY <3>1, <3>2 DEF Draws, OwnedWhileFreed
  <2>2. CASE Misuses(c)
    <3>1. call' = call /\ subs' = subs /\ kind' = kind
      BY <2>2 DEF Misuses, Misuse, objVars
    <3>2. QED
      BY <3>1 DEF OwnedWhileFreed
  <2>3. CASE Takes(c)
    <3>1. PICK i \in 0..MaxId : TakeId(c, i)
      BY <2>3 DEF Takes
    <3>2. subs' = subs /\ kind' = kind
      BY <3>1 DEF TakeId, objVars
    <3>3. \E x : call' = [call EXCEPT ![c] = x] /\ x.at # "freeing"
      <4>1. \A o : [Out EXCEPT !.at = "removing", !.o = o, !.id = i].at # "freeing"
        BY DEF Out
      <4>2. [Out EXCEPT !.at = "removed", !.id = i].at # "freeing"
        BY DEF Out
      <4>3. QED
        BY <3>1, <4>1, <4>2 DEF TakeId
    <3>4. call'[c].at # "freeing" /\ \A d \in Caller : d # c => call'[d] = call[d]
      BY <1>2, <3>3
    <3>5. QED
      BY <3>2, <3>4 DEF OwnedWhileFreed
  <2>4. CASE Drops(c) \/ Stops(c)
    <3>1. MovesOn(c) /\ kind' = kind
      BY <2>4, DropsMoves, StopsMoves DEF Drops, Drop, Stops, StopIfUnused
    <3>2. PICK x \in Doings : call' = [call EXCEPT ![c] = x] /\ (x.at = "freeing" => x.o \in subs')
      BY <3>1 DEF MovesOn
    <3>3. subs \subseteq subs' \/ call[c].at = "freeing"
      BY <3>1 DEF MovesOn
    <3>4. QED
      BY <1>3, <3>1, <3>2, <3>3 DEF Doings
  <2>5. CASE Frees(c)
    <3>1. call[c].at = "freeing" /\ kind' = kind /\ Back(c, "removed")
      BY <2>5 DEF Frees, Free
    <3>2. call'[c].at # "freeing" /\ \A d \in Caller : d # c => call'[d] = call[d]
      BY <1>2, <3>1 DEF Back, Out
    <3>3. \A d \in Caller : call'[d].at # "freeing"
      BY <1>1, <3>1, <3>2
    <3>4. QED
      BY <3>3 DEF OwnedWhileFreed
  <2>6. CASE AddsExchange(c) \/ RemovesExchange(c) \/ RabbitMQErase(c)
    BY <1>5, <2>6 DEF AddsExchange, RemovesExchange, RabbitMQAdd, RabbitMQRemove,
                      RabbitMQErase, RabbitMQ
  <2>7. CASE Returns(c)
    BY <1>4, <2>7, ReturnsIsInert
  <2>8. QED
    BY <1>7, <2>1, <2>2, <2>3, <2>4, <2>5, <2>6, <2>7 DEF CallerSteps
<1>8. CASE Finds
  <2>1. PICK c \in Caller, key \in Key, l \in Locator, f \in Filter, tp \in Filter :
          FindOrMake(c, key, l, f, tp)
    BY <1>8 DEF Finds
  <2>2. Enters(c) /\ kind' = kind
    BY <2>1, FindOrMakeEnters DEF FindOrMake
  <2>3. PICK x \in Doings : x.at = "adding" /\ call' = [call EXCEPT ![c] = x]
    BY <2>2 DEF Enters
  <2>4. QED
    BY <1>6, <2>2, <2>3 DEF Enters, NoNewListener
<1>9. QED
  BY <1>4, <1>7, <1>8, ThreadStepsAreInert, ShmStepsAreInert, SendsIsInert, OpenIsInert DEF SubsStep

-----------------------------------------------------------------------------
(* The facility keeps track.                                               *)

\* Nobody's role changes.
LEMMA RolesStay ==
  ASSUME [Next]_vars
  PROVE  role' = role
<1>1. ASSUME NEW c \in Caller, CallNext(c)
      PROVE  role' = role
  BY <1>1 DEF CallNext, nodeVars
<1>2. ASSUME NEW o \in 1..Len(obj), ThreadNext(o)
      PROVE  role' = role
  BY <1>2 DEF ThreadNext
<1>3. CASE ExporterNext
  BY <1>3 DEF ExporterNext, ExporterStep, ZeroMQExporter, NNGExporter, MulticastExporter,
     SinglecastExporter, RedisExporter, RabbitMQExporter, ShmExporter, Exports, nodeVars
<1>4. ASSUME NEW c \in Caller, NodeNext(c)
      PROVE  role' = role
  <2>1. CASE \/ \E m \in Command : Control(c, m)
             \/ ImporterReturns(c) \/ FetchStoresId(c) \/ ReaperReturns(c)
    BY <2>1 DEF Control, ImporterReturns, FetchStoresId, ReaperReturns
  <2>2. CASE \/ ZeroMQImporter(c) \/ NNGImporter(c) \/ MulticastImporter(c)
             \/ SinglecastImporter(c) \/ RedisImporter(c) \/ RabbitMQImporter(c)
             \/ ShmImporter(c)
    BY <2>2 DEF ZeroMQImporter, NNGImporter, MulticastImporter, SinglecastImporter,
       RedisImporter, RabbitMQImporter, ShmImporter, ImporterStarts, ImporterStops, Carry
  <2>3. CASE \/ ZeroMQFetchFirst(c) \/ NNGFetchFirst(c) \/ MulticastFetchFirst(c)
             \/ SinglecastFetchFirst(c) \/ RedisFetchFirst(c) \/ RabbitMQFetchFirst(c)
             \/ ShmFetchFirst(c)
    BY <2>3 DEF ZeroMQFetchFirst, NNGFetchFirst, MulticastFetchFirst, SinglecastFetchFirst,
       RedisFetchFirst, RabbitMQFetchFirst, ShmFetchFirst, FetchBegins, ReaperBegins
  <2>4. QED
    BY <1>4, <2>1, <2>2, <2>3 DEF NodeNext, NodeStep
<1>5. ASSUME NEW c \in Caller, ListenerNext(c)
      PROVE  role' = role
  <2>1. CASE \/ \E s \in Wanted : AskToAdd(c, s)
             \/ \E i \in 1..MaxId : AskToRemove(c, i)
             \/ AskToRemoveAll(c) \/ Note(c) \/ Forget(c) \/ Quiet
    BY <2>1 DEF AskToAdd, AskToRemove, AskToRemoveAll, Note, Forget, Quiet, nodeVars
  <2>2. CASE Record(c) \/ Unlisten(c)
    BY <2>2 DEF Record, Unlisten, nodeVars
  <2>3. CASE RemoveAll(c)
    BY <2>3 DEF RemoveAll, Quiet, nodeVars
  <2>4. CASE \/ ListenMulticast(c) \/ ListenSinglecast(c) \/ ListenRabbitMQ(c)
             \/ ListenRedis(c) \/ ListenZeroMQ(c) \/ ListenNNG(c) \/ ListenShm(c)
    BY <2>4 DEF ListenMulticast, ListenSinglecast, ListenRabbitMQ, ListenRedis, ListenZeroMQ,
       ListenNNG, ListenShm, Listen, nodeVars
  <2>5. QED
    BY <1>5, <2>1, <2>2, <2>3, <2>4 DEF ListenerNext, ListenerStep
<1>6. QED
  BY <1>1, <1>2, <1>3, <1>4, <1>5 DEF Next, vars, nodeVars

\* A node's step is an importer's, a fetch's or a reaper's.
LEMMA NodesHaveRoles ==
  ASSUME NEW c \in Caller, NodeNext(c)
  PROVE  role[c] \in {"importer", "fetcher", "reaper"}
<1>1. CASE \/ \E m \in Command : Control(c, m)
           \/ ImporterReturns(c) \/ FetchStoresId(c) \/ ReaperReturns(c)
  BY <1>1 DEF Control, ImporterReturns, FetchStoresId, ReaperReturns
<1>2. CASE \/ ZeroMQImporter(c) \/ NNGImporter(c) \/ MulticastImporter(c)
           \/ SinglecastImporter(c) \/ RedisImporter(c) \/ RabbitMQImporter(c)
           \/ ShmImporter(c)
  BY <1>2 DEF ZeroMQImporter, NNGImporter, MulticastImporter, SinglecastImporter,
     RedisImporter, RabbitMQImporter, ShmImporter, ImporterStarts, ImporterStops, Carry
<1>3. CASE \/ ZeroMQFetchFirst(c) \/ NNGFetchFirst(c) \/ MulticastFetchFirst(c)
           \/ SinglecastFetchFirst(c) \/ RedisFetchFirst(c) \/ RabbitMQFetchFirst(c)
           \/ ShmFetchFirst(c)
  BY <1>3 DEF ZeroMQFetchFirst, NNGFetchFirst, MulticastFetchFirst, SinglecastFetchFirst,
     RedisFetchFirst, RabbitMQFetchFirst, ShmFetchFirst, FetchBegins, ReaperBegins
<1>4. QED
  BY <1>1, <1>2, <1>3 DEF NodeNext, NodeStep

\* Every step keeps what the facility relies on.
LEMMA FacilityStepKeeps ==
  ASSUME Types, Sound, OwnedWhileFreed, FacilityAlone(role), FacilityInv, [Next]_vars
  PROVE  FacilityInv'
<1>1. FacilityState /\ role' = role
  BY RolesStay DEF FacilityState, Types
<1>2. ASSUME NEW c \in Caller, CallNext(c)
      PROVE  FacilityInv'
  <2>1. UNCHANGED listenerVars
    BY <1>2 DEF CallNext
  <2>2. \/ call[c].at = "adding" /\ Draws(c, call[c].o)
        \/ MovesOn(c)
        \/ Silent
    BY <1>2, CallNextDoes DEF Types
  <2>3. QED
    BY <1>1, <2>1, <2>2, ComponentKeepsFacility
<1>3. ASSUME NEW o \in 1..Len(obj), ThreadNext(o)
      PROVE  FacilityInv'
  <2>1. UNCHANGED listenerVars /\ Silent
    BY <1>3, ThreadNextIsSilent DEF ThreadNext, Types
  <2>2. QED
    BY <1>1, <2>1, ComponentKeepsFacility
<1>4. CASE ExporterNext
  <2>1. UNCHANGED listenerVars /\ Silent
    BY <1>4, ExporterNextIsSilent DEF ExporterNext, Types
  <2>2. QED
    BY <1>1, <2>1, ComponentKeepsFacility
<1>5. ASSUME NEW c \in Caller, NodeNext(c)
      PROVE  FacilityInv'
  BY <1>5, NodesHaveRoles DEF FacilityAlone
<1>6. ASSUME NEW c \in Caller, ListenerNext(c)
      PROVE  FacilityInv'
  <2>1. CASE ControlListener(c) /\ Quiet /\ UNCHANGED <<told, kept>>
    BY <1>1, <2>1, ControlKeeps DEF Quiet
  <2>2. QED
    BY <1>1, <1>6, <2>1, AskToAddKeeps, AskToRemoveKeeps, AskToRemoveAllKeeps, NoteKeeps,
       ForgetKeeps, RecordKeeps, UnlistenKeeps, RemoveAllKeeps, ListenKeeps
    DEF ListenerNext, ListenerStep
<1>7. CASE UNCHANGED vars
  <2>1. UNCHANGED listenerVars /\ call' = call /\ UNCHANGED <<obj, subs, counter, idMap>>
    BY <1>7 DEF vars, subsVars, objVars, idVars
  <2>2. Silent
    BY <2>1 DEF Silent, NoNewListener, Listening
  <2>3. QED
    BY <1>1, <2>1, <2>2, ComponentKeepsFacility
<1>8. QED
  BY <1>2, <1>3, <1>4, <1>5, <1>6, <1>7 DEF Next

\* The facility starts with nothing registered.
LEMMA FacilityInvAtFirst ==
  ASSUME Init
  PROVE  FacilityInv
<1>1. SubsInit /\ ListenerInit
  BY DEF Init
<1>2. Idle.op = "idle" /\ Idle.specs = {} /\ Out.at = "out"
  BY DEF Idle, Out
<1>3. \A c \in Caller : task[c] = Idle /\ call[c] = Out
  BY <1>1 DEF ListenerInit, SubsInit
<1>4. EntriesAgree
  BY <1>1, <1>2, <1>3 DEF ListenerInit, EntriesAgree, IsEntry
<1>5. \A c \in Caller : Fits(c) /\ Awaits(c) /\ Withholds(c)
  BY <1>1, <1>2, <1>3, SubscriptionsAssumption DEF ListenerInit, Fits, Awaits, Withholds
<1>6. QED
  BY <1>1, <1>4, <1>5 DEF FacilityInv, ListenerInit, SubsInit

\* What the facility and the freeing of objects rely on, in every state.
FacilityStays ==
  /\ OwnedWhileFreed
  /\ FacilityAlone(role) \/ NodesAlone(role)
  /\ FacilityAlone(role) => FacilityInv

\* It is so at first, and every step keeps it.
LEMMA FacilityStaysHolds ==
  ASSUME OneUser
  PROVE  Spec => []FacilityStays
<1>1. Init => FacilityStays
  <2> SUFFICES ASSUME Init
               PROVE  FacilityStays
    OBVIOUS
  <2>1. FacilityInv
    BY FacilityInvAtFirst
  <2>2. FacilityAlone(role) \/ NodesAlone(role)
    BY DEF Init, NodesInit, OneUser
  <2>3. OwnedWhileFreed
    BY DEF Init, SubsInit, OwnedWhileFreed, Out
  <2>4. QED
    BY <2>1, <2>2, <2>3 DEF FacilityStays
<1>2. IndInv /\ FacilityStays /\ [Next]_vars => FacilityStays'
  <2> SUFFICES ASSUME Types, Sound, FacilityStays, [Next]_vars
               PROVE  FacilityStays'
    BY DEF IndInv
  <2>1. role' = role
    BY RolesStay
  <2>2. OwnedWhileFreed'
    BY NextIsStep, OwnedStays DEF FacilityStays, Types
  <2>3. FacilityAlone(role) => FacilityInv'
    BY FacilityStepKeeps DEF FacilityStays
  <2>4. FacilityAlone(role)' <=> FacilityAlone(role)
    BY <2>1 DEF FacilityAlone
  <2>5. NodesAlone(role)' <=> NodesAlone(role)
    BY <2>1 DEF NodesAlone
  <2>6. QED
    BY <2>2, <2>3, <2>4, <2>5 DEF FacilityStays
<1>3. QED
  BY <1>1, <1>2, IndInvHolds, PTL DEF Spec

\* A listener that the component has is one the facility knows, and what nobody
\* asked to remove is registered, written down or being added, however the
\* facility's two threads and their calls overlap.
THEOREM FacilityAlwaysKeepsTrack ==
  ASSUME OneUser
  PROVE  Spec => []FacilityKeepsTrack
<1>1. FacilityStays => FacilityKeepsTrack
  <2> SUFFICES ASSUME FacilityStays, NEW e \in Caller, Serving(e)
               PROVE  /\ \A x \in idMap : \/ \E r \in registered : r[1] = x[1]
                                          \/ \E c \in Caller : call[c].at = "added" /\ call[c].id = x[1]
                      /\ \A s \in kept : \/ \E r \in registered : r[2] = s
                                         \/ \E x \in restartInfo : x[1] = s
                                         \/ \E c \in Caller : s \in task[c].specs
                                         \/ \E c \in Caller : /\ task[c].op \in {"add", "adding", "note"}
                                                              /\ task[c].spec = s
    BY DEF FacilityKeepsTrack, OneRequestAtATime
  <2>1. FacilityInv
    BY DEF FacilityStays, Serving, NodesAlone
  <2>2. QED
    BY <2>1 DEF FacilityInv, IsKnown, IsCovered
<1>2. QED
  BY <1>1, FacilityStaysHolds, PTL

-----------------------------------------------------------------------------
(* The inductive invariant of the nodes.                                   *)

\* The id of the listener that an importer or a fetch has, once it is drawn.
Owned(c) == IF call[c].at = "added" THEN call[c].id
            ELSE IF role[c] = "importer" THEN node[c].client
            ELSE IF role[c] = "fetcher" THEN fetch[c].id
            ELSE 0

\* Whose listener has been taken away, by a thread that had read the id.
TakenAway(f) == fetch[f].reap = "over" /\ ~fetch[f].early

\* A node is in the call that its own state says it is in.
Plays(c) ==
  /\ call[c].at = "added" => call[c].id # 0
  /\ role[c] = "importer" =>
       /\ call[c].at \in {"out", "adding", "added"} \cup Giving
       /\ call[c].at \in {"adding", "added"} => node[c].client = 0
       /\ call[c].at \in Giving => node[c].client # 0 /\ call[c].id = node[c].client
  /\ role[c] = "fetcher" =>
       /\ IF fetch[c].at = "asking" THEN call[c].at \in {"adding", "added"} ELSE call[c].at = "out"
       /\ fetch[c].id # 0 <=> fetch[c].at = "asked"
       /\ fetch[c].reap \in {"now", "over"} /\ ~fetch[c].early => fetch[c].at = "asked"
  /\ role[c] = "reaper" => call[c].at \in {"out"} \cup Giving
  /\ role[c] = "idle" => call[c].at \in {"out", "publishing", "late"}

\* Without overlapping commands an importer is settled, or the last command
\* waits alone, or it is the one that is being carried out.
LastWins(c) ==
  role[c] = "importer" /\ ~node[c].overlapped =>
    \/ /\ \A m \in Command : node[c].waiting[m] = 0
       /\ \/ call[c].at = "out" /\ (node[c].client # 0 <=> node[c].last = "start")
          \/ call[c].at \in {"adding", "added"} /\ node[c].last = "start"
          \/ call[c].at \in Giving /\ node[c].last = "stop"
    \/ /\ call[c].at = "out" /\ node[c].waiting[node[c].last] = 1
       /\ \A m \in Command : m # node[c].last => node[c].waiting[m] = 0

\* A reaper gives back what its fetch has stored.
Reaps(c) ==
  role[c] = "reaper" /\ call[c].at \in Giving /\ call[c].id # 0 =>
    \E f \in Caller : /\ role[f] = "fetcher" /\ fetch[f].reap = "now" /\ ~fetch[f].early
                      /\ fetch[f].id = call[c].id

\* An id has one owner, leads to one object and is given back by one call, when
\* it is in the map no more.
OwnedOnce ==
  /\ \A c \in Caller : Owned(c) \in 0..counter
  /\ \A c, d \in Caller : Owned(c) = Owned(d) /\ Owned(c) # 0 => c = d

MappedOnce == \A x, y \in idMap : x[1] = y[1] => x[2] = y[2]

GivenOnce ==
  /\ \A c \in Caller : call[c].at \in Giving =>
       call[c].id <= counter /\ \A x \in idMap : x[1] # call[c].id
  /\ \A c, d \in Caller :
       call[c].at \in Giving /\ call[d].at \in Giving /\ call[c].id = call[d].id
       /\ call[c].id # 0 => c = d

\* An importer's id is in the map until it gives it back.
Held(c) == role[c] = "importer" /\ call[c].at \notin Giving /\ Owned(c) # 0
             => \E x \in idMap : x[1] = Owned(c)

\* A call that is about to take a listener out of its object.
TakesOut(c, y) == /\ call[c].at \in {"removing", "freeing"}
                  /\ call[c].id = y[2].id /\ call[c].o = y[1]

\* A listener is in the map, or a call is about to take it out; a fetch has none
\* but its own, and none once that has been taken away.
Listed(y) ==
  /\ <<y[2].id, y[1]>> \in idMap \/ \E c \in Caller : TakesOut(c, y)
  /\ role[y[2].by] = "fetcher" => y[2].id = Owned(y[2].by) /\ ~TakenAway(y[2].by)

NodesInv ==
  /\ \A c \in Caller : Plays(c) /\ LastWins(c) /\ Reaps(c) /\ Held(c)
  /\ OwnedOnce /\ MappedOnce /\ GivenOnce
  /\ \A y \in Listening : Listed(y)

NodesState ==
  SubsTypes /\ NodeTypes /\ IdsAreDrawnOnce /\ NodesAlone(role) /\ NodesInv

\* What is left to show of a step that draws no id and begins to give none back.
LEMMA QuietNodes ==
  ASSUME NodesState, role' = role, UNCHANGED <<counter, idMap>>, Listening' \subseteq Listening,
         \A d \in Caller : call'[d].at \in Giving
                             => call[d].at \in Giving /\ call'[d].id = call[d].id,
         \A d \in Caller : Owned(d)' = Owned(d) \/ (role[d] = "importer" /\ Owned(d)' = 0),
         \A d \in Caller : role[d] = "importer" /\ call[d].at \in Giving /\ call'[d].at \notin Giving
                             => Owned(d)' = 0,
         \A d \in Caller : \A y \in Listening' : TakesOut(d, y) => call'[d] = call[d],
         \A y \in Listening' : role[y[2].by] = "fetcher" /\ TakenAway(y[2].by)'
                                 => TakenAway(y[2].by),
         \A d \in Caller : Plays(d)' /\ LastWins(d)' /\ Reaps(d)'
  PROVE  NodesInv'
<1>1. /\ OwnedOnce /\ MappedOnce /\ GivenOnce /\ \A d \in Caller : Held(d)
      /\ \A y \in Listening : Listed(y)
  BY DEF NodesState, NodesInv
<1>2. OwnedOnce'
  BY <1>1, SubscriptionsAssumption DEF OwnedOnce, NodesState, SubsTypes
<1>3. MappedOnce'
  BY <1>1 DEF MappedOnce
<1>4. GivenOnce'
  <2>1. \A d \in Caller : call'[d].at \in Giving =>
          call'[d].id <= counter' /\ \A x \in idMap' : x[1] # call'[d].id
    BY <1>1 DEF GivenOnce
  <2>2. \A d, e \in Caller :
          call'[d].at \in Giving /\ call'[e].at \in Giving /\ call'[d].id = call'[e].id
          /\ call'[d].id # 0 => d = e
    BY <1>1 DEF GivenOnce
  <2>3. QED
    BY <2>1, <2>2 DEF GivenOnce, Giving
<1>5. ASSUME NEW d \in Caller
      PROVE  Held(d)'
  <2>1. SUFFICES ASSUME role[d] = "importer", call'[d].at \notin Giving, Owned(d)' # 0
                 PROVE  \E x \in idMap' : x[1] = Owned(d)'
    BY DEF Held, Giving
  <2>2. Owned(d)' = Owned(d) /\ call[d].at \notin Giving
    BY <2>1
  <2>3. QED
    BY <1>1, <2>1, <2>2 DEF Held
<1>6. ASSUME NEW y \in Listening'
      PROVE  Listed(y)'
  <2>1. Listed(y) /\ y[2].by \in Caller
    BY <1>1, <1>6 DEF Listening, Listener
  <2>2. <<y[2].id, y[1]>> \in idMap' \/ \E d \in Caller : TakesOut(d, y)'
    BY <1>6, <2>1 DEF Listed, TakesOut
  <2>3. role'[y[2].by] = "fetcher" => y[2].id = Owned(y[2].by)' /\ ~TakenAway(y[2].by)'
    BY <1>6, <2>1 DEF Listed
  <2>4. QED
    BY <2>2, <2>3 DEF Listed
<1>7. QED
  BY <1>2, <1>3, <1>4, <1>5, <1>6 DEF NodesInv

\* What is left to show when an id is drawn for a node that has none.
LEMMA DrawsForNode ==
  ASSUME NodesState, NEW c \in Caller, NEW o, Draws(c, o), role' = role,
         Owned(c) = 0, call[c].at \notin Giving,
         \A d \in Caller \ {c} : Owned(d)' = Owned(d),
         \A d \in Caller : TakenAway(d)' => TakenAway(d),
         role[c] = "fetcher" => ~TakenAway(c),
         \A d \in Caller : Plays(d)' /\ LastWins(d)' /\ Reaps(d)'
  PROVE  NodesInv'
<1> DEFINE i == counter + 1
           x == [Out EXCEPT !.at = "added", !.id = i]
<1>1. /\ OwnedOnce /\ MappedOnce /\ GivenOnce /\ \A d \in Caller : Held(d)
      /\ \A y \in Listening : Listed(y)
      /\ \A w \in idMap : w[1] <= counter
      /\ counter \in Nat /\ call \in [Caller -> Doings]
      /\ idMap \subseteq (1..MaxId) \X (1..Len(obj))
  BY DEF NodesState, NodesInv, SubsTypes, IdsAreDrawnOnce
<1>2. /\ counter' = i /\ idMap' = idMap \cup {<<i, o>>} /\ call' = [call EXCEPT ![c] = x]
      /\ \A y \in Listening' : y \in Listening \/ (y[1] = o /\ y[2].id = i /\ y[2].by = c)
  BY DEF Draws
<1>3. x.at = "added" /\ x.id = i
  BY DEF Out
<1> HIDE DEF x
<1>4. call'[c] = x /\ \A d \in Caller : d # c => call'[d] = call[d]
  BY <1>1, <1>2
<1>5. Owned(c)' = i
  BY <1>3, <1>4 DEF Owned
<1>6. OwnedOnce'
  <2>1. \A d \in Caller : d # c => Owned(d)' = Owned(d) /\ Owned(d) \in 0..counter
    BY <1>1 DEF OwnedOnce
  <2>2. \A d \in Caller : Owned(d)' \in 0..counter'
    BY <1>1, <1>2, <1>5, <2>1
  <2>3. ASSUME NEW d \in Caller, NEW e \in Caller, Owned(d)' = Owned(e)', Owned(d)' # 0
        PROVE  d = e
    <3>1. CASE d # c /\ e # c
      BY <1>1, <2>1, <2>3, <3>1 DEF OwnedOnce
    <3>2. CASE d = c \/ e = c
      BY <1>1, <1>5, <2>1, <2>3, <3>2
    <3>3. QED
      BY <3>1, <3>2
  <2>4. QED
    BY <2>2, <2>3 DEF OwnedOnce
<1>7. MappedOnce'
  <2>1. ASSUME NEW v \in idMap', NEW w \in idMap', v[1] = w[1]
        PROVE  v[2] = w[2]
    <3>1. \A z \in idMap' : z \in idMap \/ z = <<i, o>>
      BY <1>2
    <3>2. \A z \in idMap : z[1] # i
      BY <1>1
    <3>3. CASE v \in idMap /\ w \in idMap
      BY <1>1, <2>1, <3>3 DEF MappedOnce
    <3>4. CASE v = <<i, o>> /\ w = <<i, o>>
      BY <3>4
    <3>5. QED
      BY <2>1, <3>1, <3>2, <3>3, <3>4
  <2>2. QED
    BY <2>1 DEF MappedOnce
<1>8. GivenOnce'
  <2>1. \A d \in Caller : call'[d].at \in Giving => call[d].at \in Giving /\ call'[d] = call[d]
    BY <1>3, <1>4 DEF Giving
  <2>2. ASSUME NEW d \in Caller, call'[d].at \in Giving
        PROVE  call'[d].id <= counter' /\ \A w \in idMap' : w[1] # call'[d].id
    <3>1. call'[d].id = call[d].id /\ call[d].id <= counter /\ call[d].id \in Nat
      BY <1>1, <2>1, <2>2 DEF GivenOnce, Doings
    <3>2. \A w \in idMap : w[1] # call[d].id
      BY <1>1, <2>1, <2>2 DEF GivenOnce
    <3>3. QED
      BY <1>1, <1>2, <3>1, <3>2
  <2>3. \A d, e \in Caller :
          call'[d].at \in Giving /\ call'[e].at \in Giving /\ call'[d].id = call'[e].id
          /\ call'[d].id # 0 => d = e
    BY <1>1, <2>1 DEF GivenOnce
  <2>4. QED
    BY <2>2, <2>3 DEF GivenOnce, Giving
<1>9. ASSUME NEW d \in Caller
      PROVE  Held(d)'
  <2>1. CASE d = c
    <3>1. <<i, o>> \in idMap' /\ <<i, o>>[1] = i
      BY <1>2
    <3>2. QED
      BY <1>5, <2>1, <3>1 DEF Held
  <2>2. CASE d # c
    <3>1. Owned(d)' = Owned(d) /\ call'[d] = call[d] /\ Held(d)
      BY <1>1, <1>4, <2>2
    <3>2. idMap \subseteq idMap'
      BY <1>2
    <3>3. QED
      BY <3>1, <3>2 DEF Held, Giving
  <2>3. QED
    BY <2>1, <2>2
<1>10. ASSUME NEW y \in Listening'
       PROVE  Listed(y)'
  <2>1. CASE y \in Listening
    <3>1. Listed(y) /\ y[2].by \in Caller /\ y[2].id # 0
      BY <1>1, <2>1 DEF Listening, Listener
    <3>2. ASSUME NEW d \in Caller, TakesOut(d, y)
          PROVE  TakesOut(d, y)'
      BY <1>4, <3>2 DEF TakesOut, Giving
    <3>3. <<y[2].id, y[1]>> \in idMap' \/ \E d \in Caller : TakesOut(d, y)'
      BY <1>2, <3>1, <3>2 DEF Listed
    <3>4. role'[y[2].by] = "fetcher" => y[2].id = Owned(y[2].by)' /\ ~TakenAway(y[2].by)'
      BY <3>1 DEF Listed
    <3>5. QED
      BY <3>3, <3>4 DEF Listed
  <2>2. CASE y[1] = o /\ y[2].id = i /\ y[2].by = c
    <3>1. <<y[2].id, y[1]>> \in idMap'
      BY <1>2, <2>2
    <3>2. role[c] = "fetcher" => y[2].id = Owned(y[2].by)' /\ ~TakenAway(y[2].by)'
      BY <1>5, <2>2
    <3>3. QED
      BY <2>2, <3>1, <3>2 DEF Listed
  <2>3. QED
    BY <1>2, <2>1, <2>2
<1>11. QED
  BY <1>6, <1>7, <1>8, <1>9, <1>10 DEF NodesInv

\* What is left to show when a node begins to give back the id that it, or its
\* fetch, has; a fetch's id may not be stored yet.
LEMMA GivesForNode ==
  ASSUME NodesState, NEW c \in Caller, NEW i \in 0..MaxId, Gives(c, i), role' = role,
         NEW f \in Caller, i # 0 => Owned(f) = i, role[f] # "importer" \/ f = c,
         \A d \in Caller : call[d].at \in Giving => call[d].id # i \/ i = 0,
         \A d \in Caller : Owned(d)' = Owned(d) /\ (TakenAway(d)' => TakenAway(d)),
         \A d \in Caller : Plays(d)' /\ LastWins(d)' /\ Reaps(d)'
  PROVE  NodesInv'
<1>1. /\ OwnedOnce /\ MappedOnce /\ GivenOnce /\ \A d \in Caller : Held(d)
      /\ \A y \in Listening : Listed(y)
      /\ counter \in Nat /\ call \in [Caller -> Doings]
      /\ idMap \subseteq (1..MaxId) \X (1..Len(obj))
  BY DEF NodesState, NodesInv, SubsTypes
<1>2. /\ call[c].at = "out" /\ counter' = counter /\ idMap' = {w \in idMap : w[1] # i}
      /\ Listening' \subseteq Listening
  BY DEF Gives, NoNewListener
<1>3. PICK x \in Doings :
        /\ call' = [call EXCEPT ![c] = x] /\ x.id = i
        /\ \/ x.at = "removed" /\ \A w \in idMap : w[1] # i
           \/ x.at \in {"removing", "freeing"} /\ <<i, x.o>> \in idMap
  BY DEF Gives
<1>4. call'[c] = x /\ \A d \in Caller : d # c => call'[d] = call[d]
  BY <1>1, <1>3
<1>5. OwnedOnce' /\ MappedOnce'
  BY <1>1, <1>2 DEF OwnedOnce, MappedOnce
<1>6. x.at \in Giving
  BY <1>3 DEF Giving
<1>7. i <= counter
  BY <1>1 DEF OwnedOnce
<1>8. GivenOnce'
  <2>1. ASSUME NEW d \in Caller, call'[d].at \in Giving
        PROVE  call'[d].id <= counter' /\ \A w \in idMap' : w[1] # call'[d].id
    <3>1. CASE d = c
      BY <1>2, <1>3, <1>4, <1>7, <3>1
    <3>2. CASE d # c
      BY <1>1, <1>2, <1>4, <2>1, <3>2 DEF GivenOnce
    <3>3. QED
      BY <3>1, <3>2
  <2>2. ASSUME NEW d \in Caller, NEW e \in Caller, call'[d].at \in Giving,
               call'[e].at \in Giving, call'[d].id = call'[e].id, call'[d].id # 0
        PROVE  d = e
    <3>1. CASE d # c /\ e # c
      BY <1>1, <1>4, <2>2, <3>1 DEF GivenOnce
    <3>2. CASE d = c \/ e = c
      BY <1>3, <1>4, <2>2, <3>2
    <3>3. QED
      BY <3>1, <3>2
  <2>3. QED
    BY <2>1, <2>2 DEF GivenOnce, Giving
<1>9. ASSUME NEW d \in Caller
      PROVE  Held(d)'
  <2>1. CASE d = c
    BY <1>4, <1>6, <2>1 DEF Held, Giving
  <2>2. CASE d # c
    <3>1. SUFFICES ASSUME role[d] = "importer", call[d].at \notin Giving, Owned(d) # 0
                   PROVE  \E w \in idMap' : w[1] = Owned(d)
      BY <1>4, <2>2 DEF Held, Giving
    <3>2. PICK w \in idMap : w[1] = Owned(d)
      BY <1>1, <3>1 DEF Held
    <3>3. Owned(d) # i
      BY <1>1, <2>2, <3>1 DEF OwnedOnce
    <3>4. QED
      BY <1>2, <3>2, <3>3
  <2>3. QED
    BY <2>1, <2>2
<1>10. ASSUME NEW y \in Listening'
       PROVE  Listed(y)'
  <2>1. Listed(y) /\ y[2].by \in Caller
    BY <1>1, <1>2, <1>10 DEF Listening, Listener
  <2>2. ASSUME <<y[2].id, y[1]>> \in idMap
        PROVE  <<y[2].id, y[1]>> \in idMap' \/ \E d \in Caller : TakesOut(d, y)'
    <3>1. CASE y[2].id # i
      BY <1>2, <2>2, <3>1
    <3>2. CASE y[2].id = i
      <4>1. <<i, y[1]>> \in idMap /\ <<i, y[1]>>[1] = i /\ <<i, y[1]>>[2] = y[1]
        BY <2>2, <3>2
      <4>2. x.at \in {"removing", "freeing"} /\ <<i, x.o>> \in idMap
        BY <1>3, <4>1
      <4>3. <<i, x.o>>[1] = i /\ <<i, x.o>>[2] = x.o
        OBVIOUS
      <4>4. x.o = y[1]
        BY <1>1, <4>1, <4>2, <4>3 DEF MappedOnce
      <4>5. TakesOut(c, y)'
        BY <1>3, <1>4, <3>2, <4>2, <4>4 DEF TakesOut
      <4>6. QED
        BY <4>5
    <3>3. QED
      BY <3>1, <3>2
  <2>3. ASSUME NEW d \in Caller, TakesOut(d, y)
        PROVE  TakesOut(d, y)'
    BY <1>2, <1>4, <2>3 DEF TakesOut
  <2>4. <<y[2].id, y[1]>> \in idMap' \/ \E d \in Caller : TakesOut(d, y)'
    BY <2>1, <2>2, <2>3 DEF Listed
  <2>5. role'[y[2].by] = "fetcher" => y[2].id = Owned(y[2].by)' /\ ~TakenAway(y[2].by)'
    BY <2>1 DEF Listed
  <2>6. QED
    BY <2>4, <2>5 DEF Listed
<1>11. QED
  BY <1>5, <1>8, <1>9, <1>10 DEF NodesInv

\* A caller that has no part in a step stays in the call that its node is in.
LEMMA PlaysOn ==
  ASSUME NodesState, NEW d \in Caller, role' = role, call'[d] = call[d], node'[d] = node[d],
         fetch'[d] = fetch[d]
  PROVE  /\ Plays(d)' /\ LastWins(d)' /\ Owned(d)' = Owned(d)
         /\ TakenAway(d)' = TakenAway(d)
<1>1. Plays(d) /\ LastWins(d)
  BY DEF NodesState, NodesInv
<1>2. Plays(d)'
  BY <1>1 DEF Plays, Giving
<1>3. LastWins(d)'
  BY <1>1 DEF LastWins, Giving
<1>4. Owned(d)' = Owned(d)
  BY DEF Owned
<1>5. TakenAway(d)' = TakenAway(d)
  BY DEF TakenAway
<1>6. QED
  BY <1>2, <1>3, <1>4, <1>5

\* A reaper has its fetch as long as that is not over.
LEMMA ReapsOn ==
  ASSUME NodesState, NEW d \in Caller, role' = role,
         call'[d].at \in Giving => call[d].at \in Giving /\ call'[d].id = call[d].id,
         \A f \in Caller : role[f] = "fetcher" /\ fetch[f].reap = "now" /\ ~fetch[f].early
           => fetch'[f] = fetch[f]
  PROVE  Reaps(d)'
<1>1. SUFFICES ASSUME role[d] = "reaper", call'[d].at \in Giving, call'[d].id # 0
               PROVE  \E f \in Caller : /\ role[f] = "fetcher" /\ fetch'[f].reap = "now"
                                        /\ ~fetch'[f].early /\ fetch'[f].id = call'[d].id
  BY DEF Reaps, Giving
<1>2. PICK f \in Caller : /\ role[f] = "fetcher" /\ fetch[f].reap = "now" /\ ~fetch[f].early
                          /\ fetch[f].id = call[d].id
  BY <1>1 DEF NodesState, NodesInv, Reaps
<1>3. QED
  BY <1>1, <1>2

\* Threads and publishers do nothing to the nodes but start a fetch's thread.
LEMMA SilentKeepsNodes ==
  ASSUME NodesState, Silent, role' = role, node' = node,
         \A d \in Caller : \/ fetch'[d] = fetch[d]
                           \/ /\ fetch[d].reap = "no"
                              /\ fetch'[d] = [fetch[d] EXCEPT !.reap = "due"]
  PROVE  NodesInv'
<1>1. \A d \in Caller : /\ Plays(d) /\ LastWins(d) /\ Reaps(d)
                        /\ role[d] \in {"importer", "fetcher", "reaper", "idle"}
                        /\ fetch[d] \in Fetching
  BY DEF NodesState, NodesInv, NodesAlone, NodeTypes
<1>2. ASSUME NEW d \in Caller
      PROVE  /\ fetch'[d].at = fetch[d].at /\ fetch'[d].id = fetch[d].id
             /\ fetch'[d].early = fetch[d].early
             /\ \/ fetch'[d].reap = fetch[d].reap
                \/ fetch[d].reap = "no" /\ fetch'[d].reap = "due"
  <2>1. CASE fetch'[d] = fetch[d]
    BY <2>1
  <2>2. CASE /\ fetch[d].reap = "no"
             /\ fetch'[d] = [fetch[d] EXCEPT !.reap = "due"]
    <3>1. fetch[d] \in Fetching
      BY <1>1
    <3>2. QED
      BY <2>2, <3>1 DEF Fetching
  <2>3. QED
    BY <2>1, <2>2
<1>3. ASSUME NEW d \in Caller, role[d] # "idle"
      PROVE  call'[d] = call[d]
  BY <1>1, <1>3 DEF Silent, Plays, Giving
<1>4. ASSUME NEW d \in Caller
      PROVE  /\ call'[d].at \in Giving => call[d].at \in Giving /\ call'[d] = call[d]
             /\ call[d].at \in Giving => call'[d] = call[d]
             /\ Owned(d)' = Owned(d) /\ (TakenAway(d)' => TakenAway(d))
  <2>1. call'[d] = call[d] \/ {call[d].at, call'[d].at} \subseteq {"out", "publishing", "late"}
    BY DEF Silent
  <2>2. Owned(d)' = Owned(d)
    BY <1>2, <1>3, <2>1 DEF Owned
  <2>3. TakenAway(d)' => TakenAway(d)
    BY <1>2 DEF TakenAway
  <2>4. QED
    BY <2>1, <2>2, <2>3 DEF Giving
<1>5. ASSUME NEW d \in Caller
      PROVE  Plays(d)' /\ LastWins(d)' /\ Reaps(d)'
  <2>1. Plays(d)'
    <3>1. CASE role[d] = "idle"
      <4>1. call'[d].at \in {"out", "publishing", "late"}
        BY <1>1, <3>1 DEF Silent, Plays
      <4>2. QED
        BY <3>1, <4>1 DEF Plays
    <3>2. CASE role[d] # "idle"
      BY <1>1, <1>2, <1>3, <3>2 DEF Plays, Giving
    <3>3. QED
      BY <3>1, <3>2
  <2>2. LastWins(d)'
    <3>1. CASE role[d] = "importer"
      BY <1>1, <1>3, <3>1 DEF LastWins, Giving
    <3>2. QED
      BY <3>1 DEF LastWins
  <2>3. Reaps(d)'
    BY <1>4, ReapsOn
  <2>4. QED
    BY <2>1, <2>2, <2>3
<1>6. Listening' \subseteq Listening /\ UNCHANGED <<counter, idMap>>
  BY DEF Silent, NoNewListener
<1>7. \A d \in Caller : \A y \in Listening' : TakesOut(d, y) => call'[d] = call[d]
  BY <1>4 DEF TakesOut, Giving
<1>8. \A y \in Listening' : role[y[2].by] = "fetcher" /\ TakenAway(y[2].by)'
                              => TakenAway(y[2].by)
  BY <1>4, <1>6 DEF Listening, Listener
<1>9. QED
  BY <1>4, <1>5, <1>6, <1>7, <1>8, QuietNodes DEF Giving

\* The call that gives a listener back goes on.
LEMMA MovesOnKeepsNodes ==
  ASSUME NodesState, NEW c \in Caller, MovesOn(c), UNCHANGED nodeVars
  PROVE  NodesInv'
<1>1. PICK x \in Doings : /\ call' = [call EXCEPT ![c] = x] /\ x.id = call[c].id
                          /\ x.at \in Giving \ {"removing"}
  BY DEF MovesOn
<1>2. /\ call'[c] = x /\ \A d \in Caller : d # c => call'[d] = call[d]
      /\ call[c].at \in Giving \ {"removed"} /\ role[c] \in {"importer", "fetcher", "reaper", "idle"}
      /\ UNCHANGED <<role, node, fetch>>
  BY <1>1 DEF NodesState, SubsTypes, MovesOn, nodeVars, NodesAlone
<1>3. Plays(c) /\ LastWins(c) /\ Reaps(c)
  BY DEF NodesState, NodesInv
<1>4. role[c] \in {"importer", "reaper"}
  BY <1>2, <1>3 DEF Plays, Giving
<1>5. Owned(c)' = Owned(c)
  BY <1>1, <1>2 DEF Owned, Giving
<1>6. Plays(c)'
  BY <1>1, <1>2, <1>3, <1>4 DEF Plays, Giving
<1>7. LastWins(c)'
  BY <1>1, <1>2, <1>3, <1>4 DEF LastWins, Giving
<1>8. \A d \in Caller : /\ Plays(d)' /\ LastWins(d)' /\ Owned(d)' = Owned(d)
                        /\ TakenAway(d)' = TakenAway(d)
  BY <1>2, <1>5, <1>6, <1>7, PlaysOn DEF TakenAway
<1>9. \A d \in Caller : call'[d].at \in Giving => call[d].at \in Giving /\ call'[d].id = call[d].id
  BY <1>1, <1>2
<1>10. \A d \in Caller : Reaps(d)'
  BY <1>2, <1>9, ReapsOn
<1>11. UNCHANGED <<counter, idMap>> /\ Listening' \subseteq Listening
  BY DEF MovesOn
<1>12. ASSUME NEW d \in Caller, NEW y \in Listening', TakesOut(d, y)
       PROVE  call'[d] = call[d]
  <2>1. CASE d = c
    BY <1>12, <2>1 DEF TakesOut, MovesOn
  <2>2. QED
    BY <1>2, <2>1
<1>13. \A d \in Caller : ~(call[d].at \in Giving /\ call'[d].at \notin Giving)
  BY <1>1, <1>2
<1>14. \A y \in Listening' : y[2].by \in Caller
  BY <1>11 DEF Listening, Listener
<1>15. QED
  BY <1>2, <1>8, <1>9, <1>10, <1>11, <1>12, <1>13, <1>14, QuietNodes

\* The call that subscribes gets its id.
LEMMA AddedKeepsNodes ==
  ASSUME NodesState, NEW c \in Caller, call[c].at = "adding", Draws(c, call[c].o),
         UNCHANGED nodeVars
  PROVE  NodesInv'
<1>1. call' = [call EXCEPT ![c] = [Out EXCEPT !.at = "added", !.id = counter + 1]]
  BY DEF Draws
<1>2. /\ call'[c].at = "added" /\ call'[c].id = counter + 1
      /\ counter \in Nat
      /\ \A d \in Caller : d # c => call'[d] = call[d]
      /\ role[c] \in {"importer", "fetcher", "reaper", "idle"}
      /\ UNCHANGED <<role, node, fetch>>
  BY <1>1 DEF NodesState, SubsTypes, nodeVars, NodesAlone, Out
<1>3. Plays(c) /\ LastWins(c) /\ Reaps(c)
  BY DEF NodesState, NodesInv
<1>4. role[c] \in {"importer", "fetcher"}
  BY <1>2, <1>3 DEF Plays, Giving
<1>5. Owned(c) = 0 /\ (role[c] = "fetcher" => ~TakenAway(c))
  BY <1>3, <1>4 DEF Owned, Plays, TakenAway
<1>6. Plays(c)'
  BY <1>2, <1>3, <1>4 DEF Plays, Giving
<1>7. LastWins(c)'
  BY <1>2, <1>3, <1>4 DEF LastWins, Giving
<1>8. \A d \in Caller : Plays(d)' /\ LastWins(d)' /\ TakenAway(d)' = TakenAway(d)
  BY <1>2, <1>6, <1>7, PlaysOn DEF TakenAway
<1>9. \A d \in Caller \ {c} : Owned(d)' = Owned(d)
  BY <1>2, PlaysOn
<1>10. \A d \in Caller : Reaps(d)'
  BY <1>2, ReapsOn DEF Giving
<1>11. QED
  BY <1>2, <1>5, <1>8, <1>9, <1>10, DrawsForNode DEF Giving

\* A command is given; it overlaps unless the importer is settled.
LEMMA ControlKeepsNodes ==
  ASSUME NodesState, NEW c \in Caller, NEW m \in Command, Control(c, m)
  PROVE  NodesInv'
<1>1. /\ call' = call /\ obj' = obj /\ UNCHANGED <<counter, idMap, role, fetch>>
      /\ role[c] = "importer"
      /\ node' = [node EXCEPT ![c].waiting[m] = @ + 1, ![c].last = m,
                              ![c].overlapped = @ \/ ~Settled(c)]
  BY DEF Control, subsVars, objVars, idVars
<1>2. node[c] \in Importing /\ node[c].waiting \in [Command -> Nat] /\ node \in [Caller -> Importing]
  BY DEF NodesState, NodeTypes, Importing
<1>3. /\ node'[c].client = node[c].client /\ node'[c].last = m
      /\ node'[c].waiting[m] = node[c].waiting[m] + 1
      /\ \A k \in Command : k # m => node'[c].waiting[k] = node[c].waiting[k]
      /\ \A d \in Caller : d # c => node'[d] = node[d]
      /\ ~node'[c].overlapped => Settled(c)
  BY <1>1, <1>2 DEF Importing
<1>4. Plays(c) /\ LastWins(c)
  BY DEF NodesState, NodesInv
<1>5. Plays(c)' /\ Owned(c)' = Owned(c)
  BY <1>1, <1>3, <1>4 DEF Plays, Owned, Giving
<1>6. LastWins(c)'
  <2>1. SUFFICES ASSUME ~node'[c].overlapped
                 PROVE  /\ call'[c].at = "out" /\ node'[c].waiting[m] = 1
                        /\ \A k \in Command : k # m => node'[c].waiting[k] = 0
    BY <1>3 DEF LastWins
  <2>2. call[c].at = "out" /\ \A k \in Command : node[c].waiting[k] = 0
    BY <1>3, <2>1 DEF Settled
  <2>3. node'[c].waiting[m] = 1
    BY <1>3, <2>2
  <2>4. \A k \in Command : k # m => node'[c].waiting[k] = 0
    BY <1>3, <2>2
  <2>5. QED
    BY <1>1, <2>2, <2>3, <2>4
<1>7. \A d \in Caller : /\ Plays(d)' /\ LastWins(d)' /\ Owned(d)' = Owned(d)
                        /\ TakenAway(d)' = TakenAway(d)
  BY <1>1, <1>3, <1>5, <1>6, PlaysOn DEF TakenAway
<1>8. \A d \in Caller : Reaps(d)'
  BY <1>1, ReapsOn
<1>9. Listening' = Listening
  BY <1>1 DEF Listening
<1>10. \A y \in Listening' : y[2].by \in Caller
  BY <1>9 DEF Listening, Listener
<1>11. QED
  BY <1>1, <1>7, <1>8, <1>9, <1>10, QuietNodes

\* A thread takes a command up; without overlapping it is the last one.
LEMMA Carries ==
  ASSUME NodesState, NEW c \in Caller, NEW m \in Command, Carry(c, m)
  PROVE  /\ role[c] = "importer" /\ call[c].at = "out" /\ UNCHANGED <<role, fetch>>
         /\ \A d \in Caller : d # c => node'[d] = node[d]
         /\ node'[c].client = node[c].client /\ node'[c].last = node[c].last
         /\ node'[c].overlapped = node[c].overlapped
         /\ ~node[c].overlapped => /\ node[c].last = m
                                   /\ \A k \in Command : node'[c].waiting[k] = 0
<1>1. node[c] \in Importing /\ node[c].waiting \in [Command -> Nat] /\ node \in [Caller -> Importing]
  BY DEF NodesState, NodeTypes, Importing
<1>2. /\ role[c] = "importer" /\ call[c].at = "out" /\ UNCHANGED <<role, fetch>>
      /\ node[c].waiting[m] > 0
      /\ node' = [node EXCEPT ![c].waiting[m] = @ - 1]
  BY DEF Carry
<1>3. /\ \A d \in Caller : d # c => node'[d] = node[d]
      /\ node'[c].client = node[c].client /\ node'[c].last = node[c].last
      /\ node'[c].overlapped = node[c].overlapped
      /\ node'[c].waiting[m] = node[c].waiting[m] - 1
      /\ \A k \in Command : k # m => node'[c].waiting[k] = node[c].waiting[k]
  BY <1>1, <1>2 DEF Importing
<1>4. ASSUME ~node[c].overlapped
      PROVE  node[c].last = m /\ \A k \in Command : node'[c].waiting[k] = 0
  <2>1. /\ node[c].waiting[node[c].last] = 1
        /\ \A k \in Command : k # node[c].last => node[c].waiting[k] = 0
    BY <1>1, <1>2, <1>4 DEF NodesState, NodesInv, LastWins
  <2>2. node[c].last = m
    BY <1>1, <1>2, <2>1
  <2>3. QED
    BY <1>3, <2>1, <2>2
<1>5. QED
  BY <1>2, <1>3, <1>4

\* An id that a call gives back is an importer's own, or that of a fetch whose
\* thread makes the call.
LEMMA GivesBackOwned ==
  ASSUME NodesState, NEW d \in Caller, call[d].at \in Giving, call[d].id # 0
  PROVE  \E f \in Caller :
           /\ Owned(f) = call[d].id
           /\ \/ role[f] = "importer" /\ f = d
              \/ role[f] = "fetcher" /\ fetch[f].reap = "now" /\ fetch[f].id = call[d].id
<1>1. \A e \in Caller : Plays(e) /\ Reaps(e) /\ role[e] \in {"importer", "fetcher", "reaper", "idle"}
  BY DEF NodesState, NodesInv, NodesAlone
<1>2. role[d] \in {"importer", "reaper"}
  BY <1>1 DEF Plays, Giving
<1>3. CASE role[d] = "importer"
  <2>1. Owned(d) = call[d].id
    BY <1>1, <1>3 DEF Plays, Owned, Giving
  <2>2. QED
    BY <1>3, <2>1
<1>4. CASE role[d] = "reaper"
  <2>1. PICK f \in Caller : /\ role[f] = "fetcher" /\ fetch[f].reap = "now" /\ ~fetch[f].early
                            /\ fetch[f].id = call[d].id
    BY <1>1, <1>4 DEF Reaps
  <2>2. Owned(f) = call[d].id
    BY <1>1, <2>1 DEF Plays, Owned
  <2>3. QED
    BY <2>1, <2>2
<1>5. QED
  BY <1>2, <1>3, <1>4

\* start, when it finds a client_ or has to subscribe.
LEMMA ImporterStartKeeps ==
  ASSUME NodesState, NEW c \in Caller, Carry(c, "start"),
         \/ node[c].client # 0 /\ UNCHANGED subsVars
         \/ node[c].client = 0 /\ (Enters(c) \/ \E o \in Nat : Draws(c, o))
  PROVE  NodesInv'
<1>1. /\ role[c] = "importer" /\ call[c].at = "out" /\ UNCHANGED <<role, fetch>>
      /\ \A d \in Caller : d # c => node'[d] = node[d]
      /\ node'[c].client = node[c].client /\ node'[c].last = node[c].last
      /\ node'[c].overlapped = node[c].overlapped
      /\ ~node[c].overlapped => /\ node[c].last = "start"
                                /\ \A k \in Command : node'[c].waiting[k] = 0
  BY Carries DEF Command
<1>2. /\ Plays(c) /\ LastWins(c) /\ call \in [Caller -> Doings] /\ counter \in Nat
  BY DEF NodesState, NodesInv, SubsTypes
<1>3. ASSUME \A d \in Caller : d # c => call'[d] = call[d],
             call'[c].at \in {"out", "adding", "added"},
             call'[c].at = "out" => node[c].client # 0,
             call'[c].at # "out" => node[c].client = 0,
             call'[c].at = "added" => call'[c].id # 0
      PROVE  /\ \A d \in Caller : Plays(d)' /\ LastWins(d)' /\ Reaps(d)'
             /\ \A d \in Caller : TakenAway(d)' = TakenAway(d)
             /\ \A d \in Caller \ {c} : Owned(d)' = Owned(d)
  <2>1. Plays(c)'
    BY <1>1, <1>2, <1>3 DEF Plays, Giving
  <2>2. LastWins(c)'
    BY <1>1, <1>2, <1>3 DEF LastWins
  <2>3. \A d \in Caller : TakenAway(d)' = TakenAway(d)
    BY <1>1 DEF TakenAway
  <2>4. \A d \in Caller \ {c} : Plays(d)' /\ LastWins(d)' /\ Owned(d)' = Owned(d)
    BY <1>1, <1>3, PlaysOn
  <2>5. \A d \in Caller : Reaps(d)'
    BY <1>1, <1>3, ReapsOn DEF Giving
  <2>6. QED
    BY <2>1, <2>2, <2>3, <2>4, <2>5
<1>4. \A y \in Listening : y[2].by \in Caller
  BY DEF Listening, Listener
<1>5. CASE node[c].client # 0 /\ UNCHANGED subsVars
  <2>1. call' = call /\ obj' = obj /\ UNCHANGED <<counter, idMap>>
    BY <1>5 DEF subsVars, objVars, idVars
  <2>2. Listening' = Listening
    BY <2>1 DEF Listening
  <2>3. /\ \A d \in Caller : Plays(d)' /\ LastWins(d)' /\ Reaps(d)'
        /\ \A d \in Caller : TakenAway(d)' = TakenAway(d)
        /\ \A d \in Caller \ {c} : Owned(d)' = Owned(d)
    BY <1>1, <1>3, <1>5, <2>1
  <2>4. Owned(c)' = Owned(c)
    BY <1>1, <2>1 DEF Owned
  <2>5. QED
    BY <1>1, <1>4, <2>1, <2>2, <2>3, <2>4, QuietNodes
<1>6. CASE node[c].client = 0 /\ Enters(c)
  <2>1. PICK x \in Doings : x.at = "adding" /\ call' = [call EXCEPT ![c] = x]
    BY <1>6 DEF Enters
  <2>2. call'[c] = x /\ \A d \in Caller : d # c => call'[d] = call[d]
    BY <1>2, <2>1
  <2>3. /\ \A d \in Caller : Plays(d)' /\ LastWins(d)' /\ Reaps(d)'
        /\ \A d \in Caller : TakenAway(d)' = TakenAway(d)
        /\ \A d \in Caller \ {c} : Owned(d)' = Owned(d)
    BY <1>3, <1>6, <2>1, <2>2
  <2>4. Owned(c)' = Owned(c)
    BY <1>1, <2>1, <2>2 DEF Owned
  <2>5. Listening' \subseteq Listening /\ UNCHANGED <<counter, idMap>>
    BY <1>6 DEF Enters, NoNewListener
  <2>6. \A d \in Caller : \A y \in Listening' : TakesOut(d, y) => call'[d] = call[d]
    BY <1>1, <2>2 DEF TakesOut
  <2>7. \A d \in Caller : call'[d].at \in Giving => call[d].at \in Giving /\ call'[d] = call[d]
    BY <2>1, <2>2 DEF Giving
  <2>8. \A d \in Caller : ~(call[d].at \in Giving /\ call'[d].at \notin Giving)
    BY <1>1, <2>2 DEF Giving
  <2>9. QED
    BY <1>1, <1>4, <2>3, <2>4, <2>5, <2>6, <2>7, <2>8, QuietNodes
<1>7. ASSUME node[c].client = 0, NEW o \in Nat, Draws(c, o)
      PROVE  NodesInv'
  <2>1. call' = [call EXCEPT ![c] = [Out EXCEPT !.at = "added", !.id = counter + 1]]
    BY <1>7 DEF Draws
  <2>2. /\ call'[c].at = "added" /\ call'[c].id = counter + 1
        /\ \A d \in Caller : d # c => call'[d] = call[d]
    BY <1>2, <2>1 DEF Out
  <2>3. /\ \A d \in Caller : Plays(d)' /\ LastWins(d)' /\ Reaps(d)'
        /\ \A d \in Caller : TakenAway(d)' = TakenAway(d)
        /\ \A d \in Caller \ {c} : Owned(d)' = Owned(d)
    BY <1>2, <1>3, <1>7, <2>2
  <2>4. Owned(c) = 0 /\ call[c].at \notin Giving /\ role[c] # "fetcher"
    BY <1>1, <1>7 DEF Owned, Giving
  <2>5. QED
    BY <1>1, <1>7, <2>3, <2>4, DrawsForNode
<1>8. QED
  BY <1>5, <1>6, <1>7

\* stop, when it finds no client_ or has to give it back.
LEMMA ImporterStopKeeps ==
  ASSUME NodesState, NEW c \in Caller, Carry(c, "stop"),
         \/ node[c].client = 0 /\ UNCHANGED subsVars
         \/ node[c].client # 0 /\ Gives(c, node[c].client)
  PROVE  NodesInv'
<1>1. /\ role[c] = "importer" /\ call[c].at = "out" /\ UNCHANGED <<role, fetch>>
      /\ \A d \in Caller : d # c => node'[d] = node[d]
      /\ node'[c].client = node[c].client /\ node'[c].last = node[c].last
      /\ node'[c].overlapped = node[c].overlapped
      /\ ~node[c].overlapped => /\ node[c].last = "stop"
                                /\ \A k \in Command : node'[c].waiting[k] = 0
  BY Carries DEF Command
<1>2. /\ Plays(c) /\ LastWins(c) /\ call \in [Caller -> Doings] /\ counter \in Nat
      /\ node[c].client \in 0..MaxId
  BY DEF NodesState, NodesInv, SubsTypes, NodeTypes, Importing
<1>3. ASSUME \A d \in Caller : d # c => call'[d] = call[d],
             call'[c].at \in {"out"} \cup Giving,
             call'[c].at = "out" => node[c].client = 0,
             call'[c].at # "out" => node[c].client # 0 /\ call'[c].id = node[c].client
      PROVE  /\ \A d \in Caller : Plays(d)' /\ LastWins(d)' /\ Reaps(d)'
             /\ \A d \in Caller : TakenAway(d)' = TakenAway(d) /\ Owned(d)' = Owned(d)
  <2>1. Plays(c)'
    BY <1>1, <1>2, <1>3 DEF Plays, Giving
  <2>2. LastWins(c)'
    BY <1>1, <1>2, <1>3 DEF LastWins, Giving
  <2>3. \A d \in Caller : TakenAway(d)' = TakenAway(d)
    BY <1>1 DEF TakenAway
  <2>4. Owned(c)' = Owned(c)
    BY <1>1, <1>3 DEF Owned, Giving
  <2>5. \A d \in Caller \ {c} : Plays(d)' /\ LastWins(d)' /\ Owned(d)' = Owned(d)
    BY <1>1, <1>3, PlaysOn
  <2>6. Reaps(c)'
    BY <1>1 DEF Reaps
  <2>7. \A d \in Caller \ {c} : Reaps(d)'
    BY <1>1, <1>3, ReapsOn
  <2>8. QED
    BY <2>1, <2>2, <2>3, <2>4, <2>5, <2>6, <2>7
<1>4. CASE node[c].client = 0 /\ UNCHANGED subsVars
  <2>1. call' = call /\ obj' = obj /\ UNCHANGED <<counter, idMap>>
    BY <1>4 DEF subsVars, objVars, idVars
  <2>2. Listening' = Listening
    BY <2>1 DEF Listening
  <2>3. /\ \A d \in Caller : Plays(d)' /\ LastWins(d)' /\ Reaps(d)'
        /\ \A d \in Caller : TakenAway(d)' = TakenAway(d) /\ Owned(d)' = Owned(d)
    BY <1>1, <1>3, <1>4, <2>1
  <2>4. \A y \in Listening' : y[2].by \in Caller
    BY <2>2 DEF Listening, Listener
  <2>5. QED
    BY <1>1, <2>1, <2>2, <2>3, <2>4, QuietNodes
<1>5. CASE node[c].client # 0 /\ Gives(c, node[c].client)
  <2>1. PICK x \in Doings :
          /\ call' = [call EXCEPT ![c] = x] /\ x.id = node[c].client
          /\ \/ x.at = "removed" /\ \A w \in idMap : w[1] # node[c].client
             \/ /\ x.at = "removing" \/ (x.at = "freeing" /\ kind = "rabbitmq")
                /\ <<node[c].client, x.o>> \in idMap
    BY <1>5 DEF Gives
  <2>2. call'[c] = x /\ \A d \in Caller : d # c => call'[d] = call[d]
    BY <1>2, <2>1
  <2>3. x.at \in Giving
    BY <2>1 DEF Giving
  <2>4. /\ \A d \in Caller : Plays(d)' /\ LastWins(d)' /\ Reaps(d)'
        /\ \A d \in Caller : TakenAway(d)' = TakenAway(d) /\ Owned(d)' = Owned(d)
    BY <1>3, <1>5, <2>1, <2>2, <2>3 DEF Giving
  <2>5. Owned(c) = node[c].client
    BY <1>1 DEF Owned
  <2>6. ASSUME NEW d \in Caller, call[d].at \in Giving, call[d].id = node[c].client
        PROVE  FALSE
    <3>1. PICK f \in Caller : Owned(f) = call[d].id /\ (role[f] = "importer" => f = d)
      BY <1>5, <2>6, GivesBackOwned
    <3>2. f = c
      BY <1>5, <2>5, <2>6, <3>1 DEF NodesState, NodesInv, OwnedOnce
    <3>3. QED
      BY <1>1, <2>6, <3>1, <3>2 DEF Giving
  <2>7. QED
    BY <1>1, <1>2, <1>5, <2>4, <2>5, <2>6, GivesForNode
<1>6. QED
  BY <1>4, <1>5

\* A thread of an importer returns: it has a client_ after start, none after stop.
LEMMA ImporterReturnKeeps ==
  ASSUME NodesState, NEW c \in Caller, ImporterReturns(c)
  PROVE  NodesInv'
<1>1. /\ role[c] = "importer" /\ call[c].at \in {"added", "removed"}
      /\ node' = [node EXCEPT ![c].client = IF call[c].at = "added" THEN call[c].id ELSE 0]
      /\ call' = [call EXCEPT ![c] = Out] /\ obj' = obj
      /\ UNCHANGED <<counter, idMap, role, fetch>>
  BY DEF ImporterReturns, objVars, idVars
<1>2. /\ call \in [Caller -> Doings] /\ node \in [Caller -> Importing] /\ node[c] \in Importing
      /\ Plays(c) /\ LastWins(c)
  BY DEF NodesState, NodesInv, SubsTypes, NodeTypes
<1>3. /\ call'[c].at = "out" /\ \A d \in Caller : d # c => call'[d] = call[d] /\ node'[d] = node[d]
      /\ node'[c].client = IF call[c].at = "added" THEN call[c].id ELSE 0
      /\ node'[c].waiting = node[c].waiting /\ node'[c].last = node[c].last
      /\ node'[c].overlapped = node[c].overlapped
  BY <1>1, <1>2 DEF Importing, Out
<1>4. Plays(c)'
  BY <1>1, <1>3 DEF Plays, Giving
<1>5. LastWins(c)'
  <2>1. SUFFICES ASSUME ~node'[c].overlapped
                 PROVE  /\ \A m \in Command : node'[c].waiting[m] = 0
                        /\ node'[c].client # 0 <=> node'[c].last = "start"
    BY <1>3 DEF LastWins
  <2>2. CASE call[c].at = "added"
    BY <1>1, <1>2, <1>3, <2>1, <2>2 DEF LastWins, Plays, Giving
  <2>3. CASE call[c].at = "removed"
    BY <1>1, <1>2, <1>3, <2>1, <2>3 DEF LastWins, Giving
  <2>4. QED
    BY <1>1, <2>2, <2>3
<1>6. \A d \in Caller \ {c} : Plays(d)' /\ LastWins(d)' /\ Owned(d)' = Owned(d)
  BY <1>1, <1>3, PlaysOn
<1>7. \/ call[c].at = "added" /\ Owned(c)' = Owned(c)
      \/ call[c].at = "removed" /\ Owned(c)' = 0
  BY <1>1, <1>3 DEF Owned
<1>8. \A d \in Caller : Reaps(d)'
  <2>1. \A d \in Caller : call'[d].at \in Giving => call[d].at \in Giving /\ call'[d] = call[d]
    BY <1>3 DEF Giving
  <2>2. QED
    BY <1>1, <2>1, ReapsOn
<1>9. Listening' = Listening
  BY <1>1 DEF Listening
<1>10. \A d \in Caller : TakenAway(d)' = TakenAway(d)
  BY <1>1 DEF TakenAway
<1>11. \A y \in Listening' : y[2].by \in Caller
  BY <1>9 DEF Listening, Listener
<1>12. \A d \in Caller : \A y \in Listening' : TakesOut(d, y) => call'[d] = call[d]
  BY <1>1, <1>3 DEF TakesOut
<1>13. /\ \A d \in Caller : call'[d].at \in Giving => call[d].at \in Giving /\ call'[d].id = call[d].id
       /\ \A d \in Caller : role[d] = "importer" /\ call[d].at \in Giving /\ call'[d].at \notin Giving
                              => Owned(d)' = 0
       /\ \A d \in Caller : Owned(d)' = Owned(d) \/ (role[d] = "importer" /\ Owned(d)' = 0)
  BY <1>1, <1>3, <1>6, <1>7 DEF Giving
<1>14. \A d \in Caller : Plays(d)' /\ LastWins(d)' /\ Reaps(d)'
  BY <1>4, <1>5, <1>6, <1>8
<1>15. QED
  BY <1>1, <1>9, <1>10, <1>11, <1>12, <1>13, <1>14, QuietNodes

\* A fetch subscribes.
LEMMA FetchBeginKeeps ==
  ASSUME NodesState, NEW c \in Caller, role[c] = "fetcher", fetch[c].at = "idle",
         Enters(c) \/ (call[c].at = "out" /\ \E o \in Nat : Draws(c, o)),
         fetch' = [fetch EXCEPT ![c].at = "asking"], UNCHANGED <<role, node>>
  PROVE  NodesInv'
<1>1. /\ call \in [Caller -> Doings] /\ fetch \in [Caller -> Fetching] /\ fetch[c] \in Fetching
      /\ Plays(c) /\ counter \in Nat
  BY DEF NodesState, NodesInv, SubsTypes, NodeTypes
<1>2. /\ fetch'[c].at = "asking" /\ fetch'[c].id = fetch[c].id /\ fetch'[c].reap = fetch[c].reap
      /\ fetch'[c].early = fetch[c].early
      /\ \A d \in Caller : d # c => fetch'[d] = fetch[d]
  BY <1>1 DEF Fetching
<1>3. /\ fetch[c].id = 0 /\ call[c].at = "out" /\ Owned(c) = 0
      /\ ~(fetch[c].reap \in {"now", "over"} /\ ~fetch[c].early)
  BY <1>1 DEF Plays, Owned
<1>4. ASSUME \A d \in Caller : d # c => call'[d] = call[d],
             call'[c].at \in {"adding", "added"},
             call'[c].at = "added" => call'[c].id # 0
      PROVE  /\ \A d \in Caller : Plays(d)' /\ LastWins(d)' /\ Reaps(d)'
             /\ \A d \in Caller : TakenAway(d)' = TakenAway(d)
             /\ \A d \in Caller \ {c} : Owned(d)' = Owned(d)
  <2>1. Plays(c)' /\ LastWins(c)'
    BY <1>2, <1>3, <1>4 DEF Plays, LastWins
  <2>2. TakenAway(c)' = TakenAway(c)
    BY <1>2 DEF TakenAway
  <2>3. \A d \in Caller \ {c} : /\ Plays(d)' /\ LastWins(d)' /\ Owned(d)' = Owned(d)
                                /\ TakenAway(d)' = TakenAway(d)
    BY <1>2, <1>4, PlaysOn
  <2>4. \A d \in Caller : call'[d].at \in Giving => call[d].at \in Giving /\ call'[d] = call[d]
    BY <1>4 DEF Giving
  <2>5. \A f \in Caller : role[f] = "fetcher" /\ fetch[f].reap = "now" /\ ~fetch[f].early
          => fetch'[f] = fetch[f]
    BY <1>2, <1>3
  <2>6. \A d \in Caller : Reaps(d)'
    BY <2>4, <2>5, ReapsOn
  <2>7. QED
    BY <2>1, <2>2, <2>3, <2>6
<1>5. CASE Enters(c)
  <2>1. PICK x \in Doings : x.at = "adding" /\ call' = [call EXCEPT ![c] = x]
    BY <1>5 DEF Enters
  <2>2. call'[c] = x /\ \A d \in Caller : d # c => call'[d] = call[d]
    BY <1>1, <2>1
  <2>3. /\ \A d \in Caller : Plays(d)' /\ LastWins(d)' /\ Reaps(d)'
        /\ \A d \in Caller : TakenAway(d)' = TakenAway(d)
        /\ \A d \in Caller \ {c} : Owned(d)' = Owned(d)
    BY <1>4, <2>1, <2>2
  <2>4. Owned(c)' = Owned(c)
    BY <1>2, <1>3, <2>1, <2>2 DEF Owned
  <2>5. Listening' \subseteq Listening /\ UNCHANGED <<counter, idMap>>
    BY <1>5 DEF Enters, NoNewListener
  <2>6. \A d \in Caller : \A y \in Listening' : TakesOut(d, y) => call'[d] = call[d]
    BY <1>3, <2>2 DEF TakesOut
  <2>7. \A d \in Caller : call'[d].at \in Giving => call[d].at \in Giving /\ call'[d] = call[d]
    BY <2>1, <2>2 DEF Giving
  <2>8. \A d \in Caller : ~(call[d].at \in Giving /\ call'[d].at \notin Giving)
    BY <1>3, <2>2 DEF Giving
  <2>9. \A y \in Listening' : y[2].by \in Caller
    BY <2>5 DEF Listening, Listener
  <2>10. QED
    BY <2>3, <2>4, <2>5, <2>6, <2>7, <2>8, <2>9, QuietNodes
<1>6. ASSUME NEW o \in Nat, Draws(c, o)
      PROVE  NodesInv'
  <2>1. call' = [call EXCEPT ![c] = [Out EXCEPT !.at = "added", !.id = counter + 1]]
    BY <1>6 DEF Draws
  <2>2. /\ call'[c].at = "added" /\ call'[c].id = counter + 1
        /\ \A d \in Caller : d # c => call'[d] = call[d]
    BY <1>1, <2>1 DEF Out
  <2>3. /\ \A d \in Caller : Plays(d)' /\ LastWins(d)' /\ Reaps(d)'
        /\ \A d \in Caller : TakenAway(d)' = TakenAway(d)
        /\ \A d \in Caller \ {c} : Owned(d)' = Owned(d)
    BY <1>1, <1>4, <2>2
  <2>4. call[c].at \notin Giving /\ ~TakenAway(c)
    BY <1>3 DEF Giving, TakenAway
  <2>5. QED
    BY <1>3, <1>6, <2>3, <2>4, DrawsForNode
<1>7. QED
  BY <1>5, <1>6

\* A fetch stores its id.
LEMMA FetchStoreKeeps ==
  ASSUME NodesState, NEW c \in Caller, FetchStoresId(c)
  PROVE  NodesInv'
<1>1. /\ role[c] = "fetcher" /\ call[c].at = "added"
      /\ fetch' = [fetch EXCEPT ![c].at = "asked", ![c].id = call[c].id]
      /\ call' = [call EXCEPT ![c] = Out] /\ obj' = obj
      /\ UNCHANGED <<counter, idMap, role, node>>
  BY DEF FetchStoresId, objVars, idVars
<1>2. /\ call \in [Caller -> Doings] /\ fetch \in [Caller -> Fetching] /\ fetch[c] \in Fetching
      /\ Plays(c)
  BY DEF NodesState, NodesInv, SubsTypes, NodeTypes
<1>3. /\ call'[c].at = "out" /\ \A d \in Caller : d # c => call'[d] = call[d] /\ fetch'[d] = fetch[d]
      /\ fetch'[c].at = "asked" /\ fetch'[c].id = call[c].id /\ fetch'[c].reap = fetch[c].reap
      /\ fetch'[c].early = fetch[c].early
  BY <1>1, <1>2 DEF Fetching, Out
<1>4. fetch[c].at = "asking" /\ call[c].id # 0
  BY <1>1, <1>2 DEF Plays
<1>5. ~(fetch[c].reap \in {"now", "over"} /\ ~fetch[c].early)
  BY <1>1, <1>2, <1>4 DEF Plays
<1>6. /\ Plays(c)' /\ LastWins(c)' /\ Owned(c)' = Owned(c) /\ TakenAway(c)' = TakenAway(c)
  BY <1>1, <1>3, <1>4, <1>5 DEF Plays, LastWins, Owned, TakenAway
<1>7. \A d \in Caller : /\ Plays(d)' /\ LastWins(d)' /\ Owned(d)' = Owned(d)
                        /\ TakenAway(d)' = TakenAway(d)
  BY <1>1, <1>3, <1>6, PlaysOn
<1>8. \A d \in Caller : call'[d].at \in Giving => call[d].at \in Giving /\ call'[d] = call[d]
  BY <1>3 DEF Giving
<1>9. \A f \in Caller : role[f] = "fetcher" /\ fetch[f].reap = "now" /\ ~fetch[f].early
        => fetch'[f] = fetch[f]
  BY <1>3, <1>5
<1>10. \A d \in Caller : Reaps(d)'
  BY <1>1, <1>8, <1>9, ReapsOn
<1>11. Listening' = Listening
  BY <1>1 DEF Listening
<1>12. \A y \in Listening' : y[2].by \in Caller
  BY <1>11 DEF Listening, Listener
<1>13. \A d \in Caller : \A y \in Listening' : TakesOut(d, y) => call'[d] = call[d]
  BY <1>1, <1>3 DEF TakesOut
<1>14. \A d \in Caller : ~(role[d] = "importer" /\ call[d].at \in Giving /\ call'[d].at \notin Giving)
  BY <1>1, <1>3
<1>15. QED
  BY <1>1, <1>7, <1>8, <1>10, <1>11, <1>12, <1>13, <1>14, QuietNodes

\* The thread of a fetch begins to give back what has been stored.
LEMMA ReaperBeginKeeps ==
  ASSUME NodesState, NEW c \in Caller, NEW f \in Caller, role[c] = "reaper",
         role[f] = "fetcher", fetch[f].reap = "due", Gives(c, fetch[f].id),
         fetch' = [fetch EXCEPT ![f].reap = "now", ![f].early = (fetch[f].id = 0)],
         UNCHANGED <<role, node>>
  PROVE  NodesInv'
<1> DEFINE i == fetch[f].id
<1>1. /\ call \in [Caller -> Doings] /\ fetch \in [Caller -> Fetching] /\ fetch[f] \in Fetching
      /\ Plays(f) /\ i \in 0..MaxId /\ f # c
  BY DEF NodesState, NodesInv, SubsTypes, NodeTypes, Fetching
<1>2. /\ \A d \in Caller : d # f => fetch'[d] = fetch[d]
      /\ fetch'[f].at = fetch[f].at /\ fetch'[f].id = i /\ fetch'[f].reap = "now"
      /\ fetch'[f].early <=> i = 0
  BY <1>1 DEF Fetching
<1>3. PICK x \in Doings :
        /\ call' = [call EXCEPT ![c] = x] /\ x.id = i
        /\ \/ x.at = "removed" /\ \A w \in idMap : w[1] # i
           \/ /\ x.at = "removing" \/ (x.at = "freeing" /\ kind = "rabbitmq")
              /\ <<i, x.o>> \in idMap
  BY DEF Gives
<1>4. /\ call'[c] = x /\ \A d \in Caller : d # c => call'[d] = call[d]
      /\ x.at \in Giving /\ call[c].at = "out"
  BY <1>1, <1>3 DEF Giving, Gives
<1>5. i # 0 => Owned(f) = i
  BY <1>1 DEF Plays, Owned
<1>6. ASSUME NEW d \in Caller, call[d].at \in Giving, call[d].id = i, i # 0
      PROVE  FALSE
  <2>1. PICK g \in Caller :
          /\ Owned(g) = i
          /\ \/ role[g] = "importer" /\ g = d
             \/ role[g] = "fetcher" /\ fetch[g].reap = "now" /\ fetch[g].id = i
    BY <1>6, GivesBackOwned
  <2>2. g = f
    BY <1>5, <1>6, <2>1 DEF NodesState, NodesInv, OwnedOnce
  <2>3. QED
    BY <2>1, <2>2
<1>7. ASSUME NEW d \in Caller
      PROVE  /\ Plays(d)' /\ LastWins(d)' /\ Owned(d)' = Owned(d)
             /\ (TakenAway(d)' => TakenAway(d))
  <2>1. CASE d = c
    <3>1. Plays(d)' /\ LastWins(d)'
      BY <1>4, <2>1 DEF Plays, LastWins, Giving
    <3>2. Owned(d)' = Owned(d)
      BY <1>4, <2>1 DEF Owned, Giving
    <3>3. TakenAway(d)' => TakenAway(d)
      BY <1>1, <1>2, <2>1 DEF TakenAway
    <3>4. QED
      BY <3>1, <3>2, <3>3
  <2>2. CASE d = f
    <3>1. Plays(d)'
      BY <1>1, <1>2, <1>4, <2>2 DEF Plays, Giving
    <3>2. LastWins(d)' /\ Owned(d)' = Owned(d)
      BY <1>1, <1>2, <1>4, <2>2 DEF LastWins, Owned
    <3>3. ~TakenAway(d)'
      BY <1>2, <2>2 DEF TakenAway
    <3>4. QED
      BY <3>1, <3>2, <3>3
  <2>3. CASE d # c /\ d # f
    BY <1>2, <1>4, <2>3, PlaysOn
  <2>4. QED
    BY <2>1, <2>2, <2>3
<1>8. ASSUME NEW d \in Caller
      PROVE  Reaps(d)'
  <2>1. CASE d = c
    <3>1. fetch'[f].id = i /\ call'[d].id = i /\ role'[f] = "fetcher"
          /\ fetch'[f].reap = "now" /\ (i # 0 => ~fetch'[f].early)
      BY <1>2, <1>3, <1>4, <2>1
    <3>2. QED
      BY <3>1 DEF Reaps
  <2>2. CASE d # c
    BY <1>2, <1>4, <2>2, ReapsOn
  <2>3. QED
    BY <2>1, <2>2
<1>9. \A d \in Caller : call[d].at \in Giving => call[d].id # i \/ i = 0
  BY <1>6
<1>10. QED
  BY <1>1, <1>5, <1>7, <1>8, <1>9, GivesForNode

\* The thread of a fetch is done: the listener it had read the id of is gone.
LEMMA ReaperReturnKeeps ==
  ASSUME NodesState, NEW c \in Caller, ReaperReturns(c)
  PROVE  NodesInv'
<1>1. PICK f \in Caller :
        /\ role[f] = "fetcher" /\ role[c] = "reaper" /\ fetch[f].reap = "now"
        /\ call[c].at = "removed" /\ call[c].id = IF fetch[f].early THEN 0 ELSE fetch[f].id
        /\ fetch' = [fetch EXCEPT ![f].reap = "over"]
        /\ call' = [call EXCEPT ![c] = Out] /\ obj' = obj
        /\ UNCHANGED <<counter, idMap, role, node>>
  BY DEF ReaperReturns, Fetchers, objVars, idVars
<1>2. /\ call \in [Caller -> Doings] /\ fetch \in [Caller -> Fetching] /\ fetch[f] \in Fetching
      /\ Plays(f) /\ f # c /\ GivenOnce
      /\ \A d \in Caller : Reaps(d)
  BY <1>1 DEF NodesState, NodesInv, SubsTypes, NodeTypes
<1>3. /\ \A d \in Caller : d # f => fetch'[d] = fetch[d]
      /\ fetch'[f].at = fetch[f].at /\ fetch'[f].id = fetch[f].id /\ fetch'[f].reap = "over"
      /\ fetch'[f].early = fetch[f].early
      /\ call'[c] = Out /\ call'[c].at = "out"
      /\ \A d \in Caller : d # c => call'[d] = call[d]
  BY <1>1, <1>2 DEF Fetching, Out
<1>4. ASSUME NEW d \in Caller
      PROVE  Plays(d)' /\ LastWins(d)' /\ Owned(d)' = Owned(d)
  <2>1. CASE d = c
    BY <1>1, <1>3, <2>1 DEF Plays, LastWins, Owned
  <2>2. CASE d = f
    <3>1. Plays(d)'
      BY <1>1, <1>2, <1>3, <2>2 DEF Plays, Giving
    <3>2. LastWins(d)' /\ Owned(d)' = Owned(d)
      BY <1>1, <1>2, <1>3, <2>2 DEF LastWins, Owned
    <3>3. QED
      BY <3>1, <3>2
  <2>3. CASE d # c /\ d # f
    BY <1>1, <1>3, <2>3, PlaysOn
  <2>4. QED
    BY <2>1, <2>2, <2>3
<1>5. ASSUME NEW d \in Caller
      PROVE  Reaps(d)'
  <2>1. CASE d = c
    BY <1>3, <2>1 DEF Reaps, Giving
  <2>2. CASE d # c
    <3>1. SUFFICES ASSUME role[d] = "reaper", call[d].at \in Giving, call[d].id # 0
                   PROVE  \E g \in Caller : /\ role[g] = "fetcher" /\ fetch'[g].reap = "now"
                                            /\ ~fetch'[g].early /\ fetch'[g].id = call[d].id
      BY <1>1, <1>3, <2>2 DEF Reaps, Giving
    <3>2. PICK g \in Caller : /\ role[g] = "fetcher" /\ fetch[g].reap = "now" /\ ~fetch[g].early
                              /\ fetch[g].id = call[d].id
      BY <1>2, <3>1 DEF Reaps
    <3>3. g # f
      BY <1>1, <1>2, <2>2, <3>1, <3>2 DEF GivenOnce, Giving
    <3>4. QED
      BY <1>3, <3>2, <3>3
  <2>3. QED
    BY <2>1, <2>2
<1>6. Listening' = Listening
  BY <1>1 DEF Listening
<1>7. ASSUME NEW y \in Listening', role[y[2].by] = "fetcher", TakenAway(y[2].by)'
      PROVE  TakenAway(y[2].by)
  <2>1. y \in Listening /\ y[2].by \in Caller
    BY <1>6, <1>7 DEF Listening, Listener
  <2>2. CASE y[2].by # f
    BY <1>3, <1>7, <2>1, <2>2 DEF TakenAway
  <2>3. CASE y[2].by = f /\ ~fetch[f].early
    <3>1. call[c].id = fetch[f].id /\ fetch[f].id # 0 /\ Owned(f) = fetch[f].id
      BY <1>1, <1>2, <2>3 DEF Plays, Owned
    <3>2. Listed(y) /\ y[2].id = call[c].id
      BY <1>1, <2>1, <2>3, <3>1 DEF NodesState, NodesInv, Listed
    <3>3. <<y[2].id, y[1]>> \notin idMap
      <4>1. <<y[2].id, y[1]>>[1] = y[2].id
        OBVIOUS
      <4>2. QED
        BY <1>1, <1>2, <3>2, <4>1 DEF GivenOnce, Giving
    <3>4. PICK d \in Caller : TakesOut(d, y)
      BY <3>2, <3>3 DEF Listed
    <3>5. d = c
      BY <1>1, <1>2, <3>1, <3>2, <3>4 DEF GivenOnce, Giving, TakesOut
    <3>6. QED
      BY <1>1, <3>4, <3>5 DEF TakesOut
  <2>4. CASE y[2].by = f /\ fetch[f].early
    BY <1>3, <1>7, <2>4 DEF TakenAway
  <2>5. QED
    BY <2>2, <2>3, <2>4
<1>8. /\ \A d \in Caller : call'[d].at \in Giving => call[d].at \in Giving /\ call'[d].id = call[d].id
      /\ \A d \in Caller : ~(role[d] = "importer" /\ call[d].at \in Giving /\ call'[d].at \notin Giving)
      /\ \A d \in Caller : \A y \in Listening' : TakesOut(d, y) => call'[d] = call[d]
  BY <1>1, <1>3 DEF Giving, TakesOut
<1>9. QED
  BY <1>1, <1>4, <1>5, <1>6, <1>7, <1>8, QuietNodes

\* A component is asked for a listener.
Subscribes(c, s) ==
  \/ ZeroMQGetOrStart(c, s.loc, s.filter) \/ NNGGetOrStart(c, s.loc, s.filter)
  \/ MulticastGetOrStart(c, s.loc, s.filter) \/ SinglecastGetOrStart(c, s.loc, s.filter)
  \/ RedisGetOrStart(c, s.loc, s.filter) \/ RabbitMQAdd(c, s.loc, s.filter)
  \/ ShmGetOrStart(c, s.loc, s.filter)

\* The steps of importers and fetches.
LEMMA NodeNextKeepsNodes ==
  ASSUME NodesState, NEW c \in Caller, NodeNext(c)
  PROVE  NodesInv'
<1>1. /\ SubsTypes /\ want[c] \in Wanted /\ Len(obj) + 1 \in Nat /\ node[c].client \in 0..MaxId
      /\ \A f \in Caller : fetch[f].id \in 0..MaxId
  BY ObjectFacts DEF NodesState, NodeTypes, SubsTypes, Importing, Fetching
<1>2. ASSUME Subscribes(c, want[c])
      PROVE  Enters(c) \/ (call[c].at = "out" /\ \E o \in Nat : Draws(c, o))
  BY <1>1, <1>2, SubscribeDoes DEF Subscribes
<1>3. NodeStep(c)
  BY DEF NodeNext
<1>4. CASE \E m \in Command : Control(c, m)
  BY <1>4, ControlKeepsNodes
<1>5. CASE ImporterReturns(c) \/ FetchStoresId(c) \/ ReaperReturns(c)
  BY <1>5, ImporterReturnKeeps, FetchStoreKeeps, ReaperReturnKeeps
<1>6. CASE \/ ZeroMQImporter(c) \/ NNGImporter(c) \/ MulticastImporter(c)
           \/ SinglecastImporter(c) \/ RedisImporter(c) \/ RabbitMQImporter(c)
           \/ ShmImporter(c)
  <2>1. \/ /\ Carry(c, "start")
           /\ \/ node[c].client = 0 /\ Subscribes(c, want[c])
              \/ node[c].client # 0 /\ UNCHANGED subsVars
        \/ /\ Carry(c, "stop")
           /\ \/ node[c].client # 0 /\ Unsubscribe(c, node[c].client)
              \/ node[c].client = 0 /\ UNCHANGED subsVars
    BY <1>6 DEF ZeroMQImporter, NNGImporter, MulticastImporter, SinglecastImporter,
                RedisImporter, RabbitMQImporter, ShmImporter, ImporterStarts, ImporterStops,
                Subscribes, Unsubscribe
  <2>2. CASE /\ Carry(c, "start")
             /\ \/ node[c].client = 0 /\ Subscribes(c, want[c])
                \/ node[c].client # 0 /\ UNCHANGED subsVars
    BY <1>2, <2>2, ImporterStartKeeps
  <2>3. CASE /\ Carry(c, "stop")
             /\ \/ node[c].client # 0 /\ Unsubscribe(c, node[c].client)
                \/ node[c].client = 0 /\ UNCHANGED subsVars
    BY <1>1, <2>3, UnsubscribeDoes, ImporterStopKeeps
  <2>4. QED
    BY <2>1, <2>2, <2>3
<1>7. CASE \/ ZeroMQFetchFirst(c) \/ NNGFetchFirst(c) \/ MulticastFetchFirst(c)
           \/ SinglecastFetchFirst(c) \/ RedisFetchFirst(c) \/ RabbitMQFetchFirst(c)
           \/ ShmFetchFirst(c)
  <2>1. \/ /\ role[c] = "fetcher" /\ fetch[c].at = "idle" /\ Subscribes(c, want[c])
           /\ fetch' = [fetch EXCEPT ![c].at = "asking"] /\ UNCHANGED <<role, node>>
        \/ \E f \in Caller :
             /\ role[f] = "fetcher" /\ role[c] = "reaper" /\ fetch[f].reap = "due"
             /\ Unsubscribe(c, fetch[f].id)
             /\ fetch' = [fetch EXCEPT ![f].reap = "now", ![f].early = (fetch[f].id = 0)]
             /\ UNCHANGED <<role, node>>
    BY <1>7 DEF ZeroMQFetchFirst, NNGFetchFirst, MulticastFetchFirst, SinglecastFetchFirst,
                RedisFetchFirst, RabbitMQFetchFirst, ShmFetchFirst, FetchBegins, ReaperBegins,
                Fetchers, Subscribes, Unsubscribe
  <2>2. CASE /\ role[c] = "fetcher" /\ fetch[c].at = "idle" /\ Subscribes(c, want[c])
             /\ fetch' = [fetch EXCEPT ![c].at = "asking"] /\ UNCHANGED <<role, node>>
    BY <1>2, <2>2, FetchBeginKeeps
  <2>3. ASSUME NEW f \in Caller, role[f] = "fetcher", role[c] = "reaper", fetch[f].reap = "due",
               Unsubscribe(c, fetch[f].id), UNCHANGED <<role, node>>,
               fetch' = [fetch EXCEPT ![f].reap = "now", ![f].early = (fetch[f].id = 0)]
        PROVE  NodesInv'
    <3>1. Gives(c, fetch[f].id)
      BY <1>1, <2>3, UnsubscribeDoes
    <3>2. QED
      BY <2>3, <3>1, ReaperBeginKeeps
  <2>4. QED
    BY <2>1, <2>2, <2>3
<1>8. QED
  BY <1>3, <1>4, <1>5, <1>6, <1>7 DEF NodeStep

\* A step of the facility is that of a thread that handles requests or commands.
LEMMA FacilityHasRoles ==
  ASSUME NEW c \in Caller, ListenerNext(c)
  PROVE  role[c] \in {"handler", "control"}
<1>1. CASE \/ \E s \in Wanted : AskToAdd(c, s)
           \/ \E i \in 1..MaxId : AskToRemove(c, i)
           \/ AskToRemoveAll(c) \/ ControlListener(c)
  BY <1>1 DEF AskToAdd, AskToRemove, AskToRemoveAll, ControlListener, Doing, Serving
<1>2. CASE Note(c) \/ Forget(c) \/ Record(c) \/ Unlisten(c) \/ RemoveAll(c)
  BY <1>2 DEF Note, Forget, Record, Unlisten, RemoveAll, Doing, Serving
<1>3. CASE \/ ListenMulticast(c) \/ ListenSinglecast(c) \/ ListenRabbitMQ(c) \/ ListenRedis(c)
           \/ ListenZeroMQ(c) \/ ListenNNG(c) \/ ListenShm(c)
  BY <1>3 DEF ListenMulticast, ListenSinglecast, ListenRabbitMQ, ListenRedis, ListenZeroMQ,
     ListenNNG, ListenShm, Listen, Doing, Serving
<1>4. QED
  BY <1>1, <1>2, <1>3 DEF ListenerNext, ListenerStep

\* Every step keeps what the nodes rely on.
LEMMA NodesStepKeeps ==
  ASSUME Types, Sound, OwnedWhileFreed, NodesAlone(role), NodesInv, [Next]_vars
  PROVE  NodesInv'
<1>1. NodesState /\ role' = role
  BY RolesStay DEF NodesState, Types, Sound
<1>2. ASSUME NEW c \in Caller, CallNext(c)
      PROVE  NodesInv'
  <2>1. UNCHANGED nodeVars
    BY <1>2 DEF CallNext
  <2>2. \/ call[c].at = "adding" /\ Draws(c, call[c].o)
        \/ MovesOn(c)
        \/ Silent
    BY <1>2, CallNextDoes DEF Types
  <2>3. CASE call[c].at = "adding" /\ Draws(c, call[c].o)
    BY <1>1, <2>1, <2>3, AddedKeepsNodes
  <2>4. CASE MovesOn(c)
    BY <1>1, <2>1, <2>4, MovesOnKeepsNodes
  <2>5. CASE Silent
    BY <1>1, <2>1, <2>5, SilentKeepsNodes DEF nodeVars
  <2>6. QED
    BY <2>2, <2>3, <2>4, <2>5
<1>3. ASSUME NEW o \in 1..Len(obj), ThreadNext(o)
      PROVE  NodesInv'
  <2>1. Silent /\ node' = node
    BY <1>3, ThreadNextIsSilent DEF ThreadNext, Types
  <2>2. \A d \in Caller : \/ fetch'[d] = fetch[d]
                          \/ /\ fetch[d].reap = "no"
                             /\ fetch'[d] = [fetch[d] EXCEPT !.reap = "due"]
    BY <1>3 DEF ThreadNext, FetchHears
  <2>3. QED
    BY <1>1, <2>1, <2>2, SilentKeepsNodes
<1>4. CASE ExporterNext
  <2>1. Silent
    BY <1>4, ExporterNextIsSilent DEF Types
  <2>2. UNCHANGED nodeVars
    BY <1>4 DEF ExporterNext, ExporterStep, ZeroMQExporter, NNGExporter, MulticastExporter,
       SinglecastExporter, RedisExporter, RabbitMQExporter, ShmExporter, Exports
  <2>3. QED
    BY <1>1, <2>1, <2>2, SilentKeepsNodes DEF nodeVars
<1>5. ASSUME NEW c \in Caller, NodeNext(c)
      PROVE  NodesInv'
  BY <1>1, <1>5, NodeNextKeepsNodes
<1>6. ASSUME NEW c \in Caller, ListenerNext(c)
      PROVE  NodesInv'
  BY <1>6, FacilityHasRoles DEF NodesAlone
<1>7. CASE UNCHANGED vars
  <2>1. UNCHANGED nodeVars /\ call' = call /\ UNCHANGED <<obj, subs, counter, idMap>>
    BY <1>7 DEF vars, subsVars, objVars, idVars
  <2>2. Silent
    BY <2>1 DEF Silent, NoNewListener, Listening
  <2>3. QED
    BY <1>1, <2>1, <2>2, SilentKeepsNodes DEF nodeVars
<1>8. QED
  BY <1>2, <1>3, <1>4, <1>5, <1>6, <1>7 DEF Next

\* At first every importer waits to be started.
LEMMA NodesInvAtFirst ==
  ASSUME Init, NodesAlone(role)
  PROVE  NodesInv
<1>1. /\ obj = <<>> /\ idMap = {} /\ counter = 0 /\ \A c \in Caller : call[c] = Out
      /\ \A c \in Caller : /\ node[c].client = 0 /\ node[c].last = "start"
                           /\ \A m \in Command : node[c].waiting[m] =
                                IF m = "start" /\ role[c] = "importer" THEN 1 ELSE 0
      /\ \A c \in Caller : /\ fetch[c].at = "idle" /\ fetch[c].id = 0 /\ fetch[c].reap = "no"
  BY DEF Init, SubsInit, NodesInit
<1>2. Out.at = "out"
  BY DEF Out
<1>3. \A c \in Caller : Owned(c) = 0
  BY <1>1, <1>2 DEF Owned
<1>4. \A c \in Caller : Plays(c) /\ Reaps(c) /\ Held(c)
  BY <1>1, <1>2, <1>3 DEF Plays, Reaps, Held, Giving
<1>5. \A c \in Caller : LastWins(c)
  BY <1>1, <1>2 DEF LastWins, Command
<1>6. OwnedOnce /\ MappedOnce /\ GivenOnce
  BY <1>1, <1>2, <1>3 DEF OwnedOnce, MappedOnce, GivenOnce, Giving
<1>7. Listening = {}
  BY <1>1 DEF Listening
<1>8. QED
  BY <1>4, <1>5, <1>6, <1>7 DEF NodesInv

\* What the nodes rely on, where they are the users of a component.
NodesStay == NodesAlone(role) => NodesInv

\* It is so at first, and every step keeps it.
LEMMA NodesStayHolds ==
  ASSUME OneUser
  PROVE  Spec => []NodesStay
<1>1. Init => NodesStay
  BY NodesInvAtFirst DEF NodesStay
<1>2. IndInv /\ FacilityStays /\ NodesStay /\ [Next]_vars => NodesStay'
  <2> SUFFICES ASSUME Types, Sound, OwnedWhileFreed, NodesStay, [Next]_vars
               PROVE  NodesStay'
    BY DEF IndInv, FacilityStays
  <2>1. role' = role
    BY RolesStay
  <2>2. NodesAlone(role)' <=> NodesAlone(role)
    BY <2>1 DEF NodesAlone
  <2>3. NodesAlone(role) => NodesInv'
    BY NodesStepKeeps DEF NodesStay
  <2>4. QED
    BY <2>2, <2>3 DEF NodesStay
<1>3. QED
  BY <1>1, <1>2, IndInvHolds, FacilityStaysHolds, PTL DEF Spec

\* An importer that nobody is working for has its client_ registered, and has
\* one exactly when start was the last command, unless commands overlapped; a
\* fetch that is over leaves no listener, unless its thread read the id before
\* it was stored.  So it is however the calls overlap on an object.
THEOREM NodesAlwaysKeepTheirWord ==
  ASSUME OneUser
  PROVE  Spec => []NodesKeepTheirWord
<1>1. IndInv /\ FacilityStays /\ NodesStay => NodesKeepTheirWord
  <2> SUFFICES ASSUME IndInv, FacilityStays, NodesStay
               PROVE  NodesKeepTheirWord
    OBVIOUS
  <2>1. \A c \in Caller : role[c] \in {"importer", "fetcher"} => NodesInv
    BY DEF FacilityStays, FacilityAlone, NodesStay
  <2>2. ASSUME NEW c \in Importers, Settled(c)
        PROVE  /\ node[c].client # 0 => \E x \in idMap : x[1] = node[c].client
               /\ ~node[c].overlapped => (node[c].client # 0 <=> node[c].last = "start")
    <3>1. /\ c \in Caller /\ role[c] = "importer" /\ call[c].at = "out"
          /\ \A m \in Command : node[c].waiting[m] = 0
      BY <2>2 DEF Importers, Settled
    <3>2. Held(c) /\ LastWins(c) /\ node[c].last \in Command
      BY <2>1, <3>1 DEF NodesInv, IndInv, Types, NodeTypes, Importing
    <3>3. node[c].client # 0 => \E x \in idMap : x[1] = node[c].client
      BY <3>1, <3>2 DEF Held, Owned, Giving
    <3>4. ~node[c].overlapped => (node[c].client # 0 <=> node[c].last = "start")
      BY <3>1, <3>2 DEF LastWins, Giving
    <3>5. QED
      BY <3>3, <3>4
  <2>3. ASSUME NEW f \in Fetchers, fetch[f].reap = "over", ~fetch[f].early,
               NEW o \in subs, NEW x \in Range(obj[o].clients), x.by = f
        PROVE  FALSE
    <3>1. f \in Caller /\ role[f] = "fetcher" /\ TakenAway(f)
      BY <2>3 DEF Fetchers, TakenAway
    <3>2. o \in 1..Len(obj) /\ obj[o].clients \in Seq(Listener)
      <4>1. o \in 1..Len(obj)
        BY DEF IndInv, Types, SubsTypes
      <4>2. QED
        BY <4>1, ObjectFacts DEF IndInv, Types
    <3>3. PICK p \in DOMAIN obj[o].clients : obj[o].clients[p] = x
      BY DEF Range
    <3>4. x \in Listener
      BY <3>2, <3>3
    <3>5. <<o, x>> \in Listening /\ <<o, x>>[2] = x
      BY <3>2, <3>3, <3>4 DEF Listening
    <3>6. Listed(<<o, x>>)
      BY <2>1, <3>1, <3>5 DEF NodesInv
    <3>7. QED
      BY <2>3, <3>1, <3>5, <3>6 DEF Listed
  <2>4. QED
    BY <2>2, <2>3 DEF NodesKeepTheirWord
<1>2. QED
  BY <1>1, IndInvHolds, FacilityStaysHolds, NodesStayHolds, PTL

=============================================================================
