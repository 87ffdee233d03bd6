# tm_transport in TLA+

A verification development for tm_transport, the transport layer of the tm_kit C++ libraries: message
broadcast, remote calls and shared chains over RabbitMQ, Redis, ZeroMQ, NNG, sockets, web sockets,
REST, gRPC and shared memory. It models the parts with state of their own whose correctness depends on
interleavings, crashes and lost replies, checks them with TLC on small instances, and proves what
matters most with TLAPS.

In paths below `P/` is `src/tm_kit/transport/` and `S/` is `src/src/`.

## 1. The system

tm_transport is a library. An *environment* is a C++ object that inherits one component for each
transport; a component owns connections, threads and tables of callbacks. *Importers, exporters and
facilities* are nodes of an application's flow graph that call into the components, and the *managing
utilities* build pieces of such graphs. There is no central loop: every connection has a thread of its
own, and graph code runs in whichever thread brought the message (in the real-time mode).

| part | state it keeps | operations | where it is hard | what makes it correct |
|---|---|---|---|---|
| shared memory chain (`P/lock_free_in_memory_shared_chain`) | storage items in a segment, each with an atomic `next` offset | head, loadUntil, fetchNext, formChainItem(s), appendAfter, destroyItem, waitForUpdate | processes append at once, recycle memory, die anywhere | one chain in the order of the appends, nobody holds freed memory, no memory lost by the living |
| its spin lock | three words in shared memory: number dispenser, service register, owner | lock, unlock | a holder or a waiter dies between two stores | exclusion; whoever waits gets in, unless takeovers pass it over |
| its extra data | named objects or offsets next to the chain | saveExtraData/Bytes, loadExtraData/Bytes | a load while a save replaces a block | a load returns one whole datum, not too old |
| etcd chain (`P/etcd_shared_chain`) | records with an id, a revision and the next id; optional copies in Redis; a watch thread with the latest revision | the chain's operations | transactions race, replies get lost, copies are old, the watch is late, or never comes or ends | one chain; clients late but never wrong |
| Redis chain (`P/redis_shared_chain`) | a chain key and a data key for each item | the chain's operations, appends by a Lua script | two reads per item; a connection that breaks under the script | as above |
| chain creator (`P/SharedChainCreator.hpp`) | the chains of a program by locator | readers, writers, one-shot operations | one chain object used from several threads | one object for each locator |
| multi-transport remote facility (`P/MultiTransportRemoteFacility.hpp`) | senders, a map of senders, client numbers | register, deregister, request | each command takes several steps under different mutexes | a sender exactly for each registered server, and its client is there |
| heartbeat to remote facility command (`P/HeartbeatMessageToRemoteFacilityCommand.hpp`) | the servers it has heard of | heartbeat, timer | the order of its commands once its mutex is given back | servers that run are found, silent ones leave |
| heartbeat and alert | a status table under one mutex | set status, publish | the publication copies what other threads write | a heartbeat is one consistent status |
| broadcast of the components (ZeroMQ, NNG, multicast, singlecast, Redis, RabbitMQ, shared memory) | a map of subscription objects, each with a socket, a thread and a list of listeners; a map from ids to objects | add and remove a subscription, publish | a call carries a bare pointer from one mutex to the next; threads end while their object is freed; a callback may call the component again | the two maps agree, no freed object is used, later listeners hear what earlier ones hear |
| its nodes (`P/<transport>/*ImporterExporter.hpp`) | `client_`, the shared id of a fetch | start, stop and restart commands, fetch the first update and disconnect, publish | each command runs on a detached thread of its own | the last command wins; a fetch leaves no listener |
| broadcast listener (`P/MultiTransportBroadcastListener.hpp`) | subscriptions, restart information, `stopped_` | add, remove, remove all; stop, restart | `stopped_` is read without the mutex; requests come on any thread, a subscription's own included | a subscription somebody wants is never lost, one that nobody knows never left |
| remote calls of the components (Redis, RabbitMQ, socket RPC, gRPC) | connections with their clients, tables from requests to clients and back, on both sides | set and remove a client, send, set a server, reply | client numbers start again; a connection goes with its last client; replies of removed clients | each reply reaches its caller, the last one once; the tables agree; who asks is answered |
| its nodes (`P/<transport>/*OnOrderFacility.hpp`, the remote facility) | a client number, a replier | ask, ask once, ask without an answer, register and deregister, serve | threads that start before what they use is stored | as above |
| web socket component (`S/websocket/WebSocketComponent.cpp`) and its nodes | chains of asynchronous handlers for each connection, buffers of requests made before the connection is up, listeners that outlive their connection | subscribe, publish, ask, reply, with or without TLS | handlers of a failed object; mutexes held while writing; destructors that join their own thread | listeners keep their place over reconnections; nobody waits for ever |
| JSON REST component (`S/json_rest/JsonRESTComponent.cpp`) | keep-alive clients, tokens, handlers by path | GET, POST, basic and token authentication | asynchronous handlers of connections that are used again | each answer belongs to its request |
| shared memory broadcast, besides | a queue for each client in a segment, two heads that change roles | publish, run, removal of stale clients | publisher and reader share a queue without a lock | each message is seen once, in order, by each live client |
| etcd named value store (`P/named_value_store_components`) | values in etcd, a lock of two integers, a watch | update, acquire, release | a lost reply loses a place in the queue | exclusion; a waiter gets in |
| key value stores in a database | a table | insert, update, delete | what is published against what is stored | the published change happened |
| remote transaction subscriber | a subscription id | subscribe, unsubscribe at exit | reconnection of the server | no subscription is left behind |
| hooks, identity, locators, value types | none | conversions | none | pure functions |
| ports: node, python, .NET | as the C++ parts they mirror | as there | the same storage used from two languages | they agree with the C++ parts |

`PROJECT.json` lists every part with what is modelled of it, and every hazard with its line and the
properties that cover it.

How they interact. A chain client loops over `fetchNext` and, at the end of the chain, appends or waits;
several clients in several processes do so on the same storage. For remote facilities, a server
program's heartbeat (heartbeat and alert) is broadcast, a listener hands it to the converter, the
converter returns commands, and the set-up delivers each command to the facility it names; the facility
calls into a transport component, which keeps the client whose replies come back through a callback.

## 2. Modules

    SharedChain                 abstract: a sequence, and a position for each client
      ^ implemented by
    ShmChain  EtcdChain  RedisChain          ShmSpinLock      ShmExtraData

    RemoteFacility <-- FacilityDiscovery

    Subscriptions <-- RedisBroadcast, RabbitBroadcast, ZeroMQBroadcast, NNGBroadcast,
                      DatagramBroadcast, ShmBroadcast <-- BroadcastNodes <-- BroadcastListener
                      <-- Broadcast

    RpcConnections <-- RedisRpc, RabbitRpc, SocketRpc, GrpcRpc, RpcRoles <-- RpcNodes <-- Rpc

    RpcConnections <-- WebLinks <-- WebRpc, WebBroadcast, with RpcRoles <-- WebNodes <-- Web

    A <-- B                     B extends A
    MC<module>                  instances for TLC; where the .cfg alone says it all (RedisChain,
                                ShmSpinLock), the module itself is run
    <module>_proofs             proofs about EtcdChain, RedisChain, Broadcast, Rpc and Web, each
                                extending its module; FacilityDiscovery is with RemoteFacility, and
                                ShmChain, ShmExtraData and ShmSpinLock are in Shm_proofs
    CommonLemmas                facts about sequences, tables and their mirror images that the proofs share

A definition named `X_Something` next to a definition `X` (marked "Fault") is `X` with a plausible
mistake in it. The specifications do not use these; they are there to show that a property can fail:
with `X` replaced by the variant, TLC finds the property violated.

**SharedChain** is what a chain promises: the sequence of items grows only at its end, by an append of a
client that stands at the end; a client's position moves forward by one, or to where `loadUntil` and
`head` put it; an item is on the chain once. `ShmChain`, `EtcdChain` and `RedisChain` each instantiate
it with a refinement mapping (the history variable `published` and the client's item) and check
`ImplementsSharedChain`.

**ShmChain**: `LockFreeInBoostSharedMemoryChain.hpp`, its operations on items. `next` and `live` are the
segment; `cur`, `batch` and `pc` are what a client holds. `FormChainItem` constructs an item privately
and links it to the batch, `AppendSucceeds` and `AppendFails` are the two outcomes of the
compare-exchange, `DestroyItem` gives one item of a refused batch back, last one first. `BeginWait`,
`WaitTimeout` and `NotifyAll` are the condition variable; a notification that comes before the wait is
lost. `Crash` may happen anywhere. Addresses are reused as soon as they are freed. The ByName and the
ByOffset variant differ only in how an item is named, so one module stands for both.

**ShmSpinLock**: the ticket lock of the same file, one action for each access to shared memory, since a
process may die between any two. 10000 polls are one step (`PolledLong`), enabled at any time while the
thread polls: time is left open. `slowHandover` records that a waiter gave up on an owner word while the
thread whose turn it was was alive but had not got to its next instruction.

**ShmExtraData**: saves and loads of one key, for objects and for bytes, under a lock or lock free, one
step for each access to a block; data are two words (bytes: one or two), so that a torn value shows.

**EtcdChain**: `EtcdChain.hpp`, on one storage or with data on separate storage, with optional copies in
Redis and optional watch thread. etcd itself is external: a revision and a partial function from keys to
records; a transaction compares and puts in one step. An append is split where its reply travels:
`AppendSucceeds` and `AppendFails` at the server, `AcceptReply`, `ReturnFalse` at the client; with
`MayLose` the reply of an append that took effect may be lost and looks like a refusal. Copies
(`DuplicateToRedis`) are written after the reply, and expire. `watch` is where the detached watch thread is:
it asks for a watch from now on at some time after the object was made (`RegisterWatch`), reports later revisions only
(`WatchEvent`), and may leave its loop for good (`WatchEnds`).

**RedisChain**: `RedisChain.hpp`. The script that appends is one step; an item's data and link are read
in two. A connection may break under a command, executed or not, after which the chain object throws
until the process makes a new one (`ConnectionLost`, `Reconnect`).

**RemoteFacility**: `MultiTransportRemoteFacility.hpp` with the client tables of the components it calls.
Each command is a sequence of steps, one for each section under a mutex: for a registration the
component's client (`CreateConnection` and `AddClient`, or `SetClient`), then `PushSender`; for a
deregistration `TakeNumber`, `RemoveClient`, `EraseSenders`; then `Publish`. The transports fall into
four kinds by what the component keeps of a client. That a sender's client is destroyed, while the
sender still has a pointer to it, is the field `alive`. The list of senders is a set: its order is never
used. An environment is assumed to have the component of the transport.

**FacilityDiscovery** composes it with the converter. `infos` is `serverInfos_`; the converter's step
under its mutex is one action (`HeartbeatGood`, `HeartbeatIncomplete`, `Timer`), and its commands go to
the queue of the thread that called it, which delivers them one by one, each to the end, as
`setupNonDistinguishedRemoteFacilities` wires it. Time is left open: any good server may be found silent.

**Subscriptions** is the core of the broadcast components: `subs` (`subscriptions_`), `obj` (the
objects, also those that are freed), `idMap` (`idToSubscriptionMap_`), `call` (where each caller is, with
the bare pointer it carries) and `lock` (`mutex_`, when it is held across steps). A call takes `mutex_`,
`idMutex_` and the object's mutex one after the other, and each section is a step. `raced` records that
an object was freed while another call had a pointer to it, `wiped` that Redis erased the subscriptions
of other topics, `misused` that a caller went through a freed pointer and `strayed` that a thread did;
behaviour is undefined from there on and exploration stops. `inside` says who runs in a callback of which
object: a listener that is called may go on to call the component (`CallbackGoesOn`, `CallbackReturns`), on
six transports with the object's mutex held around it (`Busy`). `waits` are the callers that hold `mutex_`
or `idMutex_` and wait for an object's mutex. **RedisBroadcast**, **RabbitBroadcast**,
**ZeroMQBroadcast**, **NNGBroadcast**, **DatagramBroadcast** (multicast and singlecast) and
**ShmBroadcast** have the sections of each component: how an object is found and kept, when its thread
ends, who joins it. In RabbitBroadcast, whose objects have no mutex, a callback that removes its own subscription
gets as far as the destructor; there the join of its own thread throws, the exception is swallowed, and the
thread object, which is still joinable, calls `std::terminate` when it is destroyed
(`RabbitMQEndsProcess`, `ended`). ShmBroadcast has the queues in shared memory as well: two heads, a tail that a
publisher reads before it appends, the list of clients and the removal of stale ones.

**BroadcastNodes**: importers with their stop and restart commands, fetches with the thread that takes
the listener away, and exporters. **BroadcastListener**: `MultiTransportBroadcastListener.hpp` on top of
the components, with the threads that bring it requests and its control thread; requests in between `stop` and `restart` are
written down. A request is handled on the thread that brings it: one of its own, or that of a
subscription, inside the callback of a listener, as `setupBroadcastListenerThroughHeartbeat`
(`P/MultiTransportBroadcastListenerManagingUtils.hpp:663-710`) wires heartbeats and its stop criteria. **Broadcast** composes them into a process.

**RpcConnections** is the state of remote calls: `conn` (connection objects with their clients and both
tables), `user` (where each caller is in a call), `asker` and `heard` (the requests and what the callbacks
were given), `server`, `queue`, and `faults`, the bound on what may fail. `lost` names requests of which a
message was lost, dropped or refused, and is written where the code or the transport drops it.
**RedisRpc**, **RabbitRpc**, **SocketRpc** and **GrpcRpc** have the operations of each component;
gRPC has reactors in place of tables. **RpcRoles** says what users and servers are, **RpcNodes** has
the facilities, one-shot calls and server wrappers, and the remote facility's registrations; **Rpc** is
a locator with its clients and servers. The headers have each node twice, for requests with an identity
and without; here a locator is `signed` or not, and a refusal by the identity checker is the choice in
`Accepted`.

**WebLinks**: connections of the web socket component as chains of handlers, each of which starts the
next (resolve, connect, TLS, handshake, reads); `chain` are the client's objects, `sess` the connections
with the server's chain. **WebRpc**: requests and replies, with `beforeReadyBuffer_`. **WebBroadcast**:
the subscriber, which moves to a new object when its connection fails, and the publisher with its
handlers. **WebNodes**: the nodes and the registrations; **Web** composes them for one locator and one
path. A listener's callback finds a message whole or moved away, which is the field `whole`.
`finalizeEnvironment` is two steps, `RunsPorts` and `SetsStarted`, with whatever happens in between.

The boundaries are the same everywhere: the network, the brokers, the thread that the operating system
runs next are external and open; everything under a mutex is one step; a pointer that leaves the mutex is
carried in the state.

## 3. Runs

| run | properties | instance | what it shows |
|---|---|---|---|
| MCShmChain | TypeOK, WellLinked, NoDanglingItem, NoLeak, ImplementsSharedChain, CatchesUp | 3 clients, 3 addresses besides the head, batches of up to 2, crashes, notifications | appends that race, with memory that is freed and used again, keep one chain that implements the abstract one; readers get to every item |
| MCShmSpinLock | MutualExclusion, ServiceNeverGoesBack, EveryoneGetsIn | 3 threads, 4 calls of lock() by any of them, deaths anywhere | the lock excludes unless a hand-over lasts 10000 polls; service is monotonic; a waiter gets in or dies, or is passed over by takeovers after slow hand-overs |
| MCShmSpinLockTakeover | TakeoverOnlyFromQuit (violated) | 2 threads, no deaths | a live thread between two instructions is taken for one that quit |
| MCShmExtraData | LoadsWhatWasSaved, NeverForgotten | 3 clients, 3 blocks, 2 saves, every strategy but Unsafe | where a load is atomic it returns a whole, current datum; a key once saved is never found missing |
| MCEtcdChain | OneChain, HeldItemsAreTrue, CopiesAreFinal, ShortcutIsRight, ImplementsSharedChain, CatchesUp | 2 writers, one with copies and one with a watch, 2 ids, lost replies, restarts, a watch that comes late or ends | one chain; clients late, never wrong, and in the end everywhere unless their shortcut is shut and no watch opens it |
| MCEtcdChainBatch | NoRecordMissing (violated) | 1 client, one batch of 2 | a batch on one storage leaves a link to a record that is not there |
| MCRedisChain | OneChain, HeldItemsAreTrue, ImplementsSharedChain | 2 clients, 3 ids, batches of up to 2, broken connections | one chain, whatever the connection does to a command |
| MCFacilityDiscovery | SendersMatchServers, RequestsFindClients, MapPointsToSenders, ServersAreFound, SilentServersLeave | a server and its restarted self, a heartbeat thread and the timer's, 3 times found good, all four kinds of transport | senders, clients and known servers agree when all is quiet; requests find a client; who runs is found, who is silent leaves |
| MCFacilityDiscoveryCount | CountIsRight (violated) | 2 servers at 2 locators | the facility with two senders says it has one |
| MCBroadcast | RegistryConsistent, FreedIsNotUsed, LaterListenerHearsASuffix, NodesKeepTheirWord, FacilityKeepsTrack, MutexIsGivenBack | two importers, a fetch with or without an importer, the listener facility, or two threads that bring it requests, on each of seven transports (two threads: ZeroMQ and RabbitMQ), with equal or different wishes | registries agree and no freed object is used unless two calls overlap on one object (or Redis wipes a host); nodes and facility keep track of their ids all the same; `mutex_` and `idMutex_` are given back, unless a callback calls the facility |
| MCRpc | RepliesGoHome, TablesAgree, FreedIsNotUsed, RequestsAreAnswered | two callers of every kind and up to two servers on each of four transports, with one fault | replies reach whom they are for, the last one once; tables agree; every request that was not lost is answered |
| MCWeb | ListenersKeepTheirPlace, WebRepliesGoHome, WebTablesAgree, ListenersHearInOrder, EveryoneIsServed | two callers or listeners and a server or publisher that is there or comes late, plain and TLS, with one fault | listeners and requests survive connections that are not up or fail; who waits for ever is who the code forgets (below) |

A type invariant is stated for every state machine and checked by MCShmChain; the
others were checked while the modules were written, and are proved for ShmChain, EtcdChain, RedisChain,
ShmSpinLock, ShmExtraData, RemoteFacility, FacilityDiscovery and (as `Types`, in Broadcast_proofs and
Rpc_proofs) the broadcast modules and those of remote calls. Of Web the invariants rest on the types that they need
(`ClientTypes`, `LinkTypes`, `ServerTypes`, `ListenersInv`), not on all of `WebTypeOK`.

### Bounds, and why they are enough

- *ShmChain.* Two clients race for the last item while a third walks; three addresses let a refused
  batch of two be freed and its memory be used by another client while the chain grows. The proofs
  remove all bounds for the safety properties.
- *ShmSpinLock.* Three threads are one that is served, one that takes over and one that is skipped, or
  whose successor dies. Four calls let a thread that was passed over, and has drawn a new number, meet a
  thread that comes again. They do not let it be passed over for ever, so what the run shows of waiting is
  the exception that the property states, and not its extent. Tickets do not wrap in the model; they are 64 bits wide in the code.
- *ShmExtraData.* Two saves are an old and a new datum; a third block lets a block be freed and used
  again while a view of it is being read. Clients and blocks are symmetric, which is sound because
  there is no liveness property in that run.
- *EtcdChain.* Two ids are two appends, from the same or from both clients, each of which may be lost
  and retried; batches of two on separate storage. `MaxTogether = 1` keeps batches off the single
  storage, where they break the chain: that is the run MCEtcdChainBatch. Two appends are also what it takes to shut
  the shortcut by one's own append and to have another one before the watch is there. 286,690 states.
- *RedisChain.* Three ids let a batch of two compete with another append.
- *FacilityDiscovery.* Being found good three times covers a replacement by a restarted server, an
  expiry and a return. One facility is enough for what the properties say, since facilities share
  nothing but the order of delivery; `MapCorrect` is proved for any number. During development the
  safety properties were also checked on larger instances (a third server elsewhere; two facilities;
  two servers that share one of two locators), of up to 12.5 million states.

- *Broadcast.* Three ids are two listeners and one that comes again; one message is enough for what the
  suffix property tells apart, and for one callback that calls the facility. Three requests or commands
  of the facility are an addition under way during a stop and a restart, an addition and two removals, or removals
  from two callbacks. 589,548 states. With four (a stop and a restart around an addition and a
  removal) the facility was checked on four transports while the modules were written.
- *Rpc.* Two requests from one or two clients, a connection that is freed and made again, one fault, and
  one reply that is not the last. 668,666 states. One locator is enough: locators share the map's mutex only.
- *Web.* As for Rpc, two publications, and three connections: one fault cuts at most two of them (the one
  that breaks, and by an exception at the server the next), so a third is the one that must work.
  352,121 states. A port may be made before, between and after the two steps of `finalizeEnvironment`.
- In the three of them a *scenario* is drawn at the start: the transport, what each caller is, which
  servers are there. They are not all combinations but those that differ in code; the sets are in the MC modules.

`CHECK_DEADLOCK FALSE` is set everywhere because all models stop at their bounds: ids, calls, saves or
heartbeats run out, or everybody is dead.

### Fairness, and why the code justifies it

- *ShmChain.* Weak fairness of a client's own operations, for these are loops in threads the operating
  system runs, and of the time limit of the wait, which every caller of `waitForUpdate` gives. Nothing is assumed of
  notifications, of who wins a compare-exchange, nor that anybody appends.
- *ShmSpinLock.* Weak fairness of each live thread's next instruction; critical sections end, because
  the guard's destructor unlocks. Nobody is obliged to call lock(), nor kept from dying. Since a thread's loop draws
  a new number each time it is passed over, no fairness of this kind rules out that it happens again.
- *EtcdChain.* Strong fairness of fetching for each client: a client that appends in between comes
  back to fetching, as a chain client's loop does. Weak fairness of calls that have begun and of a
  watch that is registered and has not ended, which gets its events. No watch is obliged to be
  registered or to last: its stream has a deadline of 24 hours (`EtcdChain.hpp:171`), and one read that is not ok
  ends the thread.
- *FacilityDiscovery.* Threads go on with the commands they have. A server that is not gone is heard
  again and again, with all its facilities: its heartbeats are periodic, and lost ones do not matter
  in the end. A server that is gone is found silent by the timer, which the code runs for 24 hours.

- *Broadcast.* Strong fairness of each thread in the middle of a call or request, which gets a mutex that is free
  again and again, and weak fairness of the threads of the component, which poll with time limits. Nothing is assumed of messages, commands or requests.
- *Rpc.* Weak fairness of calls that have begun, of the threads that read connections, of a server's threads while
  it is up, of gRPC's callbacks, and of the broker that drops what nobody takes. Nobody is obliged to
  ask, a server need not come, and a server that says nothing may be one: its requests count as lost.
- *Web.* The same, for each object's next handler, each connection's handlers at the server, and the end
  of nodes that are finalized.

### What the violated properties say

The three violations are findings (`PROJECT.json`):

1. `EtcdChain.hpp:951`: a batch on one storage fills one put request again and again, so only its last
   record is written. Fixing it means one request for each record, as in the branch for separate storage.
2. The lock's comment says a waiter checks "if the process in front has quit"; it treats an empty owner
   word as such. Mutual exclusion depends on no hand-over lasting 10000 polls.
3. The facility's count after a registration is 1 whatever it is, by a tuple of the wrong type.

### Where the properties stop

Some properties have a condition because the code does not do more. What happens outside of it:

- `LoadsWhatWasSaved` excludes bytes under a lock: `loadExtraBytes` returns a view that is copied after
  the guard is gone, and TLC finds a torn value, or one in freed memory. It also excludes the first lock-free
  save of a key, where a load may follow the offset 0.
- `MutualExclusion` assumes that no hand-over was slow.
- `EveryoneGetsIn` grants that a waiter that was passed over and draws again (`slowHandover`) may be passed over
  again, without end: takeovers that come after slow hand-overs need not serve it. Without a slow hand-over everybody gets in or dies.
- `CatchesUp` excepts `HeldBack`, and `ShortcutIsRight` is about a watch that has reported: the client's own append
  sets `latestModRevision_` (`EtcdChain.hpp:795`, `833`), and as long as the watch has reported nothing since it was registered, or
  has ended, an append of another client does not change it. `fetchNext` (548) then says "nothing" of an item that
  has a successor until the next event, which need not come, or the next append of one's own.
- `SendersMatchServers`, `RequestsFindClients`, `ServersAreFound` and `SilentServersLeave` except
  a facility's locator once a Register and a Deregister for it were under way in two threads. There the
  Register of a server that has just been heard again can be overtaken by the Deregister of its
  expiry, or the other way round: a good server without a sender, or a sender for ever to a server that
  is gone; a numbered client can be left behind for ever; and a client can be added to a connection that was just
  destroyed. Only a later deregistration of that locator repairs the senders.
- `SendersMatchServers` is for servers that share all their locators or none: when two servers share one
  of several, the expiry of one deregisters the other's, and is not noticed.
- `RegistryConsistent` and `FreedIsNotUsed` except `raced`: a call gave the last
  listener of an object back while another had got the object and not yet added its own. TLC reaches the freed object there. They except `wiped` too: removing the last client of one topic
  in `RedisComponent.cpp:588` erases the host's other topics.
- Threads meet a freed object on the transports that detach theirs (multicast, singlecast, Redis,
  shared memory); `FreedIsNotUsed` has the transports that join.
- `MutexIsGivenBack` excepts `WaitsForCallback`: the object that is waited for is in a callback that called the
  facility. On the six transports with an object's mutex, a callback that adds a listener to its own object or removes
  one from it waits for the mutex its own thread holds, and keeps `idMutex_` if it adds; a callback that needs
  `mutex_` and a thread that removes another listener of the object, holding `mutex_`, wait for each other. On RabbitMQ
  a thread that joins the object's thread, holding `mutex_`, waits for a callback that wants `mutex_`; and a callback
  that removes its own subscription ends the process by `std::terminate`. Heartbeats that come through the very
  object that is listened on, and stop criteria, are enough for it.
- `NodesKeepTheirWord` excepts stop and restart commands that overlap, and a fetch whose thread reads
  the id before the call that stores it is back; both leave a listener.
- `LaterListenerHearsASuffix` fails for multicast and singlecast, which move one message into every callback.
  After an NNG socket has dialled twice, all listeners get every message twice.
- In shared memory, a publisher that is late appends behind a freed item, and a client that is slow is
  taken for stale; exploration stops there. A second ZeroMQ publisher of one port cannot bind.
- `FacilityKeepsTrack` says of two threads that bring requests only that the facility knows what the component has: a
  removal of everything and an addition that overlap have no order in which one of them is kept.
- The listener facility gives new ids after a restart that nobody is told; `RemoveAll` while stopped does
  not clear what the restart will subscribe; an addition noted by a thread that passed the check before the
  restart stays unlistened.
- `RepliesGoHome`, `TablesAgree`, `FreedIsNotUsed` and `RequestsAreAnswered` except `raced` (a client
  that was about to be added to a connection that was freed), `belated` (asked when already removed),
  `evicted` (taken away by another's removal, as numbers start again with a new connection),
  and, for a thread that meets a freed connection, Redis and socket RPC.
  gRPC may answer one call more after a removal.
- The model gives every request an id of its own: what a repeated id does is left out.
- `EveryoneIsServed` names who may wait for ever with web sockets: a request pushed into the buffer
  after it was emptied (`stranded`); everybody of a process that has `ended`, because any failure of an
  RPC client's connection, even to a server that is not up, ends in a destructor that throws; everybody
  at a server whose thread waits for the mutex it holds (`site.stuck`), after a write that failed; everybody of a port that was made between the two steps of
  `finalizeEnvironment` and is never run (`Overlooked`); the listeners of a subscriber
  that, after an error, does not understand the certificate it is to trust (`deaf`); and listeners without initial data
  where the publisher's protocol waits for some.
- A web socket client added to an object that has left the map, or whose entry an older object erased by
  its locator, can neither be removed nor be found again (`raced`).
- Exploration stops where a subscriber that ignores topics goes through its clients while they change
  (`torn`; that branch, 464, does not take the mutex) and where a second run of a portless publisher binds again (`doubled`).
- Of the web socket component the model leaves these facts out: `OneSubscriber::run` calls
  `removeRPCClient` where it means the subscriber (`WebSocketComponent.cpp:206`), and a failure to set
  the SNI name removes the object under the mutex the caller holds; a second listener's initial
  data and reactor are dropped; a silent peer keeps the server's only thread in its plain accept
  (641, 1453); `websocket_setRPCServer` uses `rpcServerMap_` without its mutex; and
  `wrapFacilitioidConnectorWithotuReply` (`P/websocket/WebSocketServerFacility.hpp:911`) would not
  compile if it were used.
- A registration that fails is logged and not tried again; a web socket server is never discovered,
  because `parseServerSpec` does not know its prefix.

## 4. Proofs

All for any values of the constants that satisfy the named assumptions of the module.

**Shm_proofs**, of **ShmChain** (assumption `ShmAssumption`: head and null are no addresses of items, batches are not
empty). The invariant `IndInv` is the conjunction of
`TypeOK`; `Shape` (what a client holds in each phase: a batch only while it forms or destroys one);
`WellLinked` (the links are the sequence `published`, and its last item has none);
`NoDanglingItem` (the items of the chain are live, and what a client holds is on the chain); and
`PrivateBatch` (the items of a batch are live, on no chain and in no other batch, and linked to each
other). `WellLinked` alone is not inductive: that a compare-exchange against 0 appends at the end needs
that the item held is on the chain (`ZeroIsLast`), and that a batch does not bend the chain needs
that it is private; that memory can be recycled needs both. There is one lemma for each operation. From
`IndInv` follow `TypeCorrect`, `ChainIsWellLinked`, `NothingDangles`, `BatchesArePrivate`; the action
property `LinksStay`; and, with the history of the dead, `NothingLeaks`. `ShmImplementsSharedChain` is
the refinement: the operations that move a client or append map to the step of that name of SharedChain, and
all others, a crash and the recycling of memory among them, to stutters. That the appender
stands at the end of the abstract sequence is `ZeroIsLast` again.

**CommonLemmas** has what the three chains need of sequences (the places of a concatenation, that new and
different items repeat nothing, that two equal items of a sequence without repetition stand at one place),
and what the calls and listeners need: sequences changed at one place or with elements left out, and tables with
their mirror images. It has no model in it.

**RedisChain_proofs** (`RedisAssumption`: the head and no-id are not ids): `ChainIsOne`, `ItemsAreTrue` and
`RedisImplementsSharedChain`, for batches of any size and connections broken under any command. The
invariant adds to the two properties `DataOfItems` (an item's data are there exactly when the item is on the
chain, which the script guarantees), `Batches` and `OnTheWay` (what `fetchNext` reads between its two
commands is the successor of the item at hand; it stays so because links do not change).

**EtcdChain_proofs** (`EtcdAssumption`, the same, and in each theorem the premise `Sound`: separate storage, or
batches of one item): `ChainIsOne`, `ItemsAreTrue`, `CopiesStayFinal`, `ShortcutStaysRight` and
`EtcdImplementsSharedChain`. Without the premise they are false, which is the run MCEtcdChainBatch.
The four properties together are not inductive; added are `SeenRevisions` (nobody has seen a revision
etcd has not given out), `LateReaders` (who takes an item for the last one that is not has read it
before the append, and once the watch, registered and reporting, has reported that append the shortcut is closed: this is what makes
a stale reader's transaction fail and the shortcut right), and `Calls` (a copy that is made after the
reply, late, is of items that stand one after the other on the chain).

In the same module, of **ShmExtraData** (`ExtraDataAssumption`; for all strategies but Unsafe at once): `LoadsAreWhole` and `SavesAreNeverForgotten`. The
invariant follows a save and a load word by word: `OneInGuard` (mutual exclusion, from the lock), `Saves`
(the words written so far are the datum's), `KeyLeadsToLast` (unless somebody is writing to it, the block of
the key has the last datum saved) and `Loads` (the words read so far are those of one datum that was not
superseded when the load began). The last two hold in the cases in which the code keeps its word
(`Kept`): objects under a lock, and keys that are there before the first lock-free save.
`SavesAreNeverForgotten` holds in all of them.

In the same module, of **ShmSpinLock** (`SpinAssumption`): `LockTypeCorrect`; `LockIsExclusive`, for any number of threads, deaths at any
point and no bound on delays except the condition in `MutualExclusion`; `ServiceIsMonotonic` without any condition. The inductive invariant
relates tickets to the service register (tickets are distinct and below the dispenser; a thread in the
critical section or on its way in has the ticket being served and is on record as the owner) and is guarded by
`~slowHandover`, as it breaks with the first slow hand-over.

**Broadcast_proofs** (`SubscriptionsAssumption`, `NodesAssumption`: finitely many threads, a scenario
gives each of them a role and something to listen to, the bounds are numbers): `RegistryIsConsistent`, `FreedIsNeverUsed` and
`LaterListenersHearSuffixes`, for every transport, any number of threads and whatever scenarios. First
`NextIsStep` reduces the next-state relation of the process, nodes and listener facility included, to
`SubsStep`: the ways in which any transport changes what they share, a section of a call or of a
thread each, with the calls from inside a callback and the wait for an object's mutex (`Waits`). Each has a lemma (`...Keeps`) for the
invariant, which is `Types /\ Sound`. `Sound` has two parts. In every behaviour: `IdsAreLeft` (who asks
for a subscription has an id to draw), `FreeingHolds` (`mutex_` is held by who frees), `AliveIsOwned`,
`IdsAreDrawnOnce`, `ExchangesAreOwn` (RabbitMQ) and `SuffixesHeard`, which speaks of freed objects too, as the
thread of one may still deliver. And until a call gave an object back under another's pointer
(`raced`) or Redis wiped a host (`wiped`), `Orderly`: ids lead to their listeners (`IdsLeadToListeners`),
`KeysDiffer`, an object without listeners is in somebody's hands (`NoneIsLeft`), the pointers that callers
carry are to objects that run (`PointersAreGood`), and nothing leads to what is being freed (`FreeingIsAlone`).
`RegistryConsistent` alone is not inductive since a call goes through several sections with a bare pointer.
The properties of the two users of a component, `FacilityKeepsTrack` and `NodesKeepTheirWord`, are
`FacilityAlwaysKeepsTrack` and `NodesAlwaysKeepTheirWord`, with the premise `OneUser`: in each scenario the
component is used by the facility, with one handler, inside a callback or not, and one control thread (`FacilityAlone`), or by
importers and fetches, as many as one likes (`NodesAlone`). With both, what the facility knows is not
all that the component has. Neither needs `Orderly`, so both hold after an object was freed
under a pointer too, up to the use of it. What a section of a call does is first reduced to what its user sees
(`CallNextDoes`, `SubscribeDoes`, `UnsubscribeDoes`): it draws an id and enters it into the map (`Draws`),
takes it out (`Gives`), goes on (`MovesOn`), or none of that (`Silent`). Then `FacilityInv` follows the two
threads of the facility: what a thread does fits where its call is (`Fits`), ids and
specifications in `told`, `registered` and `restartInfo` agree (`EntriesAgree`), every id of the component is
known or just being told (`IsKnown`) and every specification seen to (`IsCovered`); what is being removed has
left the component's map (`Awaits`) and is not kept (`Withholds`). `NodesInv` says that each id has one owner (`OwnedOnce`),
leads to one object (`MappedOnce`) and is given back by one call (`GivenOnce`); that an importer's is in the map
until it gives it back (`Held`); that what lists have is in the map or about to be taken out
(`Listed`); and that without overlapping the last command is carried out or the only one that waits
(`LastWins`).
Where a component moves a message into the first callback (multicast, singlecast) what was heard is a fold over the
clients, about which nothing is proved beyond its type; there the suffix property claims nothing either.

**RemoteFacility_proofs**, about the facility (`FacilityAssumption`: the kinds of transport): `TypeCorrect`
and `MapCorrect`, for any number of threads that execute any commands in any interleaving, also those that
cross. The invariant is `TypeOK /\ MapPointsToSenders`; it is inductive as it stands, since the map and the
senders are changed in the same section, but needs the step that marks destroyed clients to leave the
locators alone (`DestroyKeeps`).

And about the facilities as heartbeats set them up (`DiscoveryAssumption`: finitely many servers and
names, names that are wired once each, a locator that belongs to one name): `DiscoveryTypeCorrect`;
`DiscoveryImplementsFacility`, by which `MapCorrect` holds there as well (`MapCorrectFromHeartbeats`);
`RequestsReachClients` and `SendersFollowServers`. Both go through `Wired`: commands and senders lead to
servers, each phase belongs to one type of command, and where nothing is on record as crossed a Register
and a Deregister for one sender are in the same thread (`NoneCross`). `RequestsReachClients` adds
`ClientsThere`, which looks at the threads that were given a client and have not pushed their sender:
no Deregister can be under way for it. `SendersFollowServers` adds `AllSettle`. No two good servers have
the same information (`GoodDiffer`); and for each sender whose servers are alike, one thread has all that
is still to be done for it (`OneThread`), it ends in what the converter knows (`Announced`), its last
command is the Register (`InOrder`), a command that is being executed has got as far as its phase says
(`Half`), and the facility has what the rest of the work starts from (`Starts`): nothing before a
Register, a complete sender or nothing before a Deregister, and what the converter knows when there is no
work. The property alone says nothing while anything is under way, so it is far from inductive. That a list of
commands has what it should, in the order it should, is `HeartbeatListIsRight` and `SilenceListIsRight`; the
second is about a flattened sequence, hence an induction, made with the least index for which the
claim fails (`Least`).

**Rpc_proofs** (`RpcAssumption`: the bounds are numbers; `ScenarioAssumption`: a scenario gives every
caller a role, and a socket's or gRPC's port has one server, as a second one could not bind to it):
`RepliesAlwaysGoHome`, `TablesAlwaysAgree` and `FreedIsUsedWhereSaid`, for any number of callers, servers,
connections and requests, on each of the four transports. The three properties together are far from
inductive; `IndInv` is `Types` with four parts.
- `ClientsInv` is about connections and who points to them: one connection is alive and it is the
  component's (`OneIsAlive`); pointers lead to connections that were made, and no two callers
  have one number on one connection (`PointersAreTrue`, which is what makes a number an identity until the
  connection is replaced and numbers start again); the clients of a connection are exactly the callers that were added and have not
  left, but those that another's removal took (`ClientsAreUsers`, `UsersAreClients`); a request's
  connection and number are its caller's (`AskersAreTrue`), and the tables have what was asked
  on their connection (`TablesAreTrue`). A socket's connection has one client from the beginning and a sender of gRPC keeps
  its first (`FixedClients`).
- `ServersInv` says that a server has messages and entries of requests that were made only, and which
  of them stand in both tables (`GoodService`); it needs that a server that is down has nothing, and that over
  sockets and gRPC a request is sent once.
- `RepliesAreTrue`: what is on its way to a connection, or in the hand of its thread, is about requests made there.
- `CallsInv` is where it depends on the transport that the last reply is the last. Over Redis and RabbitMQ the last
  reply takes the entry away, under `clientsMutex_`, and without an entry nobody is called (`EndedIsForgotten`). Over
  sockets there is no entry: the server says it once, the stream keeps the order, and so what a server still
  works on was not ended, neither in the stream nor in a callback (`SocketStages`). Over gRPC the
  reactor of the call is what counts: it is over, or in the one-call mode has read its one reply
  (`GoodCall`), and its server's half has one write under way (`Writing`) and no work after the last (`GrpcStages`).

There is a lemma for each operation of each transport (`...Step`), most of them in two layers: what the
operation does to clients, servers, messages and calls, and then that these keep their parts. The roles
are then reduced to the operations (`NodesCall`, `WrappersServe`). `signed`, `serves`, `reap`, `port` and
`faults` do not occur in the invariant: no caution of the nodes is needed for it. Only
of gRPC does it matter who calls, as a native call has a reactor of another kind.

**Web_proofs** (`RpcAssumption`, and `WebAssumption`: a scenario is of one of the two components, and a
port has one server, as a second one could not bind to it): `ListenersAlwaysKeepTheirPlace`,
`ListenersAlwaysHearInOrder`, `WebRepliesAlwaysGoHome` and `WebTablesAlwaysAgree`, for any number of callers or
listeners, objects, requests, reconnections and failures. TLC agreed with the invariant `IndInv` on the instance of MCWeb before it was proved.
For the listeners, `ListenersInv` says that the ids among the clients are different and were given out, and that the
subscriber has one chain of handlers. `ListenersHearInOrder` is about steps; it rests on `HearingInv`: the
publications on their way on a connection are in order, and there are none before its handler is registered
(`Delivers`); what was heard comes before what is in hand, and that before what is on its way on the
subscriber's present connection (`InTurn`). That a listener finds nothing in a message only where
another was given it whole is shown along the clients called for it (`Spoken`).
For remote calls `RpcInv` says:
- what each handler chain may rest on (`ChainIsTrue`), and that a connection that broke has nothing under way and
  a session only its own object's requests (`SessionIsTrue`): so an entry of the server is about a request of the
  connection it names, and its handler was not removed (`EntryIsTrue`).
- `PlacesAreTrue`, from which follows that a callback is called late only where an object was lost with its clients:
  until then the clients of the locator's object are callers that have not left, and any other object hears no more
  or has nobody to tell, and will have nobody.
- `BuffersAreTrue` and `CallersEnter`: of the callers and the handler that empties the buffer exactly one enters a
  request in the tables, and once. A request that waits, is in the handler's copy or is in a caller's hand is in no table
  and was not answered for the last time (`NotEntered`). Without this the last reply would not be the last:
  a request that was entered again after its last reply would be answered again.
- `HeardIsTrue`: the last reply takes the request from the tables, which is why nothing follows it.

A fact about a step that several operations share has a lemma (`Grows`: what no step takes away; `LinksKeep`,
`DispatchedKeeps`), and there is one lemma for each operation, as for Rpc.

Only model-checked: all liveness properties (`CatchesUp`, `EveryoneGetsIn`, `ServersAreFound`,
`SilentServersLeave`, `MutexIsGivenBack`, `RequestsAreAnswered`, `EveryoneIsServed`), which are
out of the prover's reach. Every invariant and every action property of the runs is a theorem.

## 5. Not modelled, and why

- Weak memory: one access to shared memory is one step. The lock's words are sequentially consistent in
  the code; an item is published by a compare-exchange on its predecessor's link and read after an
  acquire load of that link, which orders the item's own words.
- Reuse of process ids (the lock), and threads of one process whose ids have the same 32-bit hash.
- `Unsafe` extra data, which promises nothing.
- What the condition variable does when every waiter brings another mutex: undefined by POSIX.
- Serialisation, hooks, signatures, locators' text: pure conversions. That a hook or an identity checker
  may refuse a message is modelled; TLS is the further handshake it needs.
- The listings of thread handles of all components: they read the maps.
- RabbitMQ connections that fail and the policy for exceptions of its client library.
- The answers of a web socket's protocol reactor, which are the user's bytes.
- The JSON REST component: the largest part that is left. Its client and its server are chains of
  handlers, as WebLinks has them, but with tables and tokens of their own.
- The chain creator, the named value store, heartbeat and alert, the transaction servers and their
  subscriber, the synthetic facility: left for later, each for reasons of order and not of principle.
- The servers etcd, Redis and RabbitMQ: external; only what the calls made to them do.
- The parts of section 1 that no module names: see their notes in `PROJECT.json`.

## 6. Plan

1. *Done:* SharedChain, ShmChain, ShmSpinLock, ShmExtraData, EtcdChain, RedisChain, RemoteFacility,
   FacilityDiscovery, with the proofs above.
2. *Done:* the broadcast components with their nodes and the listener facility (Broadcast).
3. *Done:* remote calls over Redis, RabbitMQ, sockets and gRPC with their nodes (Rpc).
4. *Done:* the web socket component with its nodes (Web).
5. **JsonRest**: requests over kept connections, and the token check, on WebLinks' pattern.
6. **EtcdLock**: the two-integer lock of the named value store and of the node library's LockHelper; one
   run for exclusion and for what a lost reply does to those behind.
7. Set-up of distinguished facilities (each waits for the first answer of the one before), on top of
   FacilityDiscovery.
8. The chains of the node library against EtcdChain and RedisChain; SharedChainCreator; the key of the
   head that `EtcdChain.hpp:344` keeps in a static variable.
9. HeartbeatAndAlert, transaction servers and the remote transaction subscriber, if their hazards turn
   out to be more than one mutex.

Proofs, next: those of the modules to come. Larger compositions get runs only where they ask a new question.
