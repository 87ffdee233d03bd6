--------------------------- MODULE BroadcastNodes ---------------------------
(***************************************************************************)
(* The nodes of <transport>ImporterExporter.hpp on top of the components:  *)
(* an importer subscribes when it starts and can be stopped and restarted  *)
(* by control commands, each of which runs on a detached thread of its     *)
(* own; fetchFirstUpdateAndDisconnect subscribes and has another thread    *)
(* take the listener away 10 ms after its first message; an exporter       *)
(* publishes.  The headers of the transports are copies of one text.       *)
(***************************************************************************)
EXTENDS ZeroMQBroadcast, NNGBroadcast, DatagramBroadcast, RedisBroadcast,
        RabbitBroadcast, ShmBroadcast

CONSTANTS Scenario,   \* a transport, what each caller does and subscribes to
          Wanted,     \* the addresses and filters subscribed to
          Exported,   \* the addresses published on
          MaxControl  \* bound: control commands after fewer messages

VARIABLES role,     \* what each caller is
          want,     \* the address and filter of each node
          node,     \* an importer's client_ and the commands that wait
          fetch,    \* the shared id and the state of a fetch
          controls  \* commands given so far

nodeVars == <<role, want, node, fetch, controls>>

Roles == {"importer", "fetcher", "reaper", "handler", "control", "idle"}
Command == {"start", "stop"}

ASSUME NodesAssumption ==
  /\ Wanted \subseteq [loc : Locator, filter : Filter] /\ Exported \subseteq Locator
  /\ Scenario \subseteq [kind : Kind, role : [Caller -> Roles], want : [Caller -> Wanted]]
  /\ MaxControl \in Nat

Importers == {c \in Caller : role[c] = "importer"}
Fetchers  == {c \in Caller : role[c] = "fetcher"}
Reapers   == {c \in Caller : role[c] = "reaper"}

NodesTypeOK ==
  /\ role \in [Caller -> Roles]
  /\ want \in [Caller -> Wanted]
  /\ node \in [Caller -> [client : 0..MaxId, waiting : [Command -> 0..(MaxControl + 1)],
                          last : Command, overlapped : BOOLEAN]]
  /\ fetch \in [Caller -> [at : {"idle", "asking", "asked"}, id : 0..MaxId,
                           reap : {"no", "due", "now", "over"}, early : BOOLEAN]]
  /\ controls \in 0..MaxControl

NodesInit ==
  /\ \E s \in Scenario : kind = s.kind /\ role = s.role /\ want = s.want
  /\ node = [c \in Caller |->
       [client |-> 0, last |-> "start", overlapped |-> FALSE,
        waiting |-> [m \in Command |->
                       IF m = "start" /\ role[c] = "importer" THEN 1 ELSE 0]]]
  /\ fetch = [c \in Caller |->
                [at |-> "idle", id |-> 0, reap |-> "no", early |-> FALSE]]
  /\ controls = 0

--------------------------------------------------------------------------
(* Importers.                                                              *)

\* The importer's mutex_ is free and no command waits for it.
Settled(c) == call[c].at = "out" /\ \A m \in Command : node[c].waiting[m] = 0

\* control starts a thread that will carry out the command.
Control(c, m) ==
  /\ role[c] = "importer" /\ controls + sent < MaxControl
  /\ controls' = controls + 1
  /\ node' = [node EXCEPT ![c].waiting[m] = @ + 1, ![c].last = m,
                          ![c].overlapped = @ \/ ~Settled(c)]
  /\ UNCHANGED <<subsVars, role, want, fetch>>

\* A thread with this command gets mutex_.
Carry(c, m) ==
  /\ role[c] = "importer" /\ call[c].at = "out" /\ node[c].waiting[m] > 0
  /\ node' = [node EXCEPT ![c].waiting[m] = @ - 1]
  /\ UNCHANGED <<role, want, fetch, controls>>

\* start: with mutex_ held throughout, subscribe unless there is a client_.
ImporterStarts(c, subscribe(_, _, _)) ==
  /\ Carry(c, "start")
  /\ IF node[c].client = 0 THEN subscribe(c, want[c].loc, want[c].filter)
     ELSE UNCHANGED subsVars

\* control("stop"): with mutex_ held throughout, give the client_ back.
ImporterStops(c, unsubscribe(_, _)) ==
  /\ Carry(c, "stop")
  /\ IF node[c].client # 0 THEN unsubscribe(c, node[c].client)
     ELSE UNCHANGED subsVars

\* Fault: client_ is not reset when it has been given back.
ImporterReturns_KeepsClient(c) ==
  /\ role[c] = "importer" /\ call[c].at \in {"added", "removed"}
  /\ node' = [node EXCEPT ![c].client = call[c].id]
  /\ call' = [call EXCEPT ![c] = Out]
  /\ UNCHANGED <<kind, objVars, idVars, heard, sendVars, undef, backVars, role, want, fetch,
                 controls>>

\* The component's call returns and the thread lets go of mutex_.
ImporterReturns(c) ==
  /\ role[c] = "importer" /\ call[c].at \in {"added", "removed"}
  /\ node' = [node EXCEPT ![c].client = IF call[c].at = "added" THEN call[c].id ELSE 0]
  /\ call' = [call EXCEPT ![c] = Out]
  /\ UNCHANGED <<kind, objVars, idVars, heard, sendVars, undef, backVars, role, want, fetch,
                 controls>>

--------------------------------------------------------------------------
(* Fetching the first message.                                             *)

FetchBegins(c, subscribe(_, _, _)) ==
  /\ role[c] = "fetcher" /\ fetch[c].at = "idle"
  /\ subscribe(c, want[c].loc, want[c].filter)
  /\ fetch' = [fetch EXCEPT ![c].at = "asking"]
  /\ UNCHANGED <<role, want, node, controls>>

\* *id = ..., which may be later than the first message.
FetchStoresId(c) ==
  /\ role[c] = "fetcher" /\ call[c].at = "added"
  /\ fetch' = [fetch EXCEPT ![c].at = "asked", ![c].id = call[c].id]
  /\ call' = [call EXCEPT ![c] = Out]
  /\ UNCHANGED <<kind, objVars, idVars, heard, sendVars, undef, backVars, role, want, node,
                 controls>>

\* The callback: the first message that is wanted starts a thread.
FetchHears ==
  fetch' = [c \in Caller |->
    IF /\ role[c] = "fetcher" /\ fetch[c].reap = "no"
       /\ \E o \in subs : \E x \in Range(obj[o].clients) :
            x.by = c /\ heard'[x.id] # heard[x.id]
    THEN [fetch[c] EXCEPT !.reap = "due"] ELSE fetch[c]]

\* That thread reads the shared id and gives the listener back.
ReaperBegins(c, unsubscribe(_, _)) ==
  \E f \in Fetchers :
    /\ role[c] = "reaper" /\ fetch[f].reap = "due"
    /\ unsubscribe(c, fetch[f].id)
    /\ fetch' = [fetch EXCEPT ![f].reap = "now", ![f].early = (fetch[f].id = 0)]
    /\ UNCHANGED <<role, want, node, controls>>

\* It has given back the id that it read.
ReaperReturns(c) ==
  \E f \in Fetchers :
    /\ role[c] = "reaper" /\ fetch[f].reap = "now" /\ call[c].at = "removed"
    /\ call[c].id = IF fetch[f].early THEN 0 ELSE fetch[f].id
    /\ fetch' = [fetch EXCEPT ![f].reap = "over"]
    /\ call' = [call EXCEPT ![c] = Out]
    /\ UNCHANGED <<kind, objVars, idVars, heard, sendVars, undef, backVars, role, want, node,
                   controls>>

--------------------------------------------------------------------------
(* Exporting: start gets the publisher, handle calls it.                   *)

Exports(open(_), publish(_, _)) ==
  /\ \E l \in Exported : open(l) \/ \E tp \in Topic : publish(l, tp)
  /\ UNCHANGED nodeVars

--------------------------------------------------------------------------
(* The nodes of each transport.                                            *)

ZeroMQImporter(c) ==
  \/ ZeroMQ /\ ImporterStarts(c, ZeroMQGetOrStart)
  \/ ZeroMQ /\ ImporterStops(c, ZeroMQRemoveClient)
ZeroMQFetchFirst(c) ==
  FetchBegins(c, ZeroMQGetOrStart) \/ ReaperBegins(c, ZeroMQRemoveClient)
ZeroMQExporter == Exports(ZeroMQGetOrStartSender, ZeroMQPublish)

NNGImporter(c) ==
  \/ NNG /\ ImporterStarts(c, NNGGetOrStart)
  \/ NNG /\ ImporterStops(c, NNGRemoveClient)
NNGFetchFirst(c) ==
  FetchBegins(c, NNGGetOrStart) \/ ReaperBegins(c, NNGRemoveClient)
NNGExporter == Exports(NNGGetOrStartSender, NNGPublish)

MulticastImporter(c) ==
  \/ Multicast /\ ImporterStarts(c, MulticastGetOrStart)
  \/ Multicast /\ ImporterStops(c, MulticastRemoveClient)
MulticastFetchFirst(c) ==
  FetchBegins(c, MulticastGetOrStart) \/ ReaperBegins(c, MulticastRemoveClient)
MulticastExporter == Exports(MulticastGetOrStartSender, MulticastPublish)

SinglecastImporter(c) ==
  \/ Singlecast /\ ImporterStarts(c, SinglecastGetOrStart)
  \/ Singlecast /\ ImporterStops(c, SinglecastRemoveClient)
SinglecastFetchFirst(c) ==
  FetchBegins(c, SinglecastGetOrStart) \/ ReaperBegins(c, SinglecastRemoveClient)
SinglecastExporter == Exports(SinglecastGetOrStartSender, SinglecastPublish)

RedisImporter(c) ==
  \/ Redis /\ ImporterStarts(c, RedisGetOrStart)
  \/ Redis /\ ImporterStops(c, RedisRemoveClient)
RedisFetchFirst(c) ==
  FetchBegins(c, RedisGetOrStart) \/ ReaperBegins(c, RedisRemoveClient)
RedisExporter == Exports(RedisGetOrStartSender, RedisPublish)

RabbitMQImporter(c) ==
  \/ RabbitMQ /\ ImporterStarts(c, RabbitMQAdd)
  \/ RabbitMQ /\ ImporterStops(c, RabbitMQRemove)
RabbitMQFetchFirst(c) ==
  FetchBegins(c, RabbitMQAdd) \/ ReaperBegins(c, RabbitMQRemove)
RabbitMQExporter == Exports(RabbitMQPublishingConnection, RabbitMQPublish)

ShmImporter(c) ==
  \/ Shm /\ ImporterStarts(c, ShmGetOrStart)
  \/ Shm /\ ImporterStops(c, ShmRemoveClient)
ShmFetchFirst(c) ==
  FetchBegins(c, ShmGetOrStart) \/ ReaperBegins(c, ShmRemoveClient)

\* publish is in two steps here, on a thread of the exporter's own.
ShmExporter ==
  /\ \/ \E l \in Exported : ShmGetOrStartSender(l)
     \/ \E o \in 1..Len(obj) : ShmDropStale(o)
     \/ \E c \in Caller :
          /\ role[c] = "idle"
          /\ (\E o \in 1..Len(obj) : ShmReadTail(c, o)) \/ (\E tp \in Topic : ShmAppend(c, tp))
  /\ UNCHANGED nodeVars

NodeStep(c) ==
  \/ \E m \in Command : Control(c, m)
  \/ ImporterReturns(c) \/ FetchStoresId(c) \/ ReaperReturns(c)
  \/ ZeroMQImporter(c) \/ NNGImporter(c) \/ MulticastImporter(c) \/ SinglecastImporter(c)
  \/ RedisImporter(c) \/ RabbitMQImporter(c) \/ ShmImporter(c)
  \/ ZeroMQFetchFirst(c) \/ NNGFetchFirst(c) \/ MulticastFetchFirst(c)
  \/ SinglecastFetchFirst(c) \/ RedisFetchFirst(c) \/ RabbitMQFetchFirst(c)
  \/ ShmFetchFirst(c)

ExporterStep ==
  \/ ZeroMQExporter \/ NNGExporter \/ MulticastExporter \/ SinglecastExporter
  \/ RedisExporter \/ RabbitMQExporter \/ ShmExporter

--------------------------------------------------------------------------
(* Properties.                                                             *)

\* An importer that nobody is working for has its client_ registered, and has
\* one exactly when start was the last command, unless commands overlapped:
\* their threads may take mutex_ in the other order.  A fetch that is over
\* leaves no listener, unless its thread read the id before it was stored.
\* This is so however the calls overlap on an object.
NodesKeepTheirWord ==
  /\ \A c \in Importers : Settled(c) =>
       /\ node[c].client # 0 => \E x \in idMap : x[1] = node[c].client
       /\ ~node[c].overlapped => (node[c].client # 0 <=> node[c].last = "start")
  /\ \A f \in Fetchers : fetch[f].reap = "over" /\ ~fetch[f].early =>
       \A o \in subs : \A x \in Range(obj[o].clients) : x.by # f
=============================================================================
