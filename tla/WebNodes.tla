------------------------------ MODULE WebNodes ------------------------------
(***************************************************************************)
(* The nodes of websocket/*.hpp: importers that are stopped and restarted, *)
(* lazy importers, fetches of a first update, exporters, and the clients   *)
(* and servers of remote calls, which the headers have twice, for requests *)
(* with an identity and without one; and the registrations of              *)
(* MultiTransportRemoteFacility.hpp.                                       *)
(***************************************************************************)
EXTENDS WebRpc, WebBroadcast, RpcRoles

VARIABLES node   \* of each listener: client_ or *id, the id that is about to be
                 \* stored, done, and the threads that will remove *id

Listening == {"importer", "typedImporter", "lazy", "typedLazy", "fetch", "typedFetch"}
Takers    == {"importer", "lazy", "fetch"}

\* A port has one server: a second one cannot bind to it.
ASSUME WebAssumption ==
  /\ {MaxSess, MaxSent} \subseteq Nat
  /\ \A x \in Scenario : /\ x.kind \in Kind \cap {"websocket_rpc", "websocket"}
                        /\ x.role \in [Caller -> Roles \cup Listening] /\ x.secure \in BOOLEAN
  /\ \A s, t \in Server : s = t

NoNode == [id |-> 0, ret |-> 0, done |-> FALSE, due |-> 0]

WebNodesTypeOK ==
  /\ role \in [Caller -> Roles \cup Listening] /\ signed \in BOOLEAN
  /\ serves \in [Server -> {"replying", "silent", "exporter", "typedExporter"}]
  /\ reap \in [Caller -> [done : BOOLEAN, due : 0..2]]
  /\ node \in [Caller -> [id : 0..MaxId, ret : 0..MaxId, done : BOOLEAN, due : 0..1]]

--------------------------------------------------------------------------
(* Clients of remote calls.                                                *)

WebFacility(c) ==
  /\ role[c] = "facility" /\ UNCHANGED roleVars
  /\ \/ Starts(c) /\ WebSetRpcClient(c)
     \/ WebSendRequest(c)
     \/ WebRemoveRpcClient(c)

WebFacilityWithIdentity(c) ==
  /\ role[c] = "facility" /\ UNCHANGED roleVars
  /\ \/ Starts(c) /\ WebSetRpcClient(c)
     \/ WebSendRequest(c)
     \/ WebRemoveRpcClient(c)

WebTypedFacility(c) == IF signed THEN WebFacilityWithIdentity(c) ELSE WebFacility(c)

\* typedOneShotRemoteCall with autoDisconnect.
WebOneShotRemoteCall(c) ==
  /\ role[c] = "oneshot"
  /\ \/ /\ UNCHANGED roleVars
        /\ (Starts(c) /\ WebSetRpcClient(c)) \/ (~Asked(c) /\ WebSendRequest(c))
     \/ Reaps(c) /\ WebRemoveRpcClient(c) /\ UNCHANGED <<role, signed, serves>>

WebOneShotRemoteCallWithIdentity(c) ==
  /\ role[c] = "oneshot"
  /\ \/ /\ UNCHANGED roleVars
        /\ (Starts(c) /\ WebSetRpcClient(c)) \/ (~Asked(c) /\ WebSendRequest(c))
     \/ Reaps(c) /\ WebRemoveRpcClient(c) /\ UNCHANGED <<role, signed, serves>>

WebOneShotRemoteCallNoReply(c) ==
  /\ role[c] = "noreply" /\ UNCHANGED roleVars
  /\ \/ Starts(c) /\ WebSetRpcClient(c)
     \/ ~Asked(c) /\ WebSendRequest(c)
     \/ Asked(c) /\ user[c].at = "ready" /\ ~user[c].left /\ WebRemoveRpcClient(c)

WebOneShotRemoteCallNoReplyWithIdentity(c) ==
  /\ role[c] = "noreply" /\ UNCHANGED roleVars
  /\ \/ Starts(c) /\ WebSetRpcClient(c)
     \/ ~Asked(c) /\ WebSendRequest(c)
     \/ Asked(c) /\ user[c].at = "ready" /\ ~user[c].left /\ WebRemoveRpcClient(c)

WebOneShotCall(c) ==
  IF signed THEN WebOneShotRemoteCallWithIdentity(c) ELSE WebOneShotRemoteCall(c)
WebOneShotCallNoReply(c) ==
  IF signed THEN WebOneShotRemoteCallNoReplyWithIdentity(c) ELSE WebOneShotRemoteCallNoReply(c)

\* The callers whose callback was given a content that means nothing.
WebGarbled ==
  {asker[Head(sess[chain[o].s].down).id].by : o \in
     {p \in 1..Len(chain) : /\ Due(p, "reading") /\ faults' # faults
                            /\ sess'[chain[p].s].down # sess[chain[p].s].down}}

WebRegisterFacility(c) ==
  /\ role[c] = "remote" /\ UNCHANGED roleVars
  /\ (Starts(c) /\ WebSetRpcClient(c)) \/ WebSendRequest(c)

\* The client is removed, and then the sender goes.
WebDeregisterFacility(c) ==
  /\ role[c] = "remote" /\ UNCHANGED roleVars
  /\ \/ ~user[c].left /\ WebRemoveRpcClient(c)
     \/ /\ user[c].left /\ user[c].at = "ready"
        /\ user' = [user EXCEPT ![c].at = "out", ![c].o = 0]
        /\ UNCHANGED <<kind, conn, cur, lock, evicted, asker, heard, server, queue, lost,
                       faults, undefVars, linkVars, webRpcVars>>

--------------------------------------------------------------------------
(* Servers of remote calls.                                                *)

WebIncomingLeg(s) == serves[s] = "silent" /\ (WebSetRpcServer(s) \/ AddServer(s))
WebLegs(s) ==
  serves[s] = "replying" /\ (WebSetRpcServer(s) \/ AddServer(s) \/ WebReplierStored(s))

\* A facility that is wrapped replies, or is not asked to.
WebWrapped(s) ==
  \/ \E i \in Id : serves[s] = "silent" /\ WebKeepsSilent(s, i)
  \/ \E i \in Id, final \in BOOLEAN : serves[s] = "replying" /\ WebSendReply(s, i, final)

WebWrappedWithIdentity(s) ==
  \/ \E i \in Id : serves[s] = "silent" /\ WebKeepsSilent(s, i)
  \/ \E i \in Id, final \in BOOLEAN : serves[s] = "replying" /\ WebSendReply(s, i, final)

WebWrap(s) == IF signed THEN WebWrappedWithIdentity(s) ELSE WebWrapped(s)

--------------------------------------------------------------------------
(* Listeners and exporters.                                                *)

\* Initial data are moved out of a node when it first starts.
Adds(c) == AddSubscriptionClient(c, c \notin Range(owner))

\* start and control, under the node's mutex_.
WebImporter(c) ==
  /\ role[c] = "importer"
  /\ \/ node[c].id = 0 /\ Adds(c) /\ node' = [node EXCEPT ![c].id = Len(owner')]
     \/ /\ node[c].id # 0 /\ RemoveSubscriptionClient(node[c].id)
        /\ node' = [node EXCEPT ![c].id = 0]

WebTypedImporter(c) ==
  /\ role[c] = "typedImporter"
  /\ \/ node[c].id = 0 /\ Adds(c) /\ node' = [node EXCEPT ![c].id = Len(owner')]
     \/ /\ node[c].id # 0 /\ RemoveSubscriptionClient(node[c].id)
        /\ node' = [node EXCEPT ![c].id = 0]

\* The first input is the initial data; only the destructor unsubscribes.
WebLazyImporter(c) ==
  /\ role[c] = "lazy"
  /\ \/ node[c].id = 0 /\ ~node[c].done /\ Adds(c) /\ node' = [node EXCEPT ![c].id = Len(owner')]
     \/ /\ node[c].id # 0 /\ RemoveSubscriptionClient(node[c].id)
        /\ node' = [node EXCEPT ![c].id = 0, ![c].done = TRUE]

WebTypedLazyImporter(c) ==
  /\ role[c] = "typedLazy"
  /\ \/ node[c].id = 0 /\ ~node[c].done /\ Adds(c) /\ node' = [node EXCEPT ![c].id = Len(owner')]
     \/ /\ node[c].id # 0 /\ RemoveSubscriptionClient(node[c].id)
        /\ node' = [node EXCEPT ![c].id = 0, ![c].done = TRUE]

\* The id is stored when the call is back; the thread that removes it may not
\* find it yet.
Fetches(c) ==
  \/ /\ c \notin Range(owner) /\ AddSubscriptionClient(c, FALSE)
     /\ node' = [node EXCEPT ![c].ret = Len(owner')]
  \/ /\ node[c].ret # node[c].id
     /\ node' = [node EXCEPT ![c].id = node[c].ret]
     /\ UNCHANGED <<linkVars, subVars, faults, strayed>>
  \/ /\ node[c].due > 0 /\ RemoveSubscriptionClient(node[c].id)
     /\ node' = [node EXCEPT ![c].due = 0]

FetchFirstUpdateAndDisconnect(c) == role[c] = "fetch" /\ Fetches(c)
FetchTypedFirstUpdateAndDisconnect(c) == role[c] = "typedFetch" /\ Fetches(c)

\* A subscriber's callbacks: a fetch takes one update, which has to be whole
\* where it is typed.  A callback that is done takes nothing of a message.
ClientsHear(o) ==
  /\ CallClients(o, {i \in 1..Len(owner) : role[owner[i]] \in Takers},
                 {i \in 1..Len(owner) : node[owner[i]].done})
  /\ node' = [c \in Caller |->
       LET mine == {i \in 1..Len(owner) : owner[i] = c /\ got'[i] # got[i]}
       IN  IF ~node[c].done /\
              \/ role[c] = "fetch" /\ mine # {}
              \/ role[c] = "typedFetch" /\ \E i \in mine : got'[i][Len(got'[i])].whole
           THEN [node[c] EXCEPT !.done = TRUE, !.due = 1] ELSE node[c]]

WebExporter(s) == serves[s] = "exporter" /\ (GetPublisher \/ Publish)
WebTypedExporter(s) == serves[s] = "typedExporter" /\ (GetPublisher \/ Publish)
=============================================================================
