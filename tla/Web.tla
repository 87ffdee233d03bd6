-------------------------------- MODULE Web --------------------------------
(***************************************************************************)
(* A locator of the web socket component: the remote calls of one client   *)
(* process and the server of the path, or the listeners of one process and *)
(* the publisher of the path.                                              *)
(***************************************************************************)
EXTENDS WebNodes

vars == <<rpcVars, linkVars, webRpcVars, webBroadcastVars, roleVars, node>>

WebTypeOK == LinkTypeOK /\ WebRpcTypeOK /\ WebBroadcastTypeOK /\ WebNodesTypeOK

Init ==
  /\ RpcInit /\ LinkInit /\ WebRpcInit /\ WebBroadcastInit
  /\ node = [c \in Caller |-> NoNode]
  /\ \E x \in Scenario :
       /\ kind = x.kind /\ Cast(x) /\ secure = x.secure
       /\ manner = x.manner /\ filter = x.filter
       /\ site = IF x.there THEN There ELSE Off
       /\ server = [s \in Server |-> IF x.there THEN Serving ELSE Down]

\* Nothing is said of what follows a change of the clients while they are gone
\* through, or a second chain of handlers on one subscriber.
Defined == ~torn /\ ~doubled

\* What a step of remote calls, or one of broadcasts, leaves alone.
Calls      == UNCHANGED <<webBroadcastVars, node>>
Broadcasts == UNCHANGED <<kind, clientVars, asker, heard, server, queue, lost, misused, raced,
                          belated, webRpcVars, shareVars, roleVars>>

--------------------------------------------------------------------------
(* The client's process.                                                   *)

\* The rest of a call into the component.
CallStep(c) ==
  \/ WebAddRpcClient(c) \/ WebBuffer(c) \/ WebDoSendRequest(c) \/ WebWrite(c)
  \/ WebWriteFailed(c)

CallNext(c) == CallStep(c) /\ Calls /\ UNCHANGED roleVars

ClientStep(c) ==
  \/ WebTypedFacility(c) \/ WebOneShotCall(c) \/ WebOneShotCallNoReply(c)
  \/ WebRegisterFacility(c) \/ WebDeregisterFacility(c)

ListenerStep(c) ==
  \/ WebImporter(c) \/ WebTypedImporter(c) \/ WebLazyImporter(c) \/ WebTypedLazyImporter(c)
  \/ FetchFirstUpdateAndDisconnect(c) \/ FetchTypedFirstUpdateAndDisconnect(c)

NodeNext(c) ==
  \/ ClientStep(c) /\ Calls
  \/ Defined /\ ListenerStep(c) /\ Broadcasts

ClientChain(o) ==
  \/ RpcClientOnResolve(o) \/ RpcClientOnConnect(o) \/ RpcClientOnSSLHandshake(o)
  \/ RpcClientOnWebSocketHandshake(o) \/ RpcClientOnRead(o) \/ RpcClientFails(o)

SubscriberChain(o) ==
  \/ SubscriberOnResolve(o) \/ SubscriberOnConnect(o) \/ SubscriberOnSSLHandshake(o)
  \/ SubscriberOnWebSocketHandshake(o) \/ SubscriberOnRead(o) \/ SubscriberMoves(o)

ChainNext(o) ==
  \/ /\ ClientChain(o) /\ OneShotHears(WebGarbled) /\ UNCHANGED <<role, signed, serves>>
     /\ Calls
  \/ Defined /\ SubscriberChain(o) /\ Broadcasts /\ UNCHANGED node
  \/ Defined /\ ClientsHear(o) /\ Broadcasts

--------------------------------------------------------------------------
(* The server's process, and the network.                                  *)

ServerHandlers(k) ==
  \/ RpcServerOnAccept(k) \/ RpcServerOnRun(k) \/ RpcServerOnWsHandshake(k)
  \/ \E s \in Server : RpcServerOnSslHandshake(s, k) \/ RpcServerOnRead(s, k)

PublisherHandlers(k) ==
  \/ PublisherOnAccept(k) \/ PublisherOnRun(k) \/ PublisherOnSslHandshake(k)
  \/ PublisherOnWsHandshake(k) \/ PublisherOnRead(k)

HandlersNext(k) ==
  \/ ServerHandlers(k) /\ Calls /\ UNCHANGED roleVars
  \/ Defined /\ PublisherHandlers(k) /\ Broadcasts /\ UNCHANGED node

ServeStep(s) == WebIncomingLeg(s) \/ WebLegs(s) \/ WebWrap(s)
ExportStep(s) == WebExporter(s) \/ WebTypedExporter(s)

ServeNext(s) ==
  \/ ServeStep(s) /\ Calls /\ UNCHANGED roleVars
  \/ Defined /\ ExportStep(s) /\ Broadcasts /\ UNCHANGED node

FinalizeNext ==
  /\ WebFinalizeEnvironment
  /\ UNCHANGED <<rpcVars, webRpcVars, webBroadcastVars, roleVars, node>>

FailNext ==
  \/ \E k \in 1..Len(sess) : RpcConnectionBreaks(k) /\ Calls /\ UNCHANGED roleVars
  \/ \E s \in Server : RpcServerFails(s) /\ Calls /\ UNCHANGED roleVars
  \/ \E k \in 1..Len(sess) : Defined /\ SubscriptionBreaks(k) /\ Broadcasts /\ UNCHANGED node
  \/ Defined /\ PublisherFails /\ Broadcasts /\ UNCHANGED node

Next ==
  \/ \E c \in Caller : CallNext(c) \/ NodeNext(c)
  \/ \E o \in 1..Len(chain) : ChainNext(o)
  \/ \E k \in 1..Len(sess) : HandlersNext(k)
  \/ \E s \in Server : ServeNext(s)
  \/ FinalizeNext \/ FailNext

\* A call into the component comes to its end, the operating system runs the
\* threads, asio runs the handlers that are due, a server's program sets up
\* what it serves and its facility gives a last reply.  Nobody has to ask, to
\* listen or to stop, and nothing has to fail.
Fairness ==
  /\ \A c \in Caller : WF_vars(CallNext(c))
  /\ \A o \in 1..MaxConn : WF_vars(o \in 1..Len(chain) /\ ChainNext(o))
  /\ \A k \in 1..MaxSess : WF_vars(k \in 1..Len(sess) /\ HandlersNext(k))
  /\ \A s \in Server : WF_vars(ServeNext(s))
  /\ WF_vars(FinalizeNext)

Spec == Init /\ [][Next]_vars /\ Fairness

--------------------------------------------------------------------------
(* Properties.                                                             *)

\* Every id that removeSubscriptionClient would find is among the subscriber's
\* clients, once, and no other, however often the subscriber has been moved to
\* a new object after an error: nobody who listens is forgotten by a
\* reconnection, and nobody who left is brought back by one.
ListenersKeepTheirPlace ==
  /\ ids = Range(sub.clients)
  /\ Len(sub.clients) = Cardinality(ids)

\* A callback is called while its client is there, with publications in their
\* order and each once, over reconnections too; it finds a message whole, or
\* another callback was given it whole and has taken what it moved.
ListenersHearInOrder ==
  [][\A i \in Id : got'[i] # got[i] =>
       LET new == got'[i][Len(got'[i])]
       IN  /\ i \in ids
           /\ \A j \in DOMAIN got[i] : got[i][j].m < new.m
           /\ \/ new.whole
              \/ \E j \in ids \ {i} : got'[j] = Append(got[j], [m |-> new.m, whole |-> TRUE])]_vars

\* A callback hears of the requests of its own client only, never when that has
\* been removed, and nothing after the last reply (onRead and removeClient
\* under clientsMutex_); that a request waited in the buffer changes nothing.
\* A client whose object has left the map without it cannot be removed.
WebRepliesGoHome ==
  \A i \in 1..Len(asker) : \A k \in DOMAIN heard[i] :
    /\ heard[i][k].final => k = Len(heard[i])
    /\ heard[i][k].late => raced
    /\ heard[i][k].by = asker[i].by

\* The two tables of a client object and of the server are each other's
\* inverse.  A client's name nobody who is gone, unless the request was written
\* when its client had been removed; the server's name no handler that was
\* removed, and what the facility works on is in them or is lost.
WebTablesAgree ==
  /\ \A o \in 1..Len(conn) :
       /\ conn[o].index = {<<p[2], p[1]>> : p \in conn[o].table}
       /\ \A p \in conn[o].table : \/ belated \/ raced \/ asker[p[1]].by \in evicted
                                   \/ \E q \in conn[o].clients : q[1] = p[2]
  /\ \A s \in Server :
       /\ server[s].index = {<<p[2], p[1]>> : p \in server[s].table}
       /\ \A p \in server[s].table : sess[p[2]].peer # "gone"
       /\ server[s].work \subseteq {p[1] : p \in server[s].table} \cup lost

\* A request is answered for the last time, unless a message of it was lost,
\* it came to the buffer when that had been emptied, its client was removed in
\* the meantime, the server's thread holds a mutex that it waits for, or the
\* server was set while finalizeEnvironment was between the ports and started_.
WebRequestIsAnswered(i) ==
  \/ \E k \in DOMAIN heard[i] : heard[i][k].final
  \/ i \in lost \cup stranded \/ ended \/ site.stuck \/ Overlooked
  \/ i <= Len(asker) /\ (\/ asker[i].by \in evicted
                         \/ Late(asker[i].o, asker[i].num, asker[i].by))

\* The subscriber reads from a connection on which the publisher will write.
Hearing ==
  /\ chain # <<>> /\ chain[1].at = "reading"
  /\ LET x == sess[chain[1].s] IN x.peer = "good" /\ ~x.cut /\ x.path /\ x.allowed

\* Who listens comes to hear, again after each failure, unless the publisher's
\* protocol waits for initial data that the first listener had none of, or the
\* publisher was made between the ports and started_, and never runs.
WebListenerHears(i) ==
  \/ i \notin ids \/ Hearing \/ ended \/ ~Defined \/ deaf \/ site.stuck \/ Overlooked
  \/ manner.guarded /\ ~sub.initial

\* Nobody who asks or listens waits for ever, but for those whom the code
\* forgets: the cases above.
EveryoneIsServed ==
  /\ \A i \in Id : i <= Len(asker) ~> WebRequestIsAnswered(i)
  /\ \A i \in Id : i \in ids ~> WebListenerHears(i)
=============================================================================
