-------------------------------- MODULE Rpc --------------------------------
(***************************************************************************)
(* A locator with the clients of one process and the servers that may      *)
(* serve it, on one of four transports.                                    *)
(***************************************************************************)
EXTENDS RpcNodes

vars == <<rpcVars, grpcVars, roleVars>>

TypeOK == RpcTypeOK /\ GrpcTypeOK /\ RpcRolesTypeOK

Init == RpcInit /\ GrpcInit /\ RpcNodesInit

\* Nothing is said of what follows a use of freed memory.
Defined == ~misused /\ ~strayed

\* The rest of a call into the component.
CallStep(c) ==
  \/ RedisAddRpcClient(c) \/ RedisFreeRpcClient(c)
  \/ RabbitMQAddRpcClient(c) \/ RabbitMQFreeRpcClient(c)

NodeStep(c) ==
  \/ RedisTypedFacility(c) \/ RedisOneShotCall(c) \/ RedisOneShotCallNoReply(c)
  \/ RedisRegisterFacility(c) \/ RedisDeregisterFacility(c)
  \/ RabbitMQTypedFacility(c) \/ RabbitMQOneShotCall(c) \/ RabbitMQOneShotCallNoReply(c)
  \/ RabbitMQRegisterFacility(c) \/ RabbitMQDeregisterFacility(c)
  \/ SocketTypedFacility(c) \/ SocketOneShotCall(c) \/ SocketOneShotCallNoReply(c)
  \/ SocketRegisterFacility(c) \/ SocketDeregisterFacility(c)

GrpcNodeStep(c) ==
  GrpcRegisterFacility(c) \/ GrpcDeregisterFacility(c) \/ GrpcTypedClientFacility(c)

ThreadStep(o) ==
  \/ RedisRpcClientRun(o) \/ RabbitMQRpcClientRun(o)
  \/ SocketHandleConnect(o) \/ SocketHandleRead(o) \/ SocketPendingHandler(o)

CutStep(o) == RedisRpcClientCut(o) \/ RabbitMQRpcClientCut(o) \/ SocketBreaks(o)

ServeStep(s) ==
  \/ RedisIncomingLeg(s) \/ RedisLegs(s) \/ RedisWrap(s)
  \/ RabbitMQIncomingLeg(s) \/ RabbitMQLegs(s) \/ RabbitMQWrap(s)
  \/ SocketIncomingLeg(s) \/ SocketLegs(s) \/ SocketWrap(s)
  \/ \E o \in 1..Len(conn) : SocketRemoveConnection(s, o)

GrpcServeStep(s) ==
  (serves[s] = "replying" /\ GrpcRegisterService(s)) \/ GrpcServerDies(s) \/ GrpcWrap(s)

CallNext(c) == Defined /\ CallStep(c) /\ UNCHANGED <<grpcVars, roleVars>>
NodeNext(c) ==
  \/ Defined /\ NodeStep(c) /\ UNCHANGED grpcVars
  \/ Defined /\ GrpcNodeStep(c)
  \/ Defined /\ RemoteForgets(c)
ThreadNext(o) ==
  Defined /\ ThreadStep(o) /\ OneShotHears(Garbled) /\ UNCHANGED <<grpcVars, role, signed, serves>>
CutNext(o) == Defined /\ CutStep(o) /\ UNCHANGED <<grpcVars, roleVars>>
BrokerNext == Defined /\ RabbitMQRequestExpires /\ UNCHANGED <<grpcVars, roleVars>>
ServeNext(s) ==
  \/ Defined /\ ServeStep(s) /\ UNCHANGED <<grpcVars, roleVars>>
  \/ Defined /\ GrpcServeStep(s) /\ UNCHANGED <<single, roleVars>>
DieNext(s) ==
  /\ Defined
  /\ ((Redis \/ RabbitMQ) /\ ServerDies(s)) \/ SocketServerDies(s)
  /\ UNCHANGED <<grpcVars, roleVars>>
CallbackNext(i) ==
  /\ Defined
  /\ \/ GrpcClientThread(i) /\ UNCHANGED <<port, single>>
     \/ GrpcOnWriteDone(i) /\ UNCHANGED <<port, single>>
  /\ UNCHANGED roleVars
PortNext ==
  Defined /\ (GrpcFinalizeEnvironment \/ GrpcBuildAndStart) /\ UNCHANGED <<single, roleVars>>

Next ==
  \/ \E c \in Caller : CallNext(c) \/ NodeNext(c)
  \/ \E o \in 1..Len(conn) : ThreadNext(o) \/ CutNext(o)
  \/ \E s \in Server : ServeNext(s) \/ DieNext(s)
  \/ \E i \in Id : CallbackNext(i)
  \/ BrokerNext \/ PortNext

\* The operating system and gRPC's library run their threads, a call into the
\* component comes to its end, a facility gives its last reply at last, and
\* the broker throws requests away in time.  Nobody has to ask or to stop.
Fairness ==
  /\ \A c \in Caller : /\ WF_vars(CallNext(c))
                       /\ WF_vars(user[c].at = "asking" /\ NodeNext(c))
  /\ \A o \in 1..MaxConn : WF_vars(o \in 1..Len(conn) /\ ThreadNext(o))
  /\ \A s \in Server : WF_vars(server[s].up /\ ServeNext(s))
  /\ \A i \in Id : WF_vars(CallbackNext(i))
  /\ WF_vars(BrokerNext)

Spec == Init /\ [][Next]_vars /\ Fairness

--------------------------------------------------------------------------
(* Properties.                                                             *)

\* A callback hears of the requests of its own client only, never when that
\* has been removed, and after the last reply of a request nothing more, even
\* where several servers answer (DispatchReply under clientsMutex_).  A gRPC
\* callback may come late, but once: stopped_ is read before it is called.
RepliesGoHome ==
  \A i \in 1..Len(asker) :
    LET calls == heard[i]
        late == {k \in DOMAIN calls : calls[k].late}
    IN  /\ \A k \in DOMAIN calls : calls[k].final => k = Len(calls)
        /\ ~Grpc => late = {} /\ \A k \in DOMAIN calls : calls[k].by = asker[i].by
        /\ Grpc  => Cardinality(late) <= 1

\* idToClientMap_ and clientToIDMap_ are each other's inverse, and name no
\* client that is gone, unless it asked when it was being removed or had been,
\* or another's removal took it.
ClientTablesAgree ==
  \A o \in 1..Len(conn) : conn[o].alive =>
    /\ conn[o].index = {<<p[2], p[1]>> : p \in conn[o].table}
    /\ \A p \in conn[o].table :
         belated \/ asker[p[1]].by \in evicted \/ \E q \in conn[o].clients : q[1] = p[2]

\* What the server's facility works on has its entry until the last reply, in
\* both tables of the socket's server, or is a call whose reactor waits for
\* it; and a reactor of gRPC never has two writes under way.
ServerTablesAgree ==
  /\ \A s \in Server :
       /\ Redis \/ RabbitMQ \/ Grpc =>
            server[s].work \subseteq {p[1] : p \in server[s].table}
       /\ Socket => server[s].index = {<<p[2], p[1]>> : p \in server[s].table}
  /\ \A i \in Id : reactor[i].writes <= 1

\* Both ends of a connection agree with themselves on whose a request is.
TablesAgree == ClientTablesAgree /\ ServerTablesAgree

\* A freed connection is used by a caller only where it was freed while the
\* caller was about to be added, where another's removal took its client, or
\* where it asks when removed; by a thread, only where threads are not joined
\* (Redis) or handlers not awaited (socket RPC).
FreedIsNotUsed ==
  /\ misused => raced \/ belated \/ evicted # {}
  /\ strayed => Redis \/ Socket

Answered(i) ==
  \/ \E k \in DOMAIN heard[i] : heard[i][k].final
  \/ reactor[i].at = "over"

\* A request is answered for the last time, unless a message of it was lost,
\* dropped or refused on its way, its client was removed in the meantime, or
\* its connection was freed with the client still coming.
RequestsAreAnswered ==
  \A i \in Id :
    i <= Len(asker) ~>
      \/ Answered(i) \/ i \in lost \/ raced \/ ~Defined
      \/ i <= Len(asker) /\ (\/ asker[i].by \in evicted
                             \/ Late(asker[i].o, asker[i].num, asker[i].by))
=============================================================================
