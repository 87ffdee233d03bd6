------------------------------ MODULE RpcNodes ------------------------------
(***************************************************************************)
(* The nodes of <transport>OnOrderFacility.hpp on top of the components: a *)
(* facility that asks until it is stopped, a one-shot call that has another*)
(* thread take its client away when it is answered, one that wants no      *)
(* answer, and the servers' legs and wrappers; and the registrations of    *)
(* MultiTransportRemoteFacility.hpp.  The headers of the transports are    *)
(* copies of one text, and have it twice, for requests with an identity    *)
(* and without one.                                                        *)
(***************************************************************************)
EXTENDS RpcRoles, RedisRpc, RabbitRpc, SocketRpc, GrpcRpc

\* A port has one server: a second one cannot bind to it.
ASSUME ScenarioAssumption ==
  \A x \in Scenario :
    /\ x.kind \in Kind /\ x.role \in [Caller -> Roles] /\ x.single \in BOOLEAN
    /\ x.faults \in 0..MaxFaults /\ x.serving \subseteq Server
    /\ x.kind \in {"socket_rpc", "grpc_interop"} => \A s, t \in x.serving : s = t

RpcNodesInit ==
  /\ \E x \in Scenario :
       /\ kind = x.kind /\ Cast(x) /\ single = x.single
       /\ server = [s \in Server |-> IF s \in x.serving THEN Serving ELSE Down]
       /\ port = IF x.serving = {} THEN NoPort
                 ELSE [known |-> TRUE, started |-> TRUE, build |-> "done"]

\* The callers whose callback was given a content that means nothing.
Garbled ==
  {asker[Head(conn[o].hand).id].by : o \in
     {p \in 1..Len(conn) : conn[p].hand # <<>> /\ conn'[p].hand = <<>> /\ faults' # faults}}

\* deregisterFacility lets the sender go when the client has been removed.
RemoteForgets(c) ==
  /\ role[c] = "remote" /\ user[c].at = "ready" /\ user[c].left /\ lock # c
  /\ user' = [user EXCEPT ![c].at = "out", ![c].o = 0]
  /\ UNCHANGED <<kind, conn, cur, lock, evicted, asker, heard, server, queue, lost, faults,
                 undefVars, grpcVars, roleVars>>

--------------------------------------------------------------------------
(* Redis. *)

RedisFacility(c) ==
  /\ role[c] = "facility" /\ UNCHANGED roleVars
  /\ \/ Starts(c) /\ RedisRpcClientConnection(c)
     \/ RedisSendRequest(c)
     \/ RedisRemoveRpcClient(c)

RedisFacilityWithIdentity(c) ==
  /\ role[c] = "facility" /\ UNCHANGED roleVars
  /\ \/ Starts(c) /\ RedisRpcClientConnection(c)
     \/ RedisSendRequest(c)
     \/ RedisRemoveRpcClient(c)

RedisTypedFacility(c) == IF signed THEN RedisFacilityWithIdentity(c) ELSE RedisFacility(c)

\* typedOneShotRemoteCall with autoDisconnect.
RedisOneShotRemoteCall(c) ==
  /\ role[c] = "oneshot"
  /\ \/ /\ UNCHANGED roleVars
        /\ (Starts(c) /\ RedisRpcClientConnection(c)) \/ (AsksOnce(c) /\ RedisSendRequest(c))
     \/ Reaps(c) /\ RedisRemoveRpcClient(c) /\ UNCHANGED <<role, signed, serves>>

RedisOneShotRemoteCallWithIdentity(c) ==
  /\ role[c] = "oneshot"
  /\ \/ /\ UNCHANGED roleVars
        /\ (Starts(c) /\ RedisRpcClientConnection(c)) \/ (AsksOnce(c) /\ RedisSendRequest(c))
     \/ Reaps(c) /\ RedisRemoveRpcClient(c) /\ UNCHANGED <<role, signed, serves>>

RedisOneShotRemoteCallNoReply(c) ==
  /\ role[c] = "noreply" /\ UNCHANGED roleVars
  /\ \/ Starts(c) /\ RedisRpcClientConnection(c)
     \/ AsksOnce(c) /\ RedisSendRequest(c)
     \/ Asked(c) /\ user[c].at = "ready" /\ ~user[c].left /\ RedisRemoveRpcClient(c)

RedisOneShotRemoteCallNoReplyWithIdentity(c) ==
  /\ role[c] = "noreply" /\ UNCHANGED roleVars
  /\ \/ Starts(c) /\ RedisRpcClientConnection(c)
     \/ AsksOnce(c) /\ RedisSendRequest(c)
     \/ Asked(c) /\ user[c].at = "ready" /\ ~user[c].left /\ RedisRemoveRpcClient(c)

RedisOneShotCall(c) ==
  IF signed THEN RedisOneShotRemoteCallWithIdentity(c) ELSE RedisOneShotRemoteCall(c)
RedisOneShotCallNoReply(c) ==
  IF signed THEN RedisOneShotRemoteCallNoReplyWithIdentity(c)
  ELSE RedisOneShotRemoteCallNoReply(c)

RedisRegisterFacility(c) ==
  /\ role[c] = "remote" /\ UNCHANGED roleVars
  /\ (Starts(c) /\ RedisRpcClientConnection(c)) \/ RedisSendRequest(c)

RedisDeregisterFacility(c) ==
  /\ role[c] = "remote" /\ ~user[c].left /\ UNCHANGED roleVars
  /\ RedisRemoveRpcClient(c)

\* IncomingLegOnly, and IncomingAndOutgoingLegs with its replierPtr_.
RedisIncomingLeg(s) == serves[s] = "silent" /\ (RedisRpcServer(s) \/ RedisRpcServerRun(s))
RedisLegs(s) ==
  serves[s] = "replying" /\ (RedisRpcServer(s) \/ (Redis /\ ReplierStored(s)) \/ RedisRpcServerRun(s))

\* A facility that is wrapped replies, or is not asked to.
RedisWrapped(s) ==
  \/ \E i \in Id : Redis /\ serves[s] = "silent" /\ KeepsSilent(s, i)
  \/ \E i \in Id, final \in BOOLEAN : serves[s] = "replying" /\ RedisSendReply(s, i, final)

RedisWrappedWithIdentity(s) ==
  \/ \E i \in Id : Redis /\ serves[s] = "silent" /\ KeepsSilent(s, i)
  \/ \E i \in Id, final \in BOOLEAN : serves[s] = "replying" /\ RedisSendReply(s, i, final)

RedisWrap(s) == IF signed THEN RedisWrappedWithIdentity(s) ELSE RedisWrapped(s)

--------------------------------------------------------------------------
(* RabbitMQ. *)

RabbitMQFacility(c) ==
  /\ role[c] = "facility" /\ UNCHANGED roleVars
  /\ \/ Starts(c) /\ RabbitMQRpcClientConnection(c)
     \/ RabbitMQSendRequest(c)
     \/ RabbitMQRemoveRpcClient(c)

RabbitMQFacilityWithIdentity(c) ==
  /\ role[c] = "facility" /\ UNCHANGED roleVars
  /\ \/ Starts(c) /\ RabbitMQRpcClientConnection(c)
     \/ RabbitMQSendRequest(c)
     \/ RabbitMQRemoveRpcClient(c)

RabbitMQTypedFacility(c) == IF signed THEN RabbitMQFacilityWithIdentity(c) ELSE RabbitMQFacility(c)

\* typedOneShotRemoteCall with autoDisconnect.
RabbitMQOneShotRemoteCall(c) ==
  /\ role[c] = "oneshot"
  /\ \/ /\ UNCHANGED roleVars
        /\ (Starts(c) /\ RabbitMQRpcClientConnection(c)) \/ (AsksOnce(c) /\ RabbitMQSendRequest(c))
     \/ Reaps(c) /\ RabbitMQRemoveRpcClient(c) /\ UNCHANGED <<role, signed, serves>>

RabbitMQOneShotRemoteCallWithIdentity(c) ==
  /\ role[c] = "oneshot"
  /\ \/ /\ UNCHANGED roleVars
        /\ (Starts(c) /\ RabbitMQRpcClientConnection(c)) \/ (AsksOnce(c) /\ RabbitMQSendRequest(c))
     \/ Reaps(c) /\ RabbitMQRemoveRpcClient(c) /\ UNCHANGED <<role, signed, serves>>

RabbitMQOneShotRemoteCallNoReply(c) ==
  /\ role[c] = "noreply" /\ UNCHANGED roleVars
  /\ \/ Starts(c) /\ RabbitMQRpcClientConnection(c)
     \/ AsksOnce(c) /\ RabbitMQSendRequest(c)
     \/ Asked(c) /\ user[c].at = "ready" /\ ~user[c].left /\ RabbitMQRemoveRpcClient(c)

RabbitMQOneShotRemoteCallNoReplyWithIdentity(c) ==
  /\ role[c] = "noreply" /\ UNCHANGED roleVars
  /\ \/ Starts(c) /\ RabbitMQRpcClientConnection(c)
     \/ AsksOnce(c) /\ RabbitMQSendRequest(c)
     \/ Asked(c) /\ user[c].at = "ready" /\ ~user[c].left /\ RabbitMQRemoveRpcClient(c)

RabbitMQOneShotCall(c) ==
  IF signed THEN RabbitMQOneShotRemoteCallWithIdentity(c) ELSE RabbitMQOneShotRemoteCall(c)
RabbitMQOneShotCallNoReply(c) ==
  IF signed THEN RabbitMQOneShotRemoteCallNoReplyWithIdentity(c)
  ELSE RabbitMQOneShotRemoteCallNoReply(c)

RabbitMQRegisterFacility(c) ==
  /\ role[c] = "remote" /\ UNCHANGED roleVars
  /\ (Starts(c) /\ RabbitMQRpcClientConnection(c)) \/ RabbitMQSendRequest(c)

RabbitMQDeregisterFacility(c) ==
  /\ role[c] = "remote" /\ ~user[c].left /\ UNCHANGED roleVars
  /\ RabbitMQRemoveRpcClient(c)

\* IncomingLegOnly, and IncomingAndOutgoingLegs with its replierPtr_.
RabbitMQIncomingLeg(s) == serves[s] = "silent" /\ (RabbitMQRpcServer(s) \/ RabbitMQRpcServerRun(s))
RabbitMQLegs(s) ==
  serves[s] = "replying" /\ (RabbitMQRpcServer(s) \/ (RabbitMQ /\ ReplierStored(s)) \/ RabbitMQRpcServerRun(s))

\* A facility that is wrapped replies, or is not asked to.
RabbitMQWrapped(s) ==
  \/ \E i \in Id : RabbitMQ /\ serves[s] = "silent" /\ KeepsSilent(s, i)
  \/ \E i \in Id, final \in BOOLEAN : serves[s] = "replying" /\ RabbitMQSendReply(s, i, final)

RabbitMQWrappedWithIdentity(s) ==
  \/ \E i \in Id : RabbitMQ /\ serves[s] = "silent" /\ KeepsSilent(s, i)
  \/ \E i \in Id, final \in BOOLEAN : serves[s] = "replying" /\ RabbitMQSendReply(s, i, final)

RabbitMQWrap(s) == IF signed THEN RabbitMQWrappedWithIdentity(s) ELSE RabbitMQWrapped(s)

--------------------------------------------------------------------------
(* Socket RPC. *)

SocketFacility(c) ==
  /\ role[c] = "facility" /\ UNCHANGED roleVars
  /\ \/ Starts(c) /\ SocketRpcClient(c)
     \/ SocketSendRequest(c)
     \/ SocketRemoveRpcClient(c)

SocketFacilityWithIdentity(c) ==
  /\ role[c] = "facility" /\ UNCHANGED roleVars
  /\ \/ Starts(c) /\ SocketRpcClient(c)
     \/ SocketSendRequest(c)
     \/ SocketRemoveRpcClient(c)

SocketTypedFacility(c) == IF signed THEN SocketFacilityWithIdentity(c) ELSE SocketFacility(c)

\* typedOneShotRemoteCall with autoDisconnect.
SocketOneShotRemoteCall(c) ==
  /\ role[c] = "oneshot"
  /\ \/ /\ UNCHANGED roleVars
        /\ (Starts(c) /\ SocketRpcClient(c)) \/ (AsksOnce(c) /\ SocketSendRequest(c))
     \/ Reaps(c) /\ SocketRemoveRpcClient(c) /\ UNCHANGED <<role, signed, serves>>

SocketOneShotRemoteCallWithIdentity(c) ==
  /\ role[c] = "oneshot"
  /\ \/ /\ UNCHANGED roleVars
        /\ (Starts(c) /\ SocketRpcClient(c)) \/ (AsksOnce(c) /\ SocketSendRequest(c))
     \/ Reaps(c) /\ SocketRemoveRpcClient(c) /\ UNCHANGED <<role, signed, serves>>

SocketOneShotRemoteCallNoReply(c) ==
  /\ role[c] = "noreply" /\ UNCHANGED roleVars
  /\ \/ Starts(c) /\ SocketRpcClient(c)
     \/ AsksOnce(c) /\ SocketSendRequest(c)
     \/ Asked(c) /\ user[c].at = "ready" /\ ~user[c].left /\ SocketRemoveRpcClient(c)

SocketOneShotRemoteCallNoReplyWithIdentity(c) ==
  /\ role[c] = "noreply" /\ UNCHANGED roleVars
  /\ \/ Starts(c) /\ SocketRpcClient(c)
     \/ AsksOnce(c) /\ SocketSendRequest(c)
     \/ Asked(c) /\ user[c].at = "ready" /\ ~user[c].left /\ SocketRemoveRpcClient(c)

SocketOneShotCall(c) ==
  IF signed THEN SocketOneShotRemoteCallWithIdentity(c) ELSE SocketOneShotRemoteCall(c)
SocketOneShotCallNoReply(c) ==
  IF signed THEN SocketOneShotRemoteCallNoReplyWithIdentity(c)
  ELSE SocketOneShotRemoteCallNoReply(c)

SocketRegisterFacility(c) ==
  /\ role[c] = "remote" /\ UNCHANGED roleVars
  /\ (Starts(c) /\ SocketRpcClient(c)) \/ SocketSendRequest(c)

SocketDeregisterFacility(c) ==
  /\ role[c] = "remote" /\ ~user[c].left /\ UNCHANGED roleVars
  /\ SocketRemoveRpcClient(c)

\* IncomingLegOnly, and IncomingAndOutgoingLegs with its replierPtr_.
SocketIncomingLeg(s) == serves[s] = "silent" /\ (SocketRpcServer(s) \/ SocketRegisterConnection(s))
SocketLegs(s) ==
  serves[s] = "replying" /\ (SocketRpcServer(s) \/ (Socket /\ ReplierStored(s)) \/ SocketRegisterConnection(s))

\* A facility that is wrapped replies, or is not asked to.
SocketWrapped(s) ==
  \/ \E i \in Id : Socket /\ serves[s] = "silent" /\ KeepsSilent(s, i)
  \/ \E i \in Id, final \in BOOLEAN : serves[s] = "replying" /\ SocketSendReply(s, i, final)

SocketWrappedWithIdentity(s) ==
  \/ \E i \in Id : Socket /\ serves[s] = "silent" /\ KeepsSilent(s, i)
  \/ \E i \in Id, final \in BOOLEAN : serves[s] = "replying" /\ SocketSendReply(s, i, final)

SocketWrap(s) == IF signed THEN SocketWrappedWithIdentity(s) ELSE SocketWrapped(s)

--------------------------------------------------------------------------
(* gRPC.                                                                   *)

GrpcRegisterFacility(c) ==
  /\ role[c] \in {"remote", "facility"} /\ UNCHANGED <<port, single, roleVars>>
  /\ (Starts(c) /\ GrpcSetRpcClient(c)) \/ GrpcSendRequest(c)

GrpcDeregisterFacility(c) ==
  /\ role[c] = "remote" /\ ~user[c].left /\ UNCHANGED <<port, single, roleVars>>
  /\ GrpcRemoveRpcClient(c)

\* GrpcClientFacility.hpp: the facility, and typedOneShotRemoteCall.
GrpcTypedClientFacility(c) ==
  /\ \/ role[c] = "native"
     \/ role[c] = "sync" /\ ~Asked(c)
  /\ GrpcClientFacility(c)
  /\ UNCHANGED <<port, single, roleVars>>

\* The thread of call i, by what made the call.
GrpcClientThread(i) ==
  /\ i \in 1..Len(asker)
  /\ \/ role[asker[i].by] \in {"remote", "facility"} /\ (GrpcOnReadDone(i) \/ GrpcOnDone(i))
     \/ role[asker[i].by] = "native" /\ GrpcOneCallReactor(i)
     \/ role[asker[i].by] = "sync" /\ GrpcRunSyncClient(i)
     \/ GrpcCallFails(i)

\* GrpcServerFacility.hpp has its service twice as well; the identity is that
\* of the channel, and refuses nothing.
GrpcWrapped(s) ==
  \/ GrpcServiceFunc(s) /\ UNCHANGED port
  \/ \E i \in Id : /\ \E final \in BOOLEAN : GrpcHandleResp(s, i, final)
                   /\ UNCHANGED port
  \/ \E i \in Id : GrpcEndHandling(s, i) /\ UNCHANGED port

GrpcWrappedWithStringIdentity(s) ==
  \/ GrpcServiceFunc(s) /\ UNCHANGED port
  \/ \E i \in Id : /\ \E final \in BOOLEAN : GrpcHandleResp(s, i, final)
                   /\ UNCHANGED port
  \/ \E i \in Id : GrpcEndHandling(s, i) /\ UNCHANGED port

GrpcWrap(s) == IF signed THEN GrpcWrappedWithStringIdentity(s) ELSE GrpcWrapped(s)
=============================================================================
