----------------------------- MODULE RabbitRpc -----------------------------
(***************************************************************************)
(* The remote calls of RabbitMQComponent.cpp.  The servers compete for one *)
(* queue of requests, in which a request stays for five seconds; replies   *)
(* go to a queue of the connection.  A connection is freed with its thread *)
(* joined.                                                                 *)
(***************************************************************************)
EXTENDS RpcConnections

RabbitMQRpcClientConnection(c) == RabbitMQ /\ FindOrConnect(c)

RabbitMQAddRpcClient(c) == RabbitMQ /\ TakeNumber(c)

RabbitMQSendRequest(c) ==
  \/ RabbitMQ /\ EnterRequest(c)
  \/ RabbitMQ /\ user[c].at = "asking" /\ ~conn[user[c].o].alive /\ Misuse(c)
  \/ /\ RabbitMQ /\ Sent(c)
     /\ queue' = Append(queue, <<user[c].id, user[c].o>>)
     /\ UNCHANGED <<server, lost, faults>>

\* props.expiration: the broker throws a request away that nobody took.
RabbitMQRequestExpires ==
  /\ RabbitMQ /\ queue # <<>>
  /\ queue' = Tail(queue)
  /\ lost' = lost \cup {Head(queue)[1]}
  /\ UNCHANGED <<kind, clientVars, asker, heard, server, faults, undefVars>>

RabbitMQRemoveRpcClient(c) == RabbitMQ /\ LeaveConnection(c)

\* Fault: the thread is not joined.
RabbitMQFreeRpcClient_NoJoin(c) == RabbitMQ /\ FreeConnection(c)

\* The destructor joins the thread.
RabbitMQFreeRpcClient(c) == RabbitMQ /\ lock = c /\ conn[cur].gone /\ FreeConnection(c)

RabbitMQRpcClientRun(o) == RabbitMQ /\ (TakeReply(o) \/ DispatchReply(o) \/ ReceiverEnds(o))

\* The connection breaks: the thread goes on asking, and hears no more.
RabbitMQRpcClientCut(o) ==
  /\ RabbitMQ /\ conn[o].alive /\ conn[o].link = "up" /\ Fault
  /\ conn' = [conn EXCEPT ![o].link = "broken", ![o].inbox = <<>>]
  /\ lost' = lost \cup Awaited(o)
  /\ UNCHANGED <<kind, cur, lock, user, evicted, asker, heard, server, queue, undefVars>>

\* The request is acknowledged when it is taken, before anything is done.
RabbitMQRpcServerRun(s) ==
  /\ RabbitMQ /\ server[s].up /\ queue # <<>>
  /\ queue' = Tail(queue)
  /\ Accepted(s, server[s], Head(queue))
  /\ UNCHANGED <<kind, clientVars, asker, heard, undefVars>>

RabbitMQRpcServer(s) == RabbitMQ /\ ServerStarts(s)

RabbitMQSendReply(s, i, final) == RabbitMQ /\ SendReply(s, i, final)
=============================================================================
