------------------------------ MODULE RedisRpc ------------------------------
(***************************************************************************)
(* The remote calls of RedisComponent.cpp.  A request is published on the  *)
(* topic of the locator, where every server gets it and answers on the     *)
(* topic of the connection, so that a request may have several last        *)
(* replies.  The threads are detached: nobody waits for them when their    *)
(* connection is freed.                                                    *)
(***************************************************************************)
EXTENDS RpcConnections

RedisRpcClientConnection(c) == Redis /\ FindOrConnect(c)

RedisAddRpcClient(c) == Redis /\ TakeNumber(c)

\* Fault: the id is entered when the request has been published already.
RedisSendRequest_EntersLate(c) ==
  LET o == user[c].o
      i == Len(asker) + 1
      n == user[c].num
  IN  \/ /\ Redis /\ user[c].at = "ready" /\ Len(asker) < MaxId /\ conn[o].alive
         /\ asker' = Append(asker, AsCaller(c))
         /\ server' = [s \in Server |-> IF server[s].up
              THEN [server[s] EXCEPT !.inbox = Append(@, <<i, o>>)] ELSE server[s]]
         /\ lost' = IF \E s \in Server : server[s].up THEN lost ELSE lost \cup {i}
         /\ user' = [user EXCEPT ![c].at = "asking", ![c].id = i]
         /\ UNCHANGED <<kind, conn, cur, lock, evicted, heard, queue, faults, undefVars>>
      \/ /\ Redis /\ user[c].at = "asking" /\ conn[o].alive
         /\ conn' = [conn EXCEPT ![o].table = @ \cup {<<user[c].id, n>>},
                                 ![o].index = @ \cup {<<n, user[c].id>>}]
         /\ user' = [user EXCEPT ![c].at = "ready"]
         /\ UNCHANGED <<kind, cur, lock, evicted, asker, heard, server, queue, lost,
                        faults, undefVars>>

\* sendRequest: the id first, then the message to whichever servers listen.
RedisSendRequest(c) ==
  \/ Redis /\ EnterRequest(c)
  \/ Redis /\ user[c].at = "asking" /\ ~conn[user[c].o].alive /\ Misuse(c)
  \/ /\ Redis /\ Sent(c)
     /\ \/ /\ server' = [s \in Server |->
                IF server[s].up
                THEN [server[s] EXCEPT !.inbox = Append(@, <<user[c].id, user[c].o>>)]
                ELSE server[s]]
           /\ lost' = IF \E s \in Server : server[s].up
                      THEN lost ELSE lost \cup {user[c].id}
           /\ UNCHANGED faults
        \/ /\ Fault
           /\ lost' = lost \cup {user[c].id}
           /\ UNCHANGED server
     /\ UNCHANGED queue

RedisRemoveRpcClient(c) == Redis /\ LeaveConnection(c)

\* unsubscribe and the destructor find nothing to join.
RedisFreeRpcClient(c) == Redis /\ FreeConnection(c)

RedisRpcClientRun(o) == Redis /\ (TakeReply(o) \/ DispatchReply(o) \/ ReceiverEnds(o))

\* The server of Redis hangs up and the thread ends; the connection stays.
RedisRpcClientCut(o) ==
  /\ Redis /\ conn[o].alive /\ ~conn[o].gone /\ conn[o].hand = <<>> /\ Fault
  /\ conn' = [conn EXCEPT ![o].gone = TRUE, ![o].inbox = <<>>]
  /\ lost' = lost \cup Awaited(o)
  /\ UNCHANGED <<kind, cur, lock, user, evicted, asker, heard, server, queue, undefVars>>

RedisRpcServerRun(s) ==
  /\ Redis /\ server[s].up /\ server[s].inbox # <<>>
  /\ Accepted(s, [server[s] EXCEPT !.inbox = Tail(@)], Head(server[s].inbox))
  /\ UNCHANGED <<kind, clientVars, asker, heard, queue, undefVars>>

RedisRpcServer(s) == Redis /\ ServerStarts(s)

RedisSendReply(s, i, final) == Redis /\ SendReply(s, i, final)
=============================================================================
