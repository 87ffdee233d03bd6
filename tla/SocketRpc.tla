----------------------------- MODULE SocketRpc -----------------------------
(***************************************************************************)
(* SocketRPCComponent.cpp.  A locator has one client in a process and one  *)
(* server; they talk over a TCP connection that one thread on either side  *)
(* reads.  A client drops the requests it is given while not connected,    *)
(* and a deadline_timer that is a local variable ends with its function,   *)
(* so that a client whose connection failed or broke never tries again.    *)
(* The server finds the connection of a reply in two tables.               *)
(***************************************************************************)
EXTENDS RpcConnections

\* createRpcClient under mutex_: a second client of a locator is refused.
SocketRpcClient(c) ==
  /\ Socket /\ user[c].at = "out" /\ lock = Nobody
  /\ \/ /\ cur # 0
        /\ user' = [user EXCEPT ![c].at = "refused"]
        /\ UNCHANGED <<conn, cur>>
     \/ /\ cur = 0 /\ Len(conn) < MaxConn
        /\ conn' = Append(conn, [NewConnection("connecting") EXCEPT
                                   !.counter = 1, !.clients = {<<1, c>>}])
        /\ cur' = Len(conn) + 1
        /\ user' = [user EXCEPT ![c].at = "ready", ![c].o = cur', ![c].num = 1,
                                ![c].left = FALSE]
  /\ UNCHANGED <<kind, lock, evicted, asker, heard, server, queue, lost, faults, undefVars>>

\* handleConnect; the server's handleAccept.
SocketHandleConnect(o) ==
  /\ Socket /\ conn[o].alive /\ conn[o].link = "connecting"
  /\ conn' = [conn EXCEPT ![o].link =
                IF \E s \in Server : server[s].up THEN "up" ELSE "dead"]
  /\ UNCHANGED <<kind, cur, lock, user, evicted, asker, heard, server, queue, lost, faults,
                 undefVars>>

\* sendRequest: nothing is done, and nothing said, unless good_.
SocketSendRequest(c) ==
  /\ Socket /\ user[c].at = "ready" /\ Len(asker) < MaxId
  /\ LET o == user[c].o
         i == Len(asker) + 1
     IN  \/ ~conn[o].alive /\ Misuse(c)
         \/ /\ conn[o].alive
            /\ asker' = Append(asker, AsCaller(c))
            /\ server' = [s \in Server |->
                 IF server[s].up /\ conn[o].link = "up"
                 THEN [server[s] EXCEPT !.inbox = Append(@, <<i, o>>)] ELSE server[s]]
            /\ lost' = IF conn[o].link = "up" THEN lost ELSE lost \cup {i}
            /\ belated' = (belated \/ user[c].left)
            /\ UNCHANGED <<kind, clientVars, heard, queue, faults, misused, strayed, raced>>

\* The messages q without those of connection o.
Without(q, o) ==
  LET kept[k \in 0..Len(q)] ==
        IF k = 0 THEN <<>>
        ELSE IF q[k][2] = o THEN kept[k - 1] ELSE Append(kept[k - 1], q[k])
  IN  kept[Len(q)]

\* The connection breaks; what was under way in either direction is gone.
SocketBreaks(o) ==
  /\ Socket /\ conn[o].alive /\ conn[o].link = "up" /\ Fault
  /\ conn' = [conn EXCEPT ![o].link = "broken", ![o].inbox = <<>>]
  /\ server' = [s \in Server |-> [server[s] EXCEPT !.inbox = Without(@, o)]]
  /\ lost' = lost \cup {i \in 1..Len(asker) : asker[i].o = o}
  /\ UNCHANGED <<kind, cur, lock, user, evicted, asker, heard, queue, undefVars>>

\* The client's thread: it calls the callback with each message, and stops
\* being good_ for ever at the first error.
SocketHandleRead(o) ==
  /\ Socket /\ conn[o].alive
  /\ \/ /\ conn[o].link = "up" /\ conn[o].inbox # <<>>
        /\ LET r == Head(conn[o].inbox)
               calls == {[by |-> p[2], final |-> r.final, late |-> Late(o, p[1], p[2])] :
                           p \in conn[o].clients}
           IN  heard' = [heard EXCEPT ![r.id] = @ \o SetToSeq(calls)]
        /\ conn' = [conn EXCEPT ![o].inbox = Tail(@)]
     \/ /\ conn[o].link = "broken"
        /\ conn' = [conn EXCEPT ![o].link = "dead"]
        /\ UNCHANGED heard
  /\ UNCHANGED <<kind, cur, lock, user, evicted, asker, server, queue, lost, faults,
                 undefVars>>

\* removeRPCClient frees whichever client the locator has, at once ...
SocketRemoveRpcClient(c) ==
  /\ Socket /\ user[c].at = "ready" /\ lock = Nobody
  /\ conn' = IF cur = 0 THEN conn
             ELSE [conn EXCEPT ![cur].alive = FALSE, ![cur].running = FALSE]
  /\ evicted' = IF cur = 0 THEN evicted
                ELSE evicted \cup {d \in Caller \ {c} : <<1, d>> \in conn[cur].clients}
  /\ cur' = 0
  /\ user' = [user EXCEPT ![c].left = TRUE]
  /\ UNCHANGED <<kind, lock, asker, heard, server, queue, lost, faults, undefVars>>

\* ... and the thread comes with the handler that was pending.
SocketPendingHandler(o) ==
  /\ Socket /\ ~conn[o].alive /\ ~conn[o].gone
  /\ conn' = [conn EXCEPT ![o].gone = TRUE]
  /\ strayed' = (strayed \/ conn[o].link # "dead")
  /\ UNCHANGED <<kind, cur, lock, user, evicted, asker, heard, server, queue, lost, faults,
                 misused, raced, belated>>

\* handleData and registerConnection.
SocketRegisterConnection(s) ==
  /\ Socket /\ server[s].up /\ server[s].inbox # <<>>
  /\ LET m == Head(server[s].inbox)
     IN  Accepted(s, [server[s] EXCEPT !.inbox = Tail(@),
                                       !.index = @ \cup {<<m[2], m[1]>>}], m)
  /\ UNCHANGED <<kind, clientVars, asker, heard, queue, undefVars>>

\* Fault: only reverseReplySocketMap_ forgets the connection.
SocketRemoveConnection_HalfDone(s, o) ==
  /\ Socket /\ server[s].up /\ (conn[o].link \in {"broken", "dead"} \/ ~conn[o].alive)
  /\ \E p \in server[s].index : p[1] = o
  /\ server' = [server EXCEPT ![s].index = {p \in @ : p[1] # o}]
  /\ lost' = lost \cup {p[2] : p \in {q \in server[s].index : q[1] = o}}
  /\ UNCHANGED <<kind, clientVars, asker, heard, queue, faults, undefVars>>

\* removeConnection: the server's thread finds the connection closed.
SocketRemoveConnection(s, o) ==
  /\ Socket /\ server[s].up /\ (conn[o].link \in {"broken", "dead"} \/ ~conn[o].alive)
  /\ \E p \in server[s].index : p[1] = o
  /\ LET ids == {p[2] : p \in {q \in server[s].index : q[1] = o}}
     IN  /\ server' = [server EXCEPT ![s].table = {p \in @ : p[1] \notin ids},
                                     ![s].index = {p \in @ : p[1] # o}]
         /\ lost' = lost \cup ids
  /\ UNCHANGED <<kind, clientVars, asker, heard, queue, faults, undefVars>>

SocketRpcServer(s) ==
  /\ Socket /\ \A p \in Server : ~server[p].up
  /\ ServerStarts(s)

\* The server's process ends and its connections break.
SocketServerDies(s) ==
  /\ Socket /\ server[s].up /\ Fault
  /\ server' = [server EXCEPT ![s] = Down]
  /\ conn' = [o \in 1..Len(conn) |->
       IF conn[o].link = "up" THEN [conn[o] EXCEPT !.link = "broken", !.inbox = <<>>]
       ELSE conn[o]]
  /\ lost' = lost \cup 1..Len(asker)
  /\ UNCHANGED <<kind, cur, lock, user, evicted, asker, heard, queue, undefVars>>

\* sendReply: the write to a broken connection throws, and the tables stay.
SocketSendReply(s, i, final) ==
  /\ Socket
  /\ \/ SendReply(s, i, final)
     \/ /\ FacilityReplies(s, i, final)
        /\ \E p \in server[s].table : p[1] = i /\ conn[p[2]].link # "up"
        /\ server' = [server EXCEPT ![s] = AfterReply(@, i, final)]
        /\ lost' = lost \cup {i}
        /\ UNCHANGED <<kind, clientVars, asker, heard, queue, faults, undefVars>>
=============================================================================
