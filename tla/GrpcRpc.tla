------------------------------ MODULE GrpcRpc ------------------------------
(***************************************************************************)
(* gRPC: the RpcSender of GrpcInteropComponent.cpp, which the clients of a *)
(* locator share, the facility of GrpcClientFacility.hpp, and the service  *)
(* of GrpcServerFacility.hpp.  Each call has a reactor on either side; the *)
(* library calls them back on threads of its own, for one reactor in order *)
(* (external).  A sender is leaked when its client is removed.             *)
(***************************************************************************)
EXTENDS RpcConnections

VARIABLES reactor,  \* what the two sides keep of each call
          port,     \* the ServerBuilder of the locator's port
          single    \* isSingleRpcCall of the locator's service

grpcVars == <<reactor, port, single>>

\* On the client's side: where the call is, whether it has been told to stop,
\* what its thread has in hand, and what is on the wire; on the server's
\* resps_ (is it the last?) and the writes that have been started.
NoReactor == [at |-> "none", stopped |-> FALSE, hand |-> "none", wire |-> 0, reads |-> 0,
              closed |-> FALSE, resps |-> <<>>, writes |-> 0]

NoPort == [known |-> FALSE, started |-> FALSE, build |-> "no"]

GrpcTypeOK ==
  /\ port \in [known : BOOLEAN, started : BOOLEAN, build : {"no", "due", "done"}]
  /\ single \in BOOLEAN
  /\ reactor \in [Id -> [at : {"none", "open", "over", "leaked"}, stopped : BOOLEAN,
                      hand : {"none", "reply", "done"}, wire : 0..2, reads : 0..1, closed : BOOLEAN,
                      resps : UNION {[1..k -> BOOLEAN] : k \in 0..2}, writes : 0..2]]

GrpcInit == reactor = [i \in Id |-> NoReactor]

\* grpc_interop_setRPCClient: who comes second shares the sender, and its own
\* callback is forgotten.
GrpcSetRpcClient(c) ==
  /\ Grpc /\ user[c].at = "out"
  /\ \/ /\ cur # 0
        /\ conn' = [conn EXCEPT ![cur].counter = @ + 1]
        /\ UNCHANGED cur
     \/ /\ cur = 0 /\ Len(conn) < MaxConn
        /\ conn' = Append(conn, [NewConnection("up") EXCEPT
                                   !.counter = 1, !.clients = {<<1, c>>}])
        /\ cur' = Len(conn) + 1
  /\ user' = [user EXCEPT ![c].at = "ready", ![c].o = cur', ![c].num = 1, ![c].left = FALSE]
  /\ UNCHANGED <<kind, lock, evicted, asker, heard, server, queue, lost, faults, undefVars,
                 reactor>>

\* A call starts: whether it finds a service is seen when it is over.
GrpcStartCall(c) ==
  LET i == Len(asker) + 1
      o == user[c].o
      found == {s \in Server : server[s].up /\ server[s].ready}
  IN  /\ Len(asker) < MaxId
      /\ asker' = Append(asker, AsCaller(c))
      /\ reactor' = [reactor EXCEPT ![i].at = "open", ![i].closed = (found = {})]
      /\ server' = [s \in Server |-> IF s \in found
           THEN [server[s] EXCEPT !.inbox = Append(@, <<i, o>>)] ELSE server[s]]
      /\ lost' = IF found = {} THEN lost \cup {i} ELSE lost
      /\ UNCHANGED <<kind, clientVars, heard, queue, faults, misused, strayed, raced>>

GrpcSendRequest(c) ==
  /\ Grpc /\ user[c].at = "ready"
  /\ GrpcStartCall(c)
  /\ belated' = (belated \/ user[c].left)

Calls(o) == {i \in 1..Len(asker) : asker[i].o = o /\ reactor[i].at = "open"}

\* grpc_interop_removeRPCClient: stopAll tells the calls of everybody who
\* shares the sender.
GrpcRemoveRpcClient(c) ==
  /\ Grpc /\ user[c].at = "ready"
  /\ user' = [user EXCEPT ![c].left = TRUE]
  /\ IF cur = 0 THEN UNCHANGED <<conn, cur, evicted, reactor>>
     ELSE /\ conn' = [conn EXCEPT ![cur].running = FALSE]
          /\ reactor' = [i \in Id |-> IF i \in Calls(cur)
                THEN [reactor[i] EXCEPT !.stopped = TRUE] ELSE reactor[i]]
          /\ evicted' = evicted \cup
               {d \in Caller \ {c} : user[d].o = cur /\ ~user[d].left}
          /\ cur' = 0
  /\ UNCHANGED <<kind, lock, asker, heard, server, queue, lost, faults, undefVars>>

\* There is something to read, and a reader for it.
Readable(i) == reactor[i].wire > 0 /\ ~(single /\ reactor[i].reads > 0)

\* OnReadDone: stopped_ is read, then the callback called.
GrpcOnReadDone(i) ==
  /\ Grpc /\ reactor[i].at = "open"
  /\ \/ /\ reactor[i].hand = "none" /\ Readable(i)
        /\ reactor' = [reactor EXCEPT ![i].wire = @ - 1, ![i].reads = 1,
                         ![i].hand = IF reactor[i].stopped THEN "none" ELSE "reply"]
        /\ UNCHANGED heard
     \/ /\ reactor[i].hand = "reply"
        /\ LET o == asker[i].o
           IN  heard' = [heard EXCEPT ![i] = Append(@,
                 [by |-> (CHOOSE p \in conn[o].clients : TRUE)[2], final |-> FALSE,
                  late |-> reactor[i].stopped])]
        /\ reactor' = [reactor EXCEPT ![i].hand = "none"]
  /\ UNCHANGED <<kind, clientVars, asker, server, queue, lost, faults, undefVars>>

\* Fault: stopped_ is not looked at.
GrpcOnDone_Unconditional(i) ==
  /\ Grpc /\ reactor[i].at = "open"
  /\ \/ /\ reactor[i].hand = "none" /\ ~Readable(i) /\ reactor[i].closed
        /\ reactor' = [reactor EXCEPT ![i].hand = "done"]
        /\ UNCHANGED heard
     \/ /\ reactor[i].hand = "done"
        /\ LET o == asker[i].o
           IN  heard' = [heard EXCEPT ![i] = Append(@,
                 [by |-> (CHOOSE p \in conn[o].clients : TRUE)[2], final |-> TRUE,
                  late |-> reactor[i].stopped])]
        /\ reactor' = [reactor EXCEPT ![i].hand = "none", ![i].at = "over"]
  /\ UNCHANGED <<kind, clientVars, asker, server, queue, lost, faults, undefVars>>

\* OnDone: a stopped reactor stays in reactorMap_; otherwise the last callback
\* comes, without content whatever the status, and the reactor is removed.
GrpcOnDone(i) ==
  /\ Grpc /\ reactor[i].at = "open"
  /\ \/ /\ reactor[i].hand = "none" /\ ~Readable(i) /\ reactor[i].closed
        /\ reactor' = IF reactor[i].stopped THEN [reactor EXCEPT ![i].at = "leaked"]
                      ELSE [reactor EXCEPT ![i].hand = "done"]
        /\ UNCHANGED heard
     \/ /\ reactor[i].hand = "done"
        /\ LET o == asker[i].o
           IN  heard' = [heard EXCEPT ![i] = Append(@,
                 [by |-> (CHOOSE p \in conn[o].clients : TRUE)[2], final |-> TRUE,
                  late |-> reactor[i].stopped])]
        /\ reactor' = [reactor EXCEPT ![i].hand = "none", ![i].at = "over"]
  /\ UNCHANGED <<kind, clientVars, asker, server, queue, lost, faults, undefVars>>

\* The call ends for a reason of the network's (external).
GrpcCallFails(i) ==
  /\ Grpc /\ reactor[i].at = "open" /\ ~reactor[i].closed /\ Fault
  /\ reactor' = [reactor EXCEPT ![i].closed = TRUE, ![i].wire = 0]
  /\ lost' = lost \cup {i}
  /\ UNCHANGED <<kind, clientVars, asker, heard, server, queue, undefVars>>

--------------------------------------------------------------------------
(* The facility of GrpcClientFacility.hpp, and its one-shot call.          *)

\* actuallyHandle: it has a reactor for each call of its own, and a channel.
GrpcClientFacility(c) ==
  \/ /\ Grpc /\ user[c].at = "out"
     /\ user' = [user EXCEPT ![c].at = "ready"]
     /\ UNCHANGED <<kind, conn, cur, lock, evicted, asker, heard, server, queue, lost,
                    faults, undefVars, reactor>>
  \/ Grpc /\ user[c].at = "ready" /\ GrpcStartCall(c) /\ UNCHANGED belated

\* OneCallReactor: what is read is published, as the last only where a call
\* has one reply; OnDone marks the request as handled either way.
GrpcOneCallReactor(i) ==
  /\ Grpc /\ reactor[i].at = "open"
  /\ \/ /\ Readable(i)
        /\ reactor' = [reactor EXCEPT ![i].wire = @ - 1, ![i].reads = 1]
        /\ heard' = [heard EXCEPT ![i] = Append(@,
                       [by |-> asker[i].by, final |-> single, late |-> FALSE])]
     \/ /\ ~Readable(i) /\ reactor[i].closed
        /\ reactor' = [reactor EXCEPT ![i].at = "over"]
        /\ UNCHANGED heard
  /\ UNCHANGED <<kind, clientVars, asker, server, queue, lost, faults, undefVars>>

\* runSyncClient reads until the call is over; the future has the first
\* message, or none ever.
GrpcRunSyncClient(i) ==
  /\ Grpc /\ reactor[i].at = "open" /\ reactor[i].closed
  /\ reactor' = [reactor EXCEPT ![i].at = "over", ![i].wire = 0]
  /\ heard' = IF reactor[i].wire = 0 THEN heard
              ELSE [heard EXCEPT ![i] = <<[by |-> asker[i].by, final |-> TRUE, late |-> FALSE]>>]
  /\ UNCHANGED <<kind, clientVars, asker, server, queue, lost, faults, undefVars>>

--------------------------------------------------------------------------
(* The server.                                                             *)

\* The port with one more service: its builder is built at once if it is new
\* and the environment has started.
Registered(p) ==
  [p EXCEPT !.known = TRUE, !.build = IF p.started /\ ~p.known THEN "due" ELSE @]

\* grpc_interop_registerService, of this locator or of another with its port.
\* A service that comes to a builder that has been built is never served.
GrpcRegisterService(s) ==
  /\ Grpc
  /\ \/ /\ \A p \in Server : ~server[p].up
        /\ server' = [server EXCEPT ![s] = [Down EXCEPT !.up = TRUE]]
     \/ /\ ~port.known /\ UNCHANGED server
  /\ port' = Registered(port)
  /\ UNCHANGED <<kind, clientVars, asker, heard, queue, lost, faults, undefVars, reactor>>

\* finalizeEnvironment: every builder there is so far ...
GrpcFinalizeEnvironment ==
  /\ Grpc /\ ~port.started
  /\ port' = [port EXCEPT !.started = TRUE, !.build = IF port.known THEN "due" ELSE @]
  /\ UNCHANGED <<rpcVars, reactor>>

\* ... is built and started by a thread of its own.
GrpcBuildAndStart ==
  /\ Grpc /\ port.build = "due"
  /\ port' = [port EXCEPT !.build = "done"]
  /\ server' = [s \in Server |-> [server[s] EXCEPT !.ready = server[s].up]]
  /\ UNCHANGED <<kind, clientVars, asker, heard, queue, lost, faults, undefVars, reactor>>

\* serviceFunc: a reactor for the call, and the facility has the request.
GrpcServiceFunc(s) ==
  /\ Grpc /\ server[s].up /\ server[s].inbox # <<>>
  /\ LET m == Head(server[s].inbox)
     IN  server' = [server EXCEPT ![s].inbox = Tail(@), ![s].table = @ \cup {m},
                                  ![s].work = @ \cup {m[1]}]
  /\ UNCHANGED <<kind, clientVars, asker, heard, queue, lost, faults, undefVars, reactor>>

\* Fault: each reply is written when it comes.
GrpcPushReply_NoQueue(x, final) ==
  [x EXCEPT !.resps = Append(@, final), !.writes = @ + 1]

\* pushReply: the reply queues, and is written if it is the only one.
GrpcPushReply(x, final) ==
  [x EXCEPT !.resps = Append(@, final), !.writes = IF x.resps = <<>> THEN @ + 1 ELSE @]

\* handleResp: a reply for a call that is over is dropped.
GrpcHandleResp(s, i, final) ==
  /\ Grpc /\ FacilityReplies(s, i, final)
  /\ server' = [server EXCEPT ![s] = AfterReply(@, i, final)]
  /\ reactor' = IF \E p \in server[s].table : p[1] = i
                THEN [reactor EXCEPT ![i] = GrpcPushReply(@, final)] ELSE reactor
  /\ UNCHANGED <<kind, clientVars, asker, heard, queue, lost, faults, undefVars>>

\* Messages reach a client whose call has not ended.
Written(x, last) ==
  [x EXCEPT !.wire = IF x.closed THEN @ ELSE @ + 1, !.closed = @ \/ last]

\* OnWriteDone: the next reply's turn.
NextWrite(x) ==
  LET rest == Tail(x.resps)
  IN  [Written(x, FALSE) EXCEPT !.resps = rest, !.writes = IF rest = <<>> THEN @ - 1 ELSE @]

GrpcOnWriteDone(i) ==
  /\ Grpc /\ reactor[i].writes > 0 /\ ~Head(reactor[i].resps)
  /\ reactor' = [reactor EXCEPT ![i] = NextWrite(@)]
  /\ UNCHANGED <<kind, clientVars, asker, heard, server, queue, lost, faults, undefVars>>

\* OnDone follows StartWriteAndFinish: endHandling.
GrpcEndHandling(s, i) ==
  /\ Grpc /\ reactor[i].writes > 0 /\ Head(reactor[i].resps)
  /\ reactor' = [reactor EXCEPT ![i] =
       [Written(@, TRUE) EXCEPT !.resps = <<>>, !.writes = 0]]
  /\ server' = [server EXCEPT ![s].table = {p \in @ : p[1] # i}]
  /\ UNCHANGED <<kind, clientVars, asker, heard, queue, lost, faults, undefVars>>

\* The server's process ends, and every call of it.
GrpcServerDies(s) ==
  /\ Grpc /\ ServerDies(s)
  /\ reactor' = [i \in Id |->
       IF \E p \in server[s].table \cup Range(server[s].inbox) : p[1] = i
       THEN [reactor[i] EXCEPT !.closed = TRUE, !.resps = <<>>, !.writes = 0]
       ELSE reactor[i]]
  /\ port' = NoPort
=============================================================================
