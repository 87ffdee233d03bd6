------------------------------- MODULE WebRpc -------------------------------
(***************************************************************************)
(* Remote calls over web sockets: OneRPCClient, OneRPCServer and the       *)
(* functions of WebSocketComponent.cpp that use them.  A request made      *)
(* before the connection is up waits in beforeReadyBuffer_; the handler    *)
(* that ends the handshake sends what it finds there.                      *)
(***************************************************************************)
EXTENDS WebLinks

VARIABLES before,    \* of each client object: ready_, beforeReadyBuffer_ and bufferCopy
          stranded   \* requests that came into a buffer after it was emptied

webRpcVars == <<before, stranded>>

WebRpc == kind = "websocket_rpc"

\* A caller of sendRequest is before the push to the buffer, before
\* doSendRequest, between its two halves, or has had its write fail.
WebUserAt == {"out", "adding", "ready", "buffering", "sending", "writing", "failing",
              "refused"}

NewBefore == [ready |-> FALSE, wait |-> <<>>, copy |-> <<>>]

WebRpcTypeOK ==
  /\ cur \in 0..Len(conn) /\ Len(conn) <= MaxConn
  /\ WebRpc => Len(chain) = Len(conn) /\ Len(before) = Len(conn)
  /\ \A o \in 1..Len(before) :
       /\ before[o].ready \in BOOLEAN
       /\ \A w \in Range(before[o].wait) \cup Range(before[o].copy) :
            w \in (1..conn[o].counter) \X Id
  /\ \A c \in Caller : user[c].at \in WebUserAt
  /\ stranded \subseteq Id

WebRpcInit == before = <<>> /\ stranded = {}

--------------------------------------------------------------------------
(* The clients.                                                            *)

\* Under rpcClientMapMutex_: the object of the locator is found, or made and
\* run, or cannot be made for a certificate that is not understood; then the
\* function that is returned is empty.
WebSetRpcClient(c) ==
  /\ WebRpc /\ ~ended /\ user[c].at = "out"
  /\ \/ /\ cur # 0
        /\ user' = [user EXCEPT ![c].at = "adding", ![c].o = cur]
        /\ UNCHANGED <<conn, cur, chain, before, faults>>
     \/ /\ cur = 0 /\ Len(conn) < MaxConn
        /\ conn' = Append(conn, NewConnection("up"))
        /\ chain' = Append(chain, Resolving)
        /\ before' = Append(before, NewBefore)
        /\ cur' = Len(conn) + 1
        /\ user' = [user EXCEPT ![c].at = "adding", ![c].o = cur']
        /\ UNCHANGED faults
     \/ /\ cur = 0 /\ secure /\ Fault
        /\ user' = [user EXCEPT ![c].at = "refused"]
        /\ UNCHANGED <<conn, cur, chain, before>>
  /\ UNCHANGED <<kind, lock, evicted, asker, heard, server, queue, lost, undefVars, secure,
                 sess, site, ended, stranded>>

\* addClient, under clientsMutex_.
WebAddRpcClient(c) ==
  WebRpc /\ ~ended /\ TakeNumber(c) /\ UNCHANGED <<linkVars, webRpcVars>>

\* sendRequest looks at ready_ without a lock.
WebSendRequest(c) ==
  /\ WebRpc /\ ~ended /\ user[c].at = "ready" /\ Len(asker) < MaxId
  /\ asker' = Append(asker, AsCaller(c))
  /\ user' = [user EXCEPT ![c].at = IF before[user[c].o].ready THEN "sending" ELSE "buffering",
                          ![c].id = Len(asker) + 1]
  /\ UNCHANGED <<kind, conn, cur, lock, evicted, heard, server, queue, lost, faults, undefVars,
                 linkVars, webRpcVars>>

\* Under writeMutex_.  The handler that empties the buffer may have done so.
WebBuffer(c) ==
  /\ WebRpc /\ ~ended /\ user[c].at = "buffering"
  /\ LET o == user[c].o
     IN  /\ before' = [before EXCEPT ![o].wait = Append(@, <<user[c].num, user[c].id>>)]
         /\ stranded' = IF chain[o].at \in {"sending", "writing", "reading"}
                        THEN stranded \cup {user[c].id} ELSE stranded
  /\ user' = [user EXCEPT ![c].at = "ready"]
  /\ UNCHANGED <<kind, conn, cur, lock, evicted, asker, heard, server, queue, lost, faults,
                 undefVars, linkVars>>

\* Under clientsMutex_: request i is client n's.
Entered(o, n, i) ==
  /\ conn' = [conn EXCEPT ![o].table = @ \cup {<<i, n>>}, ![o].index = @ \cup {<<n, i>>}]
  /\ belated' = (belated \/ ~\E q \in conn[o].clients : q[1] = n)

\* doSendRequest, whose first look at ready_ may be the second of the call.
WebDoSendRequest(c) ==
  /\ WebRpc /\ ~ended /\ user[c].at = "sending"
  /\ LET o == user[c].o
     IN  IF before[o].ready
         THEN /\ Entered(o, user[c].num, user[c].id)
              /\ user' = [user EXCEPT ![c].at = "writing"]
              /\ UNCHANGED lost
         ELSE /\ user' = [user EXCEPT ![c].at = "ready"]
              /\ lost' = lost \cup {user[c].id}
              /\ UNCHANGED <<conn, belated>>
  /\ UNCHANGED <<kind, cur, lock, evicted, asker, heard, server, queue, faults, misused,
                 strayed, raced, linkVars, webRpcVars>>

\* Under writeMutex_: the request is on its way.
Wrote(k, i) == ~sess[k].cut /\ sess' = [sess EXCEPT ![k].up = Append(@, i)] /\ UNCHANGED lost

\* A write to a connection that is broken goes nowhere; it may fail at once.
WroteInVain(k, i) == sess[k].cut /\ lost' = lost \cup {i} /\ UNCHANGED sess

WebWrite(c) ==
  /\ WebRpc /\ ~ended /\ user[c].at = "writing"
  /\ LET o == user[c].o
         k == chain[o].s
         i == user[c].id
     IN  \/ /\ Wrote(k, i) \/ WroteInVain(k, i)
            /\ user' = [user EXCEPT ![c].at = "ready"]
            /\ UNCHANGED before
         \/ /\ WroteInVain(k, i)
            /\ before' = [before EXCEPT ![o].ready = FALSE]
            /\ user' = [user EXCEPT ![c].at = "failing"]
  /\ UNCHANGED <<kind, conn, cur, lock, evicted, asker, heard, server, queue, faults,
                 undefVars, secure, chain, site, ended, stranded>>

\* removeRPCClient(locator) after a failure of object o: what the locator has
\* by now is erased, even a newer object, whose clients are out of reach then.
ErasesLocator(o) ==
  /\ cur' = 0
  /\ raced' = (raced \/ (cur # 0 /\ cur # o))

WebWriteFailed(c) ==
  /\ WebRpc /\ ~ended /\ user[c].at = "failing"
  /\ ErasesLocator(user[c].o)
  /\ user' = [user EXCEPT ![c].at = "ready"]
  /\ UNCHANGED <<kind, conn, lock, evicted, asker, heard, server, queue, lost, faults,
                 misused, strayed, belated, linkVars, webRpcVars>>

\* Fault: the map forgets the object, which keeps its client.
WebRemoveRpcClient_Half(c) ==
  /\ WebRpc /\ ~ended /\ user[c].at \in {"ready", "buffering", "sending", "writing"}
  /\ user' = [user EXCEPT ![c].left = TRUE]
  /\ cur' = 0
  /\ UNCHANGED <<kind, conn, evicted, lock, asker, heard, server, queue, lost, faults, undefVars,
                 linkVars, webRpcVars>>

\* Under rpcClientMapMutex_: the number is taken from the locator's object of
\* now, which leaves the map with its last client.  Its handlers keep it, and
\* so a caller that is about to be added is added to an object out of reach.
WebRemoveRpcClient(c) ==
  /\ WebRpc /\ ~ended /\ user[c].at \in {"ready", "buffering", "sending", "writing"}
  /\ user' = [user EXCEPT ![c].left = TRUE]
  /\ IF cur = 0
     THEN UNCHANGED <<conn, cur, evicted, raced>>
     ELSE LET n == user[c].num
              rest == WithoutClient(conn[cur], n)
          IN  /\ conn' = [conn EXCEPT ![cur] = rest]
              /\ raced' = (raced \/ (/\ rest.clients = {}
                                    /\ \E d \in Caller : user[d].at = "adding" /\ user[d].o = cur))
              /\ cur' = IF rest.clients = {} THEN 0 ELSE cur
              /\ evicted' = evicted \cup {d \in Caller \ {c} : <<n, d>> \in conn[cur].clients}
  /\ UNCHANGED <<kind, lock, asker, heard, server, queue, lost, faults, misused, strayed,
                 belated, linkVars, webRpcVars>>

--------------------------------------------------------------------------
(* The chain of handlers of a client object.                               *)

RpcClientOnResolve(o) == WebRpc /\ Resolves(o) /\ UNCHANGED <<callVars, lost, webRpcVars>>
RpcClientOnConnect(o) == WebRpc /\ Connects(o) /\ UNCHANGED <<callVars, lost, webRpcVars>>
RpcClientOnSSLHandshake(o) == WebRpc /\ Secures(o) /\ UNCHANGED <<callVars, lost, webRpcVars>>

\* The next of bufferCopy, or reads once there is none.
AfterCopy(rest) == IF rest = <<>> THEN "reading" ELSE "sending"

\* Fault: bufferCopy is thrown away.
Splices_Forgets(o) ==
  /\ Due(o, "splicing")
  /\ before' = [before EXCEPT ![o].wait = <<>>]
  /\ Turns(o, "reading")

\* Under writeMutex_: what waited is taken out of the buffer.
Splices(o) ==
  /\ Due(o, "splicing")
  /\ before' = [before EXCEPT ![o].copy = before[o].wait, ![o].wait = <<>>]
  /\ Turns(o, AfterCopy(before[o].wait))

\* doSendRequest of the first of bufferCopy: the tables ...
SendsCopy(o) ==
  /\ Due(o, "sending")
  /\ LET w == Head(before[o].copy)
     IN  IF before[o].ready
         THEN /\ Entered(o, w[1], w[2]) /\ Turns(o, "writing")
              /\ UNCHANGED <<before, lost>>
         ELSE /\ before' = [before EXCEPT ![o].copy = Tail(@)]
              /\ Turns(o, AfterCopy(Tail(before[o].copy)))
              /\ lost' = lost \cup {w[2]}
              /\ UNCHANGED <<conn, belated>>

\* ... and the write.
WritesCopy(o) ==
  /\ Due(o, "writing")
  /\ LET k == chain[o].s
         i == Head(before[o].copy)[2]
         rest == Tail(before[o].copy)
     IN  /\ Turns(o, AfterCopy(rest))
         /\ \/ /\ Wrote(k, i) \/ WroteInVain(k, i)
               /\ before' = [before EXCEPT ![o].copy = rest]
               /\ UNCHANGED <<cur, raced>>
            \/ /\ WroteInVain(k, i)
               /\ before' = [before EXCEPT ![o].copy = rest, ![o].ready = FALSE]
               /\ ErasesLocator(o)

\* ready_ is true from now on; the buffer comes after it.
RpcClientOnWebSocketHandshake(o) ==
  /\ WebRpc
  /\ \/ /\ Due(o, "shaking") /\ Answered(o)
        /\ before' = [before EXCEPT ![o].ready = TRUE]
        /\ Turns(o, "splicing")
        /\ UNCHANGED <<conn, cur, belated, raced, lost, sess>>
     \/ Splices(o) /\ UNCHANGED <<conn, cur, belated, raced, lost, sess>>
     \/ SendsCopy(o) /\ UNCHANGED <<cur, raced, sess>>
     \/ WritesCopy(o) /\ UNCHANGED <<conn, belated>>
     \/ FailsToRead(o, "shaking") /\ UNCHANGED <<conn, cur, belated, raced, lost, before>>
  /\ UNCHANGED <<kind, lock, user, evicted, asker, heard, server, queue, faults, misused,
                 strayed, secure, site, ended, stranded>>

\* A reply, under clientsMutex_; a hook, the identity or the deserializer may
\* make nothing of it.  Then the next read.
RpcClientOnRead(o) ==
  /\ WebRpc
  /\ \/ /\ Due(o, "reading") /\ sess[chain[o].s].down # <<>>
        /\ LET k == chain[o].s
               r == Head(sess[k].down)
               calls == CallsOf(o, r)
           IN  /\ sess' = [sess EXCEPT ![k].down = Tail(@)]
               /\ conn' = [conn EXCEPT ![o] = Dispatched(@, r)]
               /\ \/ /\ heard' = [heard EXCEPT ![r.id] = @ \o SetToSeq(calls)]
                     /\ UNCHANGED <<lost, faults>>
                  \/ /\ calls # {} /\ Fault
                     /\ lost' = IF r.final THEN lost \cup {r.id} ELSE lost
                     /\ UNCHANGED heard
        /\ UNCHANGED <<secure, chain, site, ended, before>>
     \/ /\ FailsToRead(o, "reading")
        /\ before' = [before EXCEPT ![o].ready = FALSE]
        /\ UNCHANGED <<conn, heard, lost>>
  /\ UNCHANGED <<kind, cur, lock, user, evicted, asker, server, queue, undefVars, stranded>>

\* The handlers of an object that failed let it go: its destructor closes a
\* stream that is closed, which throws, and a destructor may not.
RpcClientFails(o) ==
  /\ WebRpc /\ Due(o, "failed")
  /\ ClientEnds
  /\ cur' = 0
  /\ UNCHANGED <<kind, conn, lock, user, evicted, asker, heard, server, queue, lost, faults,
                 undefVars, secure, chain, site, webRpcVars>>

\* What a connection that breaks had under way.
UnderWay(k) == Range(sess[k].up) \cup {r.id : r \in {x \in Range(sess[k].down) : x.final}}

RpcConnectionBreaks(k) ==
  /\ WebRpc /\ ~ended /\ Breaks(k)
  /\ lost' = lost \cup UnderWay(k)
  /\ UNCHANGED <<callVars, webRpcVars>>

--------------------------------------------------------------------------
(* The server.                                                             *)

\* A port is made, and runs if the environment has started ...
WebSetRpcServer(s) == WebRpc /\ Opens /\ UNCHANGED <<callVars, lost, webRpcVars>>

\* ... and then it has a server for the path.
AddServer(s) ==
  /\ WebRpc /\ site.made /\ ~server[s].up
  /\ server' = [server EXCEPT ![s].up = TRUE]
  /\ UNCHANGED <<kind, clientVars, asker, heard, queue, lost, faults, undefVars, linkVars,
                 webRpcVars>>

WebReplierStored(s) == WebRpc /\ ReplierStored(s) /\ UNCHANGED <<linkVars, webRpcVars>>

\* A connection without TLS that breaks before its request is dropped.
RpcServerOnAccept(k) ==
  /\ WebRpc
  /\ \/ Accepts(k)
     \/ /\ ~secure /\ ReadThrows(k)
        /\ sess' = [sess EXCEPT ![k] = Removed(@)]
        /\ UNCHANGED <<secure, chain, site, ended, faults>>
  /\ UNCHANGED <<callVars, lost, webRpcVars>>

RpcServerOnRun(k) == WebRpc /\ Dispatches(k) /\ UNCHANGED <<callVars, lost, faults, webRpcVars>>

\* What the server holds of its requests.
Held(s) ==
  server[s].work \cup {p[1] : p \in server[s].table}
    \cup UNION {UnderWay(k) : k \in 1..Len(sess)}

\* The server's process ends.
WebServerEnds(s) ==
  /\ SiteEnds
  /\ lost' = lost \cup Held(s)
  /\ server' = [server EXCEPT ![s] = Down]

\* A handshake that fails is the end of its handler; a read that fails after
\* it is not caught, and is the end of the process.
RpcServerOnSslHandshake(s, k) ==
  /\ WebRpc
  /\ \/ Upgrades(k) /\ UNCHANGED <<server, lost>>
     \/ /\ secure /\ ReadThrows(k)
        /\ \/ /\ sess' = [sess EXCEPT ![k] = Removed(@)]
              /\ UNCHANGED <<secure, chain, site, ended, server, lost>>
           \/ WebServerEnds(s)
        /\ UNCHANGED faults
  /\ UNCHANGED <<kind, clientVars, asker, heard, queue, undefVars, webRpcVars>>

\* Fault: the ids of a handler that is removed stay in clientHandlersByID_.
WithoutHandler_KeepsIds(x, k) == [x EXCEPT !.index = {p \in @ : p[1] # k}]

\* The server without a handler and the requests that came through it.
WithoutHandler(x, k) ==
  [x EXCEPT !.table = {p \in @ : <<p[2], p[1]>> \notin x.index \/ p[2] # k},
            !.index = {p \in @ : p[1] # k}]

\* Under clientHandlersMutex_.
RpcServerRemoveClientHandler(s, k) ==
  /\ Runs /\ sess[k].cut /\ sess[k].peer \in {"shaking", "good"}
  /\ sess' = [sess EXCEPT ![k] = Removed(@)]
  /\ server' = [server EXCEPT ![s] = WithoutHandler(@, k)]
  /\ lost' = lost \cup {p[2] : p \in {q \in server[s].index : q[1] = k}}
  /\ UNCHANGED <<secure, chain, site, ended, faults>>

\* The handler is good, and reads.
Welcomes(k) ==
  /\ Runs /\ sess[k].peer = "shaking" /\ ~sess[k].cut
  /\ sess' = [sess EXCEPT ![k].peer = "good"]
  /\ UNCHANGED <<secure, chain, site, ended, faults>>

RpcServerOnWsHandshake(k) == WebRpc /\ Welcomes(k) /\ UNCHANGED <<callVars, lost, webRpcVars>>

\* Where a request came from is remembered in both tables; without a server
\* for the path that is all.
CallServer(s, k, i) ==
  LET x == [server[s] EXCEPT !.index = @ \cup {<<k, i>>}]
  IN  IF x.up THEN Accepted(s, x, <<i, k>>)
      ELSE /\ server' = [server EXCEPT ![s] = [x EXCEPT !.table = @ \cup {<<i, k>>}]]
           /\ lost' = lost \cup {i}
           /\ UNCHANGED faults

RpcServerOnRead(s, k) ==
  /\ WebRpc
  /\ \/ /\ Runs /\ sess[k].peer = "good" /\ sess[k].up # <<>>
        /\ CallServer(s, k, Head(sess[k].up))
        /\ sess' = [sess EXCEPT ![k].up = Tail(@)]
        /\ UNCHANGED <<secure, chain, site, ended>>
     \/ RpcServerRemoveClientHandler(s, k)
  /\ UNCHANGED <<kind, clientVars, asker, heard, queue, undefVars, webRpcVars>>

\* sendReply, all of it under clientHandlersMutex_: a write that fails goes to
\* removeClientHandler, which wants the same mutex.
WebSendReply(s, i, final) ==
  /\ WebRpc /\ ~site.stuck /\ FacilityReplies(s, i, final)
  /\ LET x == AfterReply(server[s], i, final)
         to == {p[2] : p \in {q \in server[s].table : server[s].ready /\ q[1] = i}}
         r == [id |-> i, final |-> final]
         live == {k \in to : ~sess[k].cut}
     IN  /\ server' = [server EXCEPT ![s] = IF final /\ to # {} THEN Forgotten(x, i) ELSE x]
         /\ sess' = [k \in 1..Len(sess) |->
              IF k \in live THEN [sess[k] EXCEPT !.down = Append(@, r)] ELSE sess[k]]
         /\ \/ UNCHANGED site
            \/ to # live /\ site' = [site EXCEPT !.stuck = TRUE]
         /\ lost' = IF live = {} /\ final THEN lost \cup {i} ELSE lost
  /\ UNCHANGED <<kind, clientVars, asker, heard, queue, faults, undefVars, secure, chain, ended,
                 webRpcVars>>

WebKeepsSilent(s, i) == WebRpc /\ KeepsSilent(s, i) /\ UNCHANGED <<linkVars, webRpcVars>>

\* The process is killed, or its acceptor fails: removeRPCServer lets go of an
\* object whose destructor joins a thread that was detached.
RpcServerFails(s) ==
  /\ WebRpc /\ site.made /\ Fault /\ WebServerEnds(s)
  /\ UNCHANGED <<kind, clientVars, asker, heard, queue, undefVars, webRpcVars>>
=============================================================================
