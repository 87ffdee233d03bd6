--------------------------- MODULE RpcConnections ---------------------------
(***************************************************************************)
(* Remote calls over a message transport, as the components of Redis,      *)
(* RabbitMQ and socket RPC and the gRPC sender have them: a connection for *)
(* each locator, shared by the clients set on it, with the table           *)
(* idToClientMap_ that says whose a reply is, and a server that remembers  *)
(* where each request came from.  One locator is explored; requests have   *)
(* ids of their own and are numbered in the order in which they are made.  *)
(*                                                                         *)
(* This module has the state, what the connections of Redis and RabbitMQ   *)
(* do with it, and the server's side; RedisRpc, RabbitRpc, SocketRpc and   *)
(* GrpcRpc have the operations of each component.                          *)
(***************************************************************************)
EXTENDS Naturals, Sequences, FiniteSets, SequencesExt

CONSTANTS Caller,     \* users of the component in the client's process
          Server,     \* processes that may serve the locator
          Kind,       \* the transports explored
          MaxId,      \* bound: requests in one behaviour
          MaxConn,    \* bound: connections made in one behaviour
          MaxFaults,  \* bound: faults in one behaviour
          MaxPartial, \* bound: the requests with a reply before their last
          Nobody

ASSUME RpcAssumption ==
  {MaxId, MaxConn, MaxFaults, MaxPartial} \subseteq Nat /\ Nobody \notin Caller

VARIABLES kind,
          conn,     \* every client connection ever made
          cur,      \* the one the component has for the locator, or 0
          lock,     \* who holds mutex_ across steps (while freeing)
          user,     \* what each caller is in the middle of
          asker,    \* who made each request, as which client
          heard,    \* the calls of callbacks about each request
          server,
          queue,    \* the request queue of RabbitMQ
          lost,     \* requests of which a message was lost or dropped
          evicted,  \* callers whose client another caller's removal took
          faults,
          misused,  \* a caller went through a pointer to a freed connection
          strayed,  \* a thread went on in a connection that was freed
          raced,    \* freed while a caller was adding itself, or had just
          belated   \* a request was made by a caller that has been removed, or
                    \* was under way when it was

Id == 1..MaxId
clientVars == <<conn, cur, lock, user, evicted>>
undefVars  == <<misused, strayed, raced, belated>>
rpcVars == <<kind, clientVars, asker, heard, server, queue, lost, faults, undefVars>>

\* A caller is outside, has a pointer to a connection and no number yet, has
\* its requester, is between the two halves of a request, or was refused.
UserAt == {"out", "adding", "ready", "asking", "refused"}
Reply == [id : Id, final : BOOLEAN]

NewConnection(link) ==
  [alive |-> TRUE, running |-> TRUE, gone |-> FALSE, link |-> link, counter |-> 0,
   clients |-> {}, table |-> {}, index |-> {}, inbox |-> <<>>, hand |-> <<>>]

Down == [up |-> FALSE, ready |-> FALSE, inbox |-> <<>>, table |-> {}, index |-> {},
         work |-> {}, said |-> {}]

RpcTypeOK ==
  /\ kind \in Kind
  /\ cur \in 0..Len(conn) /\ Len(conn) <= MaxConn
  /\ \A o \in 1..Len(conn) :
       /\ {conn[o].alive, conn[o].running, conn[o].gone} \subseteq BOOLEAN
       /\ conn[o].link \in {"connecting", "up", "broken", "dead"}
       /\ conn[o].clients \subseteq (1..conn[o].counter) \X Caller
       /\ conn[o].table \subseteq Id \X (1..conn[o].counter)
       /\ conn[o].index \subseteq (1..conn[o].counter) \X Id
       /\ conn[o].inbox \in Seq(Reply) /\ conn[o].hand \in Seq(Reply)
  /\ lock \in Caller \cup {Nobody}
  /\ \A c \in Caller : /\ user[c].at \in UserAt /\ user[c].o \in 0..Len(conn)
                       /\ user[c].num \in Nat /\ user[c].id \in 0..MaxId
                       /\ user[c].left \in BOOLEAN
  /\ asker \in Seq([by : Caller, o : 0..Len(conn), num : Nat]) /\ Len(asker) <= MaxId
  /\ \A i \in Id : heard[i] \in Seq([by : Caller, final : BOOLEAN, late : BOOLEAN])
  /\ \A s \in Server :
       /\ {server[s].up, server[s].ready} \subseteq BOOLEAN
       /\ server[s].inbox \in Seq(Id \X (0..Len(conn)))
       /\ server[s].table \subseteq Id \X (0..Len(conn))
       /\ server[s].index \subseteq (1..Len(conn)) \X Id
       /\ server[s].work \subseteq Id /\ server[s].said \subseteq Id
  /\ queue \in Seq(Id \X (1..Len(conn)))
  /\ lost \subseteq Id /\ evicted \subseteq Caller /\ faults \in 0..MaxFaults
  /\ {misused, strayed, raced, belated} \subseteq BOOLEAN

RpcInit ==
  /\ conn = <<>> /\ cur = 0 /\ lock = Nobody
  /\ user = [c \in Caller |-> [at |-> "out", o |-> 0, num |-> 0, id |-> 0, left |-> FALSE]]
  /\ asker = <<>> /\ heard = [i \in Id |-> <<>>]
  /\ queue = <<>> /\ lost = {} /\ evicted = {}
  /\ misused = FALSE /\ strayed = FALSE /\ raced = FALSE /\ belated = FALSE

Redis    == kind = "redis"
RabbitMQ == kind = "rabbitmq"
Socket   == kind = "socket_rpc"
Grpc     == kind = "grpc_interop"

Fault == faults < MaxFaults /\ faults' = faults + 1

--------------------------------------------------------------------------
(* Setting and removing clients (Redis and RabbitMQ).                      *)

\* Under mutex_: the connection of the locator is found or made.
FindOrConnect(c) ==
  /\ user[c].at = "out" /\ lock = Nobody
  /\ \/ /\ cur # 0
        /\ UNCHANGED <<conn, cur>>
     \/ /\ cur = 0 /\ Len(conn) < MaxConn
        /\ conn' = Append(conn, NewConnection("up"))
        /\ cur' = Len(conn) + 1
  /\ user' = [user EXCEPT ![c].at = "adding", ![c].o = cur']
  /\ UNCHANGED <<kind, lock, evicted, asker, heard, server, queue, lost, faults, undefVars>>

\* A caller goes through a pointer to a freed connection.
Misuse(c) ==
  /\ misused' = TRUE
  /\ belated' = (belated \/ user[c].left)
  /\ UNCHANGED <<kind, clientVars, asker, heard, server, queue, lost, faults, strayed, raced>>

\* Under clientsMutex_: the client has a number.
TakeNumber(c) ==
  /\ user[c].at = "adding"
  /\ LET o == user[c].o
         n == conn[o].counter + 1
     IN  \/ /\ ~conn[o].alive /\ Misuse(c)
         \/ /\ conn[o].alive
            /\ conn' = [conn EXCEPT ![o].counter = n, ![o].clients = @ \cup {<<n, c>>}]
            /\ user' = [user EXCEPT ![c].at = "ready", ![c].num = n, ![c].left = FALSE]
            /\ UNCHANGED <<kind, cur, lock, evicted, asker, heard, server, queue, lost,
                           faults, undefVars>>

\* Fault: the ids of a removed client stay in idToClientMap_.
WithoutClient_KeepsIds(x, n) ==
  [x EXCEPT !.clients = {p \in @ : p[1] # n}, !.index = {p \in @ : p[1] # n}]

\* A connection without client n and the requests it waits for.
WithoutClient(x, n) ==
  LET ids == {p[2] : p \in {q \in x.index : q[1] = n}}
  IN  [x EXCEPT !.clients = {p \in @ : p[1] # n},
                !.table   = {p \in @ : p[1] \notin ids},
                !.index   = {p \in @ : p[1] # n}]

\* With mutex_ held: the locator's connection, whichever it is by now, loses
\* the number, and is closed when that was its last client.
LeaveConnection(c) ==
  /\ user[c].at \in {"ready", "asking"} /\ lock = Nobody
  /\ user' = [user EXCEPT ![c].left = TRUE]
  /\ belated' = (belated \/ user[c].at = "asking")
  /\ IF cur = 0
     THEN UNCHANGED <<conn, lock, evicted>>
     ELSE LET n == user[c].num
              rest == WithoutClient(conn[cur], n)
              last == rest.clients = {}
          IN  /\ conn' = [conn EXCEPT ![cur] = [rest EXCEPT !.running = @ /\ ~last]]
              /\ lock' = IF last THEN c ELSE Nobody
              /\ evicted' = evicted \cup
                   {d \in Caller \ {c} : <<n, d>> \in conn[cur].clients}
  /\ UNCHANGED <<kind, cur, asker, heard, server, queue, lost, faults, misused, strayed,
                 raced>>

\* The connection is freed and mutex_ given back.
FreeConnection(c) ==
  /\ lock = c
  /\ conn' = [conn EXCEPT ![cur].alive = FALSE, ![cur].inbox = <<>>]
  /\ raced' = (raced \/ conn[cur].clients # {}
                      \/ \E d \in Caller : user[d].at = "adding" /\ user[d].o = cur)
  /\ cur' = 0
  /\ lock' = Nobody
  /\ UNCHANGED <<kind, user, evicted, asker, heard, server, queue, lost, faults, misused,
                 strayed, belated>>

--------------------------------------------------------------------------
(* Requests and replies (Redis and RabbitMQ).                              *)

AsCaller(c) == [by |-> c, o |-> user[c].o, num |-> user[c].num]

\* Under clientsMutex_: the request's id is entered for the client's number.
EnterRequest(c) ==
  /\ user[c].at = "ready" /\ Len(asker) < MaxId
  /\ LET o == user[c].o
         i == Len(asker) + 1
         n == user[c].num
     IN  \/ ~conn[o].alive /\ Misuse(c)
         \/ /\ conn[o].alive
            /\ asker' = Append(asker, AsCaller(c))
            /\ conn' = [conn EXCEPT ![o].table = @ \cup {<<i, n>>},
                                    ![o].index = @ \cup {<<n, i>>}]
            /\ user' = [user EXCEPT ![c].at = "asking", ![c].id = i]
            /\ belated' = (belated \/ user[c].left)
            /\ UNCHANGED <<kind, cur, lock, evicted, heard, server, queue, lost, faults,
                           misused, strayed, raced>>

\* The second half of sendRequest: the requester is back when the message is out.
Sent(c) ==
  /\ user[c].at = "asking" /\ conn[user[c].o].alive
  /\ user' = [user EXCEPT ![c].at = "ready"]
  /\ UNCHANGED <<kind, conn, cur, lock, evicted, asker, heard, undefVars>>

\* The thread takes a reply and finds running_ still true.
TakeReply(o) ==
  /\ conn[o].alive /\ conn[o].running /\ ~conn[o].gone
  /\ conn[o].inbox # <<>> /\ conn[o].hand = <<>>
  /\ conn' = [conn EXCEPT ![o].hand = <<Head(conn[o].inbox)>>, ![o].inbox = Tail(@)]
  /\ UNCHANGED <<kind, cur, lock, user, evicted, asker, heard, server, queue, lost, faults,
                 undefVars>>

\* A call of the callback that is number n of connection o belongs to a client
\* that has been removed, or set anew.
Late(o, n, c) == user[c].o # o \/ user[c].num # n \/ user[c].left

\* The calls that connection o makes about a reply.
CallsOf(o, r) ==
  {[by |-> p[2], final |-> r.final, late |-> Late(o, p[1], p[2])] :
     p \in {q \in conn[o].clients : <<r.id, q[1]>> \in conn[o].table}}

\* Fault: any reply ends the request.
Dispatched_AnyReplyIsFinal(x, r) ==
  [x EXCEPT !.hand  = <<>>,
            !.table = {p \in @ : p[1] # r.id},
            !.index = {p \in @ : p[2] # r.id}]

\* The connection after a reply: a final one ends the request.
Dispatched(x, r) ==
  [x EXCEPT !.hand  = <<>>,
            !.table = IF r.final THEN {p \in @ : p[1] # r.id} ELSE @,
            !.index = IF r.final THEN {p \in @ : <<r.id, p[1]>> \notin x.table \/ p[2] # r.id}
                      ELSE @]

\* Under clientsMutex_: the client whose request it is hears the reply, unless
\* a hook, the deserializer or the identity makes nothing of its content.
DispatchReply(o) ==
  /\ conn[o].alive /\ conn[o].hand # <<>>
  /\ LET r == Head(conn[o].hand)
         calls == CallsOf(o, r)
     IN  /\ conn' = [conn EXCEPT ![o] = Dispatched(@, r)]
         /\ \/ /\ heard' = [heard EXCEPT ![r.id] = @ \o SetToSeq(calls)]
               /\ UNCHANGED <<lost, faults>>
            \/ /\ calls # {} /\ Fault
               /\ lost' = IF r.final THEN lost \cup {r.id} ELSE lost
               /\ UNCHANGED heard
  /\ UNCHANGED <<kind, cur, lock, user, evicted, asker, server, queue, undefVars>>

\* The thread sees that running_ is false; a detached one may come to look
\* when the connection has been freed.
ReceiverEnds(o) ==
  /\ ~conn[o].running /\ ~conn[o].gone
  /\ conn[o].hand = <<>> \/ ~conn[o].alive
  /\ conn' = [conn EXCEPT ![o].gone = TRUE, ![o].hand = <<>>]
  /\ strayed' = (strayed \/ ~conn[o].alive)
  /\ UNCHANGED <<kind, cur, lock, user, evicted, asker, heard, server, queue, lost, faults,
                 misused, raced, belated>>

\* What a connection still waits for when it hears no more.
Awaited(o) == {p[1] : p \in conn[o].table} \cup {r.id : r \in Range(conn[o].inbox)}

--------------------------------------------------------------------------
(* The server's side.                                                      *)

\* setRPCServer: the connection's thread runs ...
ServerStarts(s) ==
  /\ ~server[s].up
  /\ server' = [server EXCEPT ![s] = [Down EXCEPT !.up = TRUE]]
  /\ UNCHANGED <<kind, clientVars, asker, heard, queue, lost, faults, undefVars>>

\* ... before *replierPtr_ has the function that replies.
ReplierStored(s) ==
  /\ server[s].up /\ ~server[s].ready
  /\ server' = [server EXCEPT ![s].ready = TRUE]
  /\ UNCHANGED <<kind, clientVars, asker, heard, queue, lost, faults, undefVars>>

\* A request m: where it came from is remembered, and it goes to the facility
\* unless a hook, the identity or the deserializer refuses it.
Accepted(s, x, m) ==
  LET known == [x EXCEPT !.table = {p \in @ : p[1] # m[1]} \cup {m}]
  IN  \/ /\ server' = [server EXCEPT ![s] = [known EXCEPT !.work = @ \cup {m[1]}]]
         /\ UNCHANGED <<lost, faults>>
      \/ /\ Fault
         /\ server' = [server EXCEPT ![s] = known]
         /\ lost' = lost \cup {m[1]}

\* The facility has a reply: the last, or one before it.
FacilityReplies(s, i, final) ==
  /\ server[s].up /\ i \in server[s].work
  /\ final \/ (i <= MaxPartial /\ i \notin server[s].said)

\* The server with that reply out of the facility's hands.
AfterReply(x, i, final) ==
  IF final THEN [x EXCEPT !.work = @ \ {i}, !.said = @ \ {i}]
  ELSE [x EXCEPT !.said = @ \cup {i}]

\* The server that has forgotten where a request came from.
Forgotten(x, i) ==
  [x EXCEPT !.table = {p \in @ : p[1] # i}, !.index = {p \in @ : p[2] # i}]

\* Fault: the entry is erased with any reply.
ReplyFrom_ErasedEarly(s, i, final) ==
  LET x == AfterReply(server[s], i, final)
  IN  IF x.ready THEN Forgotten(x, i) ELSE x

\* sendReply under the connection's mutex_: the last reply erases the entry.
ReplyFrom(s, i, final) ==
  LET x == AfterReply(server[s], i, final)
  IN  IF final /\ x.ready THEN Forgotten(x, i) ELSE x

\* The reply goes to the connection its request came from, which may be gone
\* or cut off; no entry, or no replier yet: it is dropped.
SendReply(s, i, final) ==
  /\ FacilityReplies(s, i, final)
  /\ server' = [server EXCEPT ![s] = ReplyFrom(s, i, final)]
  /\ LET to == {p[2] : p \in {q \in server[s].table : q[1] = i}}
         reached == {o \in to : /\ server[s].ready
                                /\ conn[o].alive /\ ~conn[o].gone /\ conn[o].link = "up"}
     IN  /\ conn' = [o \in 1..Len(conn) |->
                       IF o \in reached
                       THEN [conn[o] EXCEPT !.inbox = Append(@, [id |-> i, final |-> final])]
                       ELSE conn[o]]
         /\ lost' = IF reached = {} /\ final THEN lost \cup {i} ELSE lost
  /\ UNCHANGED <<kind, cur, lock, user, evicted, asker, heard, queue, faults, undefVars>>

\* A server without replies (the wrappers WithoutReply): the facility keeps
\* the request to itself, and its entry stays.
KeepsSilent(s, i) ==
  /\ server[s].up /\ i \in server[s].work
  /\ server' = [server EXCEPT ![s].work = @ \ {i}]
  /\ lost' = lost \cup {i}
  /\ UNCHANGED <<kind, clientVars, asker, heard, queue, faults, undefVars>>

\* The server's process ends with whatever it had.
ServerDies(s) ==
  /\ server[s].up /\ Fault
  /\ lost' = lost \cup server[s].work \cup {p[1] : p \in server[s].table}
                  \cup {p[1] : p \in Range(server[s].inbox)}
  /\ server' = [server EXCEPT ![s] = Down]
  /\ UNCHANGED <<kind, clientVars, asker, heard, queue, undefVars>>
=============================================================================
