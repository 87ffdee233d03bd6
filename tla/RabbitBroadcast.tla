-------------------------- MODULE RabbitBroadcast --------------------------
(***************************************************************************)
(* The exchange subscriptions of RabbitMQComponent.cpp.  Each listener has *)
(* a connection of its own, kept by its id, and a call is one section      *)
(* under mutex_: no pointer outlives it.                                   *)
(***************************************************************************)
EXTENDS Subscriptions

RabbitMQ == kind = "rabbitmq"

\* Under mutex_: connect, declare, bind, consume and start the thread.
RabbitMQAdd(c, l, f) ==
  LET i == counter + 1
      o == Len(obj) + 1
  IN  /\ RabbitMQ /\ call[c].at = "out" /\ lock = Nobody /\ Room
      /\ counter' = i
      /\ obj' = Append(obj, [Fresh(<<i>>, l, f) EXCEPT
                   !.clients = <<[id |-> i, filter |-> f, by |-> c]>>])
      /\ subs' = subs \cup {o}
      /\ idMap' = idMap \cup {<<i, o>>}
      /\ call' = [call EXCEPT ![c] = [Out EXCEPT !.at = "added", !.id = i]]
      /\ UNCHANGED <<kind, lock, raced, wiped, heard, sendVars, undef, backVars>>

\* Under mutex_: erase the connection; its destructor tells the thread.
RabbitMQRemove(c, i) ==
  LET found == {x \in idMap : x[1] = i}
  IN  /\ RabbitMQ /\ call[c].at = "out" /\ lock = Nobody
      /\ idMap' = idMap \ found
      /\ \/ /\ found = {}
            /\ call' = [call EXCEPT ![c] = [Out EXCEPT !.at = "removed", !.id = i]]
            /\ UNCHANGED <<obj, lock>>
         \/ \E x \in found :
              /\ call' = [call EXCEPT ![c] =
                            [Out EXCEPT !.at = "freeing", !.o = x[2], !.id = i]]
              /\ obj' = [obj EXCEPT ![x[2]].running = FALSE]
              /\ lock' = c
      /\ UNCHANGED <<kind, subs, raced, wiped, counter, heard, sendVars, undef, backVars>>

\* Fault: a thread that cannot be joined is detached, as the catch has it.
RabbitMQErase_Detaches(c) ==
  /\ RabbitMQ /\ call[c].at = "freeing" /\ (obj[call[c].o].gone \/ inside[c] = call[c].o)
  /\ subs' = subs \ {call[c].o}
  /\ obj' = [obj EXCEPT ![call[c].o] =
               [@ EXCEPT !.alive = FALSE, !.clients = <<>>, !.inbox = <<>>]]
  /\ lock' = Nobody
  /\ Back(c, "removed")
  /\ UNCHANGED <<kind, raced, wiped, idVars, heard, sendVars, undef, backVars>>

\* The destructor joins the thread and closes the connection.
RabbitMQErase(c) ==
  /\ RabbitMQ /\ call[c].at = "freeing" /\ obj[call[c].o].gone
  /\ subs' = subs \ {call[c].o}
  /\ obj' = [obj EXCEPT ![call[c].o] =
               [@ EXCEPT !.alive = FALSE, !.clients = <<>>, !.inbox = <<>>]]
  /\ lock' = Nobody
  /\ Back(c, "removed")
  /\ UNCHANGED <<kind, raced, wiped, idVars, heard, sendVars, undef, backVars>>

\* On the thread itself, in a callback, the join throws and is ignored; the
\* std::thread is then destroyed without having been joined, which ends the
\* process before anything is freed.
RabbitMQEndsProcess(c) ==
  /\ RabbitMQ /\ call[c].at = "freeing" /\ inside[c] = call[c].o
  /\ ended' = TRUE
  /\ UNCHANGED <<kind, objVars, idVars, call, heard, sendVars, undef, inside, waits>>

\* run: consume, read running_, call the listener.
RabbitMQRun(o) ==
  /\ RabbitMQ
  /\ Receive(o) \/ HandOut(o, HeardCopies) \/ ThreadEnds(o)

RabbitMQPublishingConnection(l) == RabbitMQ /\ Open(l)

\* The exchange copies the message to every queue bound with its topic.
RabbitMQPublish(l, tp) ==
  /\ RabbitMQ
  /\ Send(l, tp, {o \in subs : obj[o].at = l /\ Matches(obj[o].topic, tp)})
=============================================================================
