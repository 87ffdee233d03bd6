-------------------------- MODULE ZeroMQBroadcast --------------------------
(***************************************************************************)
(* ZeroMQComponent.cpp.  Subscriptions are kept by host, port and          *)
(* identifier, although for a TCP address the identifier plays no part in  *)
(* the socket: two subscriptions may be connected to one publisher, and a  *)
(* second publisher of one port cannot bind.                               *)
(***************************************************************************)
EXTENDS Subscriptions

ZeroMQ == kind = "zeromq"

ZeroMQKey(l) == <<l.host, l.ident>>

ZeroMQGetOrStart(c, l, f) == ZeroMQ /\ FindOrMake(c, ZeroMQKey(l), l, f, Every)

\* addSubscription, called under idMutex_.
ZeroMQAddSubscription(c) ==
  /\ ZeroMQ /\ call[c].at = "adding"
  /\ IF obj[call[c].o].alive THEN Register(c) ELSE Misuse(c)

ZeroMQRemoveClient(c, i) == ZeroMQ /\ TakeId(c, i)

ZeroMQRemoveSubscription(c) ==
  /\ ZeroMQ /\ call[c].at = "removing"
  /\ IF obj[call[c].o].alive THEN Drop(c) ELSE Misuse(c)

\* checkWhetherNeedsToStop, called under mutex_.
ZeroMQCheck(c) ==
  /\ ZeroMQ /\ call[c].at = "stopping"
  /\ IF obj[call[c].o].alive THEN StopIfUnused(c) ELSE Misuse(c)

\* The destructor waits for the thread, still under mutex_.
ZeroMQErase(c) ==
  /\ ZeroMQ /\ call[c].at = "freeing" /\ obj[call[c].o].gone
  /\ Free(c, {call[c].o})

\* Fault: the message is moved into each callback.
ZeroMQRun_Moves(o) ==
  ZeroMQ /\ (Receive(o) \/ HandOut(o, HeardMoved) \/ ThreadEnds(o))

\* run: running_ is read before and after each receive, then the listeners
\* are called under the object's mutex.
ZeroMQRun(o) ==
  /\ ZeroMQ
  /\ Receive(o) \/ HandOut(o, HeardCopies) \/ ThreadEnds(o)

\* The first sender of an address binds its port; getPublisher throws when an
\* address with another identifier has bound it.
ZeroMQGetOrStartSender(l) ==
  /\ ZeroMQ /\ \A s \in senders : s = l \/ s.host # l.host
  /\ Open(l)

\* Everyone connected to the port gets the message.
ZeroMQPublish(l, tp) ==
  ZeroMQ /\ Send(l, tp, {o \in subs : obj[o].at.host = l.host})
=============================================================================
