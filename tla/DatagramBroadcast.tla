------------------------- MODULE DatagramBroadcast -------------------------
(***************************************************************************)
(* MulticastComponent.cpp and SinglecastComponent.cpp, which differ in the *)
(* joining of a multicast group.  A subscription's io_service runs on a    *)
(* thread that is detached when it is made: its last handler is called     *)
(* when the socket has been closed and may find the object freed.          *)
(***************************************************************************)
EXTENDS Subscriptions

Multicast  == kind = "multicast"
Singlecast == kind = "singlecast"

\* Which object to use, or a new one with an io_service and its thread.
MulticastGetOrStart(c, l, f)  == Multicast /\ FindOrMake(c, <<l.host>>, l, f, Every)
SinglecastGetOrStart(c, l, f) == Singlecast /\ FindOrMake(c, <<l.host>>, l, f, Every)

MulticastAddSubscription(c) ==
  /\ Multicast /\ call[c].at = "adding"
  /\ IF obj[call[c].o].alive THEN Register(c) ELSE Misuse(c)

SinglecastAddSubscription(c) ==
  /\ Singlecast /\ call[c].at = "adding"
  /\ IF obj[call[c].o].alive THEN Register(c) ELSE Misuse(c)

MulticastRemoveClient(c, i)  == Multicast /\ TakeId(c, i)
SinglecastRemoveClient(c, i) == Singlecast /\ TakeId(c, i)

MulticastRemoveSubscription(c) ==
  /\ Multicast /\ call[c].at = "removing"
  /\ IF obj[call[c].o].alive THEN Drop(c) ELSE Misuse(c)

SinglecastRemoveSubscription(c) ==
  /\ Singlecast /\ call[c].at = "removing"
  /\ IF obj[call[c].o].alive THEN Drop(c) ELSE Misuse(c)

\* checkWhetherNeedsToStop, which also leaves the multicast group.
MulticastCheck(c) ==
  /\ Multicast /\ call[c].at = "stopping"
  /\ IF obj[call[c].o].alive THEN StopIfUnused(c) ELSE Misuse(c)

SinglecastCheck(c) ==
  /\ Singlecast /\ call[c].at = "stopping"
  /\ IF obj[call[c].o].alive THEN StopIfUnused(c) ELSE Misuse(c)

\* The destructor closes the socket and waits for nobody.
MulticastErase(c) ==
  Multicast /\ call[c].at = "freeing" /\ Free(c, {call[c].o})

SinglecastErase(c) ==
  Singlecast /\ call[c].at = "freeing" /\ Free(c, {call[c].o})

\* handleReceive: running_ is read once, then the listeners are called with
\* the message itself and the next receive is asked for.
MulticastHandleReceive(o) ==
  /\ Multicast
  /\ Receive(o) \/ HandOut(o, HeardMoved) \/ ThreadEnds(o)

SinglecastHandleReceive(o) ==
  /\ Singlecast
  /\ Receive(o) \/ HandOut(o, HeardMoved) \/ ThreadEnds(o)

\* The first sender also starts the one thread that serves them all.
MulticastGetOrStartSender(l)  == Multicast /\ Open(l)
SinglecastGetOrStartSender(l) == Singlecast /\ Open(l)

\* A datagram to the group, or to the one host.
MulticastPublish(l, tp) ==
  Multicast /\ Send(l, tp, {o \in subs : obj[o].at.host = l.host})

SinglecastPublish(l, tp) ==
  Singlecast /\ Send(l, tp, {o \in subs : obj[o].at.host = l.host})
=============================================================================
