---------------------------- MODULE NNGBroadcast ----------------------------
(***************************************************************************)
(* NNGComponent.cpp.  Subscriptions are kept by host and port.  After ten  *)
(* receives that time out the thread dials again on the socket that is     *)
(* still connected, and has the messages once for each connection.         *)
(***************************************************************************)
EXTENDS Subscriptions

NNG == kind = "nng"

NNGGetOrStart(c, l, f) == NNG /\ FindOrMake(c, <<l.host>>, l, f, Every)

NNGAddSubscription(c) ==
  /\ NNG /\ call[c].at = "adding"
  /\ IF obj[call[c].o].alive THEN Register(c) ELSE Misuse(c)

NNGRemoveClient(c, i) == NNG /\ TakeId(c, i)

NNGRemoveSubscription(c) ==
  /\ NNG /\ call[c].at = "removing"
  /\ IF obj[call[c].o].alive THEN Drop(c) ELSE Misuse(c)

NNGCheck(c) ==
  /\ NNG /\ call[c].at = "stopping"
  /\ IF obj[call[c].o].alive THEN StopIfUnused(c) ELSE Misuse(c)

NNGErase(c) ==
  /\ NNG /\ call[c].at = "freeing" /\ obj[call[c].o].gone
  /\ Free(c, {call[c].o})

\* Nothing came for ten timeouts: the outer loop of run dials once more.
\* (Two connections are the bound.)
NNGRedial(o) ==
  /\ obj[o].running /\ ~obj[o].gone
  /\ obj[o].hand = <<>> /\ obj[o].inbox = <<>> /\ obj[o].dials < 2
  /\ Set(o, [obj[o] EXCEPT !.dials = @ + 1])
  /\ UNCHANGED <<heard, strayed, inside>>

\* run: dial, receive, and read running_ before the listeners are called.
NNGRun(o) ==
  /\ NNG
  /\ NNGRedial(o) \/ Receive(o) \/ HandOut(o, HeardCopies) \/ ThreadEnds(o)

\* Senders are kept by port alone.
NNGGetOrStartSender(l) == NNG /\ Open(l)

NNGPublish(l, tp) ==
  NNG /\ Send(l, tp, {o \in subs : obj[o].at.host = l.host})
=============================================================================
