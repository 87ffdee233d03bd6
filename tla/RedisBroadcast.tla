--------------------------- MODULE RedisBroadcast ---------------------------
(***************************************************************************)
(* The subscriptions of RedisComponent.cpp.  There is one for each topic   *)
(* of a host, in a map of maps; the server selects the messages, and all   *)
(* listeners of the object are called.  The thread is detached.            *)
(***************************************************************************)
EXTENDS Subscriptions

Redis == kind = "redis"

RedisKey(l, f) == <<l.host, f>>

RedisGetOrStart(c, l, f) == Redis /\ FindOrMake(c, RedisKey(l, f), l, f, f)

RedisAddClient(c) ==
  /\ Redis /\ call[c].at = "adding"
  /\ IF obj[call[c].o].alive THEN Register(c) ELSE Misuse(c)

RedisRemoveClient(c, i) == Redis /\ TakeId(c, i)

\* removeSubscription and, with mutex_ held, checkWhetherNeedsToStop.
RedisRemoveSubscription(c) ==
  /\ Redis /\ call[c].at = "removing"
  /\ IF obj[call[c].o].alive THEN Drop(c) ELSE Misuse(c)

RedisCheck(c) ==
  /\ Redis /\ call[c].at = "stopping"
  /\ IF obj[call[c].o].alive THEN StopIfUnused(c) ELSE Misuse(c)

\* potentiallyStopSubscription erases the entry of the host, and with it the
\* subscriptions of all its topics, whoever listens to them.
RedisErase(c) ==
  /\ Redis /\ call[c].at = "freeing"
  /\ Free(c, {o \in subs : obj[o].at.host = obj[call[c].o].at.host})

\* run: a message for the pattern, running_ again, then the listeners.
RedisRun(o) ==
  /\ Redis
  /\ Receive(o) \/ HandOut(o, HeardCopies) \/ ThreadEnds(o)

RedisGetOrStartSender(l) == Redis /\ Open(l)

\* PUBLISH reaches the subscriptions whose pattern matches.
RedisPublish(l, tp) ==
  /\ Redis
  /\ Send(l, tp, {o \in subs : obj[o].at.host = l.host /\ Matches(obj[o].topic, tp)})
=============================================================================
