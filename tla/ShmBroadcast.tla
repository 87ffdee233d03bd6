---------------------------- MODULE ShmBroadcast ----------------------------
(***************************************************************************)
(* SharedMemoryBroadcastComponent.cpp.  A subscription owns a queue in the *)
(* shared memory and is in a list of clients there; a publisher goes       *)
(* through the list and appends to each queue at its tail.  The reader     *)
(* takes all there is by turning the tail to its other head, and frees     *)
(* what it took.  The thread is detached, so th_.join() in the destructor  *)
(* throws and is ignored.                                                  *)
(***************************************************************************)
EXTENDS Subscriptions

Shm == kind = "shm"

\* The object is kept by identifier and enters the list of clients.
ShmGetOrStart(c, l, f) == Shm /\ FindOrMake(c, <<l.ident>>, l, f, Every)

ShmAddSubscription(c) ==
  /\ Shm /\ call[c].at = "adding"
  /\ IF obj[call[c].o].alive THEN Register(c) ELSE Misuse(c)

ShmRemoveClient(c, i) == Shm /\ TakeId(c, i)

ShmRemoveSubscription(c) ==
  /\ Shm /\ call[c].at = "removing"
  /\ IF obj[call[c].o].alive THEN Drop(c) ELSE Misuse(c)

ShmCheck(c) ==
  /\ Shm /\ call[c].at = "stopping"
  /\ IF obj[call[c].o].alive THEN StopIfUnused(c) ELSE Misuse(c)

\* The destructor frees the record and what is in the queue.
ShmErase(c) == Shm /\ call[c].at = "freeing" /\ Free(c, {call[c].o})

\* The reader turns to the other head and has the whole queue in hand: a
\* publisher that has read the tail before is late.
ShmTakeQueue(o) ==
  /\ Within(o) = {}
  /\ obj[o].alive /\ obj[o].running /\ ~obj[o].gone
  /\ obj[o].hand = <<>> /\ obj[o].inbox # <<>>
  /\ obj' = [obj EXCEPT ![o] = [@ EXCEPT !.hand = obj[o].inbox, !.inbox = <<>>]]
  /\ call' = [c \in Caller |->
                IF call[c].at = "publishing" /\ call[c].o = o
                THEN [call[c] EXCEPT !.at = "late"] ELSE call[c]]
  /\ UNCHANGED <<kind, subs, lock, raced, wiped, idVars, heard, sendVars, undef, backVars>>

\* handleData: one listener gets the message, several get copies; once
\* running_ is false what is left in hand is thrown away.
ShmHandleData(o) ==
  \/ obj[o].running /\ HandOut(o, HeardCopies)
  \/ /\ ~obj[o].running /\ obj[o].alive /\ obj[o].hand # <<>>
     /\ Set(o, [obj[o] EXCEPT !.hand = Tail(@)])
     /\ UNCHANGED <<heard, strayed, inside>>

ShmRun(o) ==
  /\ Shm
  /\ ShmTakeQueue(o) \/ ShmHandleData(o) \/ ThreadEnds(o)

\* A client is stale when its thread has been in the listeners' callbacks
\* for three seconds: the heartbeat is stored once for each round of run.
Stale(o) == obj[o].hand # <<>> \/ Within(o) # {} \/ obj[o].gone

\* releaseClientData frees the queue from the tail on, also when the client
\* lives and will read it.
ShmRelease(o) ==
  /\ obj' = [obj EXCEPT ![o] = [@ EXCEPT !.linked = FALSE, !.inbox = <<>>]]
  /\ strayed' = (strayed \/ obj[o].inbox # <<>>)

\* publish finds a stale client and takes it out of the list, for ever.
ShmDropStale(o) ==
  /\ Shm /\ obj[o].alive /\ obj[o].linked /\ Stale(o)
  /\ \E s \in senders : s.ident = obj[o].at.ident
  /\ ShmRelease(o)
  /\ UNCHANGED <<kind, subs, lock, raced, wiped, idVars, call, heard, sendVars, misused, backVars>>

ShmGetOrStartSender(l) == Shm /\ Open(l)

\* publish reaches a client that is not stale and reads the queue's tail.
ShmReadTail(c, o) ==
  /\ Shm /\ call[c].at = "out" /\ sent < MaxSent
  /\ \E s \in senders : s.ident = obj[o].at.ident
  /\ obj[o].alive /\ obj[o].linked
  /\ call' = [call EXCEPT ![c] = [Out EXCEPT !.at = "publishing", !.o = o]]
  /\ UNCHANGED <<kind, objVars, idVars, heard, sendVars, undef, backVars>>

\* The item goes behind the tail that was read.  When the reader has turned
\* to its other head in the meantime, that is an item the reader frees, and
\* the tail is left pointing at it.
ShmAppend(c, tp) ==
  LET o == call[c].o
  IN  /\ Shm /\ call[c].at \in {"publishing", "late"} /\ sent < MaxSent
      /\ sent' = sent + 1
      /\ call' = [call EXCEPT ![c] = Out]
      /\ strayed' = (strayed \/ call[c].at = "late" \/ ~obj[o].alive)
      /\ obj' = IF obj[o].linked
                THEN [obj EXCEPT ![o].inbox = Append(@, [topic |-> tp, body |-> sent + 1])]
                ELSE obj
      /\ UNCHANGED <<kind, subs, lock, raced, wiped, idVars, heard, senders, misused, backVars>>
=============================================================================
