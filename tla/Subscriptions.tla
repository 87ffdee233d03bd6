--------------------------- MODULE Subscriptions ---------------------------
(***************************************************************************)
(* What the broadcast components have in common: a map subscriptions_ from *)
(* an address to a subscription object that owns a socket and a thread, a  *)
(* list of listeners in each object, and the map idToSubscriptionMap_ by   *)
(* which a listener is given back.  A call is not atomic: it takes mutex_, *)
(* idMutex_ and the object's own mutex one after the other and carries a   *)
(* bare pointer to the object from one to the next, so each critical       *)
(* section is a step here and a freed object may still be pointed at.  A   *)
(* listener runs on the object's thread and may call the component from    *)
(* there; six transports hold the object's mutex around it.                *)
(*                                                                         *)
(* The sections of each transport are in ZeroMQBroadcast, NNGBroadcast,    *)
(* DatagramBroadcast, RedisBroadcast, RabbitBroadcast and ShmBroadcast;    *)
(* this module has the state they share and the changes they make to it.   *)
(***************************************************************************)
EXTENDS Naturals, Sequences, FiniteSets, SequencesExt

CONSTANTS Caller,   \* threads that call a component
          Raw,      \* the callers whose callback moves the content out
          Host,     \* host and port of an address
          Ident,    \* identifier of an address
          Topic,
          Every,    \* NoTopicSelection: a listener with no filter
          NoTopic,  \* the topic of a message that has been moved from
          Kind,     \* the transports explored
          MaxId,    \* bound: subscriptions asked for in one behaviour
          MaxSent,  \* bound: messages published in one behaviour
          Nobody

ASSUME SubscriptionsAssumption ==
  /\ IsFiniteSet(Caller) /\ Nobody \notin Caller
  /\ MaxId \in Nat /\ MaxSent \in Nat

VARIABLES kind,     \* the transport of this behaviour
          subs,     \* subscriptions_: the objects the map owns
          obj,      \* every object ever made, freed ones included
          counter,  \* counter_
          idMap,    \* idToSubscriptionMap_, as pairs of id and object
          lock,     \* who holds mutex_ across steps (while freeing an object)
          call,     \* what each caller is in the middle of
          heard,    \* the messages each listener was called with
          senders,  \* senders_: the addresses published on
          sent,     \* messages published so far
          inside,   \* the object in whose callback a caller runs, or 0
          waits,    \* who waits for an object's mutex with another one held
          ended,    \* the process was ended by std::terminate
          misused,  \* a caller went through a pointer to a freed object
          strayed,  \* a thread went on with an object or memory that was freed
          raced,    \* an object was given up under another caller's pointer
          wiped     \* an object with listeners was freed

objVars  == <<subs, obj, lock, raced, wiped>>
idVars   == <<counter, idMap>>
sendVars == <<senders, sent>>
undef    == <<misused, strayed>>
backVars == <<inside, waits, ended>>
subsVars == <<kind, objVars, idVars, call, heard, sendVars, undef, backVars>>

Locator == [host : Host, ident : Ident]
Filter == Topic \cup {Every}
Message == [topic : Topic \cup {NoTopic}, body : 0..MaxSent]

\* A caller is outside, has a pointer to an object (adding, removing,
\* stopping), is freeing one, or has its result; publishing and late are a
\* publisher that has read the tail of a queue in shared memory.
Pointing == {"adding", "removing", "stopping"}
CallAt == Pointing \cup {"out", "freeing", "added", "removed", "publishing", "late"}
Out == [at |-> "out", o |-> 0, id |-> 0, filter |-> Every]

\* The transports whose subscription joins its thread before it is freed;
\* the others detach the thread when they make it.
Joining == {"zeromq", "nng", "rabbitmq"}

Fresh(key, l, f) ==
  [key |-> key, at |-> l, topic |-> f, clients |-> <<>>, running |-> TRUE,
   alive |-> TRUE, gone |-> FALSE, inbox |-> <<>>, hand |-> <<>>, dials |-> 1,
   linked |-> TRUE]

SubsTypeOK ==
  /\ kind \in Kind
  /\ subs \subseteq 1..Len(obj)
  /\ \A o \in 1..Len(obj) :
       /\ obj[o].at \in Locator /\ obj[o].topic \in Filter
       /\ {obj[o].running, obj[o].alive, obj[o].gone, obj[o].linked} \subseteq BOOLEAN
       /\ obj[o].inbox \in Seq(Message) /\ obj[o].hand \in Seq(Message)
       /\ obj[o].clients \in Seq([id : 1..MaxId, filter : Filter, by : Caller])
       /\ obj[o].dials \in 1..2
  /\ counter \in 0..MaxId
  /\ idMap \subseteq (1..MaxId) \X (1..Len(obj))
  /\ lock \in Caller \cup {Nobody}
  /\ call \in [Caller -> [at : CallAt, o : 0..Len(obj), id : 0..MaxId, filter : Filter]]
  /\ heard \in [1..MaxId -> Seq(Message)]
  /\ senders \subseteq Locator
  /\ sent \in 0..MaxSent
  /\ inside \in [Caller -> 0..Len(obj)] /\ waits \subseteq Caller
  /\ {misused, strayed, raced, wiped, ended} \subseteq BOOLEAN

SubsInit ==
  /\ kind \in Kind
  /\ subs = {} /\ obj = <<>> /\ counter = 0 /\ idMap = {} /\ lock = Nobody
  /\ call = [c \in Caller |-> Out]
  /\ heard = [i \in 1..MaxId |-> <<>>]
  /\ senders = {} /\ sent = 0
  /\ inside = [c \in Caller |-> 0] /\ waits = {}
  /\ misused = FALSE /\ strayed = FALSE /\ raced = FALSE /\ wiped = FALSE /\ ended = FALSE

\* What a caller may still do to an object it points at.
Holders(o) == {d \in Caller : call[d].o = o /\ call[d].at \in Pointing}

\* Who runs inside a callback of an object, and whether its mutex is held
\* there: RabbitMQ has none.
Within(o) == {c \in Caller : inside[c] = o}
Busy(o) == kind # "rabbitmq" /\ Within(o) # {}

\* Nobody else holds mutex_ (at "stopping") or idMutex_ (at "adding") and
\* waits for an object's mutex.
NoneWaits(c, at) == \A d \in waits \ {c} : call[d].at # at

\* A subscription may be asked for (the bound MaxId).
Room == counter + Cardinality({c \in Caller : call[c].at = "adding"}) < MaxId

Go(c, at) == call' = [call EXCEPT ![c].at = at]
Back(c, at) == call' = [call EXCEPT ![c] = [Out EXCEPT !.at = at, !.id = call[c].id]]

--------------------------------------------------------------------------
(* Subscribing.                                                            *)

\* Under mutex_, find the object of a key or make one, and point at it.
FindOrMake(c, key, l, f, topic) ==
  LET found == {o \in subs : obj[o].key = key}
      enter(o) == call' = [call EXCEPT ![c] =
                    [at |-> "adding", o |-> o, id |-> 0, filter |-> f]]
  IN  /\ call[c].at = "out" /\ lock = Nobody /\ NoneWaits(c, "stopping") /\ Room
      /\ \/ /\ \E o \in found : enter(o)
            /\ UNCHANGED <<subs, obj>>
         \/ /\ found = {}
            /\ obj' = Append(obj, Fresh(key, l, topic))
            /\ subs' = subs \cup {Len(obj) + 1}
            /\ enter(Len(obj) + 1)
      /\ UNCHANGED <<kind, idVars, lock, heard, sendVars, undef, raced, wiped, backVars>>

\* A caller goes through a pointer to a freed object.
Misuse(c) ==
  /\ misused' = TRUE
  /\ UNCHANGED <<kind, objVars, idVars, call, heard, sendVars, strayed, backVars>>

\* A caller that has taken idMutex_ to add a listener, or mutex_ to see whether
\* the object must stop, finds the object's mutex taken and keeps what it has.
WaitsForObject(c) ==
  /\ \/ call[c].at = "adding" /\ NoneWaits(c, "adding")
     \/ call[c].at = "stopping" /\ lock = Nobody /\ NoneWaits(c, "stopping")
  /\ Busy(call[c].o) /\ obj[call[c].o].alive /\ c \notin waits
  /\ waits' = waits \cup {c}
  /\ UNCHANGED <<kind, objVars, idVars, call, heard, sendVars, undef, inside, ended>>

\* Under idMutex_, draw an id, put the listener into the object's list and
\* remember where it is.
Register(c) ==
  LET o == call[c].o
      i == counter + 1
  IN  /\ NoneWaits(c, "adding") /\ ~Busy(o)
      /\ waits' = waits \ {c}
      /\ counter' = i
      /\ obj' = [obj EXCEPT ![o].clients =
                   Append(@, [id |-> i, filter |-> call[c].filter, by |-> c])]
      /\ idMap' = idMap \cup {<<i, o>>}
      /\ call' = [call EXCEPT ![c] = [Out EXCEPT !.at = "added", !.id = i]]
      /\ UNCHANGED <<kind, subs, lock, raced, wiped, heard, sendVars, undef, inside, ended>>

--------------------------------------------------------------------------
(* Giving a listener back.                                                 *)

\* Under idMutex_: whoever takes the id out of the map removes the listener.
TakeId(c, i) ==
  /\ call[c].at = "out" /\ NoneWaits(c, "adding")
  /\ LET found == {x \in idMap : x[1] = i}
     IN  /\ idMap' = idMap \ found
         /\ \/ /\ found = {}
               /\ call' = [call EXCEPT ![c] = [Out EXCEPT !.at = "removed", !.id = i]]
            \/ \E x \in found :
                 call' = [call EXCEPT ![c] =
                            [Out EXCEPT !.at = "removing", !.o = x[2], !.id = i]]
  /\ UNCHANGED <<kind, objVars, counter, heard, sendVars, undef, backVars>>

\* The list without the listener of an id, which is there at most once.
Without(clients, i) ==
  IF \E n \in DOMAIN clients : clients[n].id = i
  THEN RemoveAt(clients, CHOOSE n \in DOMAIN clients : clients[n].id = i)
  ELSE clients

\* Fault: potentiallyStopSubscription is not called.
Drop_NoStop(c) ==
  /\ ~Busy(call[c].o)
  /\ obj' = [obj EXCEPT ![call[c].o].clients = Without(@, call[c].id)]
  /\ Back(c, "removed")
  /\ UNCHANGED <<kind, subs, lock, raced, wiped, idVars, heard, sendVars, undef, backVars>>

\* The listener leaves the object's list.
Drop(c) ==
  /\ ~Busy(call[c].o)
  /\ obj' = [obj EXCEPT ![call[c].o].clients = Without(@, call[c].id)]
  /\ Go(c, "stopping")
  /\ UNCHANGED <<kind, subs, lock, raced, wiped, idVars, heard, sendVars, undef, backVars>>

\* With mutex_ held, an object without listeners is told to stop.
StopIfUnused(c) ==
  /\ lock = Nobody /\ NoneWaits(c, "stopping") /\ ~Busy(call[c].o)
  /\ waits' = waits \ {c}
  /\ IF obj[call[c].o].clients = <<>>
     THEN /\ obj' = [obj EXCEPT ![call[c].o].running = FALSE]
          /\ lock' = c
          /\ Go(c, "freeing")
          /\ raced' = (raced \/ Holders(call[c].o) # {c})
     ELSE /\ Back(c, "removed")
          /\ UNCHANGED <<obj, lock, raced>>
  /\ UNCHANGED <<kind, subs, wiped, idVars, heard, sendVars, undef, inside, ended>>

\* The map gives up the objects of D and their destructors run; then the
\* caller lets go of mutex_.
Free(c, D) ==
  /\ subs' = subs \ D
  /\ obj' = [o \in 1..Len(obj) |->
               IF o \in D THEN [obj[o] EXCEPT !.running = FALSE, !.alive = FALSE,
                                              !.clients = <<>>, !.inbox = <<>>]
               ELSE obj[o]]
  /\ raced' = (raced \/ \E o \in D : Holders(o) # {})
  /\ wiped' = (wiped \/ \E o \in D : obj[o].clients # <<>>)
  /\ lock' = Nobody
  /\ Back(c, "removed")
  /\ UNCHANGED <<kind, idVars, heard, sendVars, undef, backVars>>

--------------------------------------------------------------------------
(* The thread of a subscription.                                           *)

\* What the thread does when it is not in a callback.
Set(o, x) ==
  /\ Within(o) = {}
  /\ obj' = [obj EXCEPT ![o] = x]
  /\ UNCHANGED <<kind, subs, lock, raced, wiped, idVars, call, sendVars, misused, waits, ended>>

\* The thread takes one message off the socket and finds running_ still true.
Receive(o) ==
  /\ obj[o].alive /\ obj[o].running /\ ~obj[o].gone
  /\ obj[o].hand = <<>> /\ obj[o].inbox # <<>>
  /\ Set(o, [obj[o] EXCEPT !.hand = <<Head(obj[o].inbox)>>, !.inbox = Tail(@)])
  /\ UNCHANGED <<heard, strayed, inside>>

Matches(f, topic) == f = Every \/ f = topic

\* Every listener whose filter matches is called with a copy of its own.
HeardCopies(o, m) ==
  LET called == {x.id : x \in {y \in Range(obj[o].clients) : Matches(y.filter, m.topic)}}
  IN  [i \in 1..MaxId |-> IF i \in called THEN Append(heard[i], m) ELSE heard[i]]

\* What one callback leaves of the message for the next one.
MovedFrom(m, c) == [topic |-> NoTopic, body |-> IF c \in Raw THEN 0 ELSE m.body]

\* The listeners are called one after the other with the message itself,
\* those with no filter first; one that decodes the content does nothing
\* with a message whose content is gone.
HeardMoved(o, m) ==
  LET filtered(x) == x.filter # Every
      order == SelectSeq(obj[o].clients, LAMBDA x : ~filtered(x))
                 \o SelectSeq(obj[o].clients, filtered)
      tell(s, x) == IF Matches(x.filter, s.m.topic) /\ (x.by \in Raw \/ s.m.body # 0)
                    THEN [m |-> MovedFrom(s.m, x.by),
                          heard |-> [s.heard EXCEPT ![x.id] = Append(@, s.m)]]
                    ELSE s
  IN  FoldLeft(tell, [m |-> m, heard |-> heard], order).heard

\* A listener that was called may go on from there as a caller.
CallbackGoesOn(o) ==
  \/ inside' = inside
  \/ /\ heard' # heard
     /\ \E c \in Caller : /\ call[c].at = "out" /\ inside[c] = 0
                         /\ inside' = [inside EXCEPT ![c] = o]

\* The thread takes the object's mutex and calls the listeners.
HandOut(o, heardAfter(_, _)) ==
  /\ obj[o].alive /\ obj[o].hand # <<>>
  /\ heard' = heardAfter(o, Head(obj[o].hand))
  /\ Set(o, [obj[o] EXCEPT !.hand = Tail(@)])
  /\ CallbackGoesOn(o)
  /\ UNCHANGED strayed

\* The last callback returns, and the object's mutex is given back.
CallbackReturns(c) ==
  /\ inside[c] # 0 /\ call[c].at = "out"
  /\ inside' = [inside EXCEPT ![c] = 0]
  /\ UNCHANGED <<kind, objVars, idVars, call, heard, sendVars, undef, waits, ended>>

\* Fault: no receive timeout, so that only a message wakes the thread.
ThreadEnds_NoTimeout(o) ==
  /\ ~obj[o].running /\ ~obj[o].gone /\ obj[o].inbox # <<>>
  /\ obj[o].hand = <<>> \/ ~obj[o].alive
  /\ Set(o, [obj[o] EXCEPT !.gone = TRUE, !.hand = <<>>])
  /\ strayed' = (strayed \/ ~obj[o].alive)
  /\ UNCHANGED <<heard, inside>>

\* The thread sees that running_ is false and ends; a detached one may come
\* to look when the object has been freed.
ThreadEnds(o) ==
  /\ ~obj[o].running /\ ~obj[o].gone
  /\ obj[o].hand = <<>> \/ ~obj[o].alive
  /\ Set(o, [obj[o] EXCEPT !.gone = TRUE, !.hand = <<>>])
  /\ strayed' = (strayed \/ ~obj[o].alive)
  /\ UNCHANGED <<heard, inside>>

\* Under mutex_, a sender for an address.
Open(l) ==
  /\ lock = Nobody /\ NoneWaits(Nobody, "stopping")
  /\ senders' = senders \cup {l}
  /\ UNCHANGED <<kind, objVars, idVars, call, heard, sent, undef, backVars>>

\* A message on address l, in the inbox of each object of To that the network
\* brings it to, once for each connection.
Send(l, tp, To) ==
  /\ l \in senders /\ sent < MaxSent
  /\ sent' = sent + 1
  /\ \E got \in SUBSET To :
       obj' = [o \in 1..Len(obj) |->
                 IF o \in got
                 THEN [obj[o] EXCEPT !.inbox = @ \o
                        [n \in 1..obj[o].dials |-> [topic |-> tp, body |-> sent + 1]]]
                 ELSE obj[o]]
  /\ UNCHANGED <<kind, subs, lock, raced, wiped, idVars, call, heard, senders, undef, backVars>>

--------------------------------------------------------------------------
(* Properties.                                                             *)

\* Unless an object was freed under somebody's pointer (two calls that
\* overlap) or with listeners in it (potentiallyStopSubscription of Redis),
\* idToSubscriptionMap_ and subscriptions_ agree: each id names an object the
\* map owns, whose thread runs and whose list has that listener once; no two
\* objects have one key; and an object with no listener is being dealt with.
RegistryConsistent ==
  raced \/ wiped \/
    /\ \A x \in idMap :
         /\ x[2] \in subs /\ obj[x[2]].running
         /\ Cardinality({n \in DOMAIN obj[x[2]].clients : obj[x[2]].clients[n].id = x[1]}) = 1
    /\ \A o, p \in subs : obj[o].key = obj[p].key => o = p
    /\ \A o \in subs : obj[o].clients # <<>> \/ Holders(o) # {} \/ lock # Nobody

\* A caller goes through a freed pointer only when calls overlapped or an
\* object in use was freed; and where the destructor joins the thread, the
\* thread never meets a freed object, however the calls overlap.
FreedIsNotUsed ==
  /\ misused => raced \/ wiped
  /\ kind \in Joining => ~strayed

\* A listener that came later to an object with the same filter has heard a
\* suffix of what the earlier one has: no callback takes the message away
\* from the next.  Multicast and singlecast move the message into each
\* callback and do not have this.
LaterListenerHearsASuffix ==
  kind \notin {"multicast", "singlecast"} =>
    \A o \in subs : \A p, q \in 1..Len(obj[o].clients) :
      p < q /\ obj[o].clients[p].filter = obj[o].clients[q].filter
        => IsSuffix(heard[obj[o].clients[q].id], heard[obj[o].clients[p].id])
=============================================================================
