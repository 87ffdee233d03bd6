------------------------- MODULE BroadcastListener -------------------------
(***************************************************************************)
(* The facility of MultiTransportBroadcastListener.hpp: requests to add    *)
(* and remove subscriptions come one at a time to a handler, the commands  *)
(* stop and restart on the control thread, and both call the component     *)
(* that the environment has.  While stopped, requests are only written     *)
(* down, in restartInfo_, and have no reply.                               *)
(*                                                                         *)
(* A request is handled on the thread that brings it: a thread of its own, *)
(* or that of a subscription, inside the callback of a listener.  There    *)
(* setupBroadcastListenerThroughHeartbeat adds what a heartbeat names, and *)
(* removes everything when its stopCriteria is met.                        *)
(***************************************************************************)
EXTENDS BroadcastNodes

CONSTANTS MaxAsked   \* bound: requests and commands in one behaviour

VARIABLES registered,  \* subscriptions_, as pairs of id and specification
          restartInfo, \* restartInfo_, as pairs of specification and id
          stopped,     \* stopped_
          holder,      \* who holds subscriptionsMutex_ across steps
          task,        \* what each of the two threads is doing
          asked,       \* requests and commands so far
          told,        \* the ids clients were told, and what each is for
          kept         \* specifications added that nobody asked to remove

listenerVars == <<registered, restartInfo, stopped, holder, task, asked, told, kept>>

Idle == [op |-> "idle", spec |-> CHOOSE s \in Wanted : TRUE, id |-> 0,
         specs |-> {}, ids |-> {}]
Ops == {"idle", "add", "adding", "note", "remove", "removing", "forget", "removeAll",
        "taking", "restart", "readd"}

ListenerTypeOK ==
  /\ registered \subseteq (1..MaxId) \X Wanted
  /\ restartInfo \subseteq Wanted \X (0..MaxId)
  /\ stopped \in BOOLEAN
  /\ holder \in Caller \cup {Nobody}
  /\ \A c \in Caller : /\ task[c].op \in Ops /\ task[c].spec \in Wanted
                       /\ task[c].id \in 0..MaxId
                       /\ task[c].specs \subseteq Wanted /\ task[c].ids \subseteq 1..MaxId
  /\ asked \in 0..MaxAsked
  /\ kept \subseteq Wanted /\ told \subseteq (1..MaxId) \X Wanted

ListenerInit ==
  /\ registered = {} /\ restartInfo = {} /\ stopped = FALSE /\ holder = Nobody
  /\ task = [c \in Caller |-> Idle] /\ asked = 0
  /\ told = {} /\ kept = {}

Serving(c) == role[c] \in {"handler", "control"}
Doing(c, op) == Serving(c) /\ task[c].op = op

\* A thread that has seen to a request is idle, or adds the next of the
\* subscriptions of a restart.
Onward(c) == IF role[c] = "control" THEN [task[c] EXCEPT !.op = "readd"] ELSE Idle

Quiet == UNCHANGED <<subsVars, nodeVars>>
Ask == asked < MaxAsked /\ asked' = asked + 1

\* A callback may bring the handler its next requests; it returns when they
\* have been seen to.
HandlerGoesOn ==
  \A c \in Caller : inside'[c] # inside[c] => role[c] = "handler" /\ task[c].op = "idle"

HandlerReturns(c) == Doing(c, "idle") /\ CallbackReturns(c)

--------------------------------------------------------------------------
(* Adding.                                                                 *)

\* The request: stopped_ is read before subscriptionsMutex_ is taken.
AskToAdd(c, s) ==
  /\ role[c] = "handler" /\ task[c].op = "idle" /\ Ask
  /\ task' = [task EXCEPT ![c] =
                [Idle EXCEPT !.op = IF stopped THEN "note" ELSE "add", !.spec = s]]
  /\ kept' = kept \cup {s}
  /\ Quiet /\ UNCHANGED <<registered, restartInfo, stopped, holder, told>>

\* A specification that is written down already keeps its entry.
WrittenDown(info, more) ==
  info \cup {x \in more : \A y \in info : y[1] # x[1]}

Note(c) ==
  /\ Doing(c, "note") /\ holder = Nobody
  /\ restartInfo' = WrittenDown(restartInfo, {<<task[c].spec, 0>>})
  /\ task' = [task EXCEPT ![c] = Idle]
  /\ Quiet /\ UNCHANGED <<registered, stopped, holder, asked, told, kept>>

\* The component is asked for a subscription.
Listen(c, subscribe(_, _, _)) ==
  /\ Doing(c, "add")
  /\ subscribe(c, task[c].spec.loc, task[c].spec.filter)
  /\ task' = [task EXCEPT ![c].op = "adding"]
  /\ UNCHANGED <<nodeVars, registered, restartInfo, stopped, holder, asked, told, kept>>

ListenMulticast(c)  == Listen(c, MulticastGetOrStart)
ListenRabbitMQ(c)   == Listen(c, RabbitMQAdd)
ListenRedis(c)      == Listen(c, RedisGetOrStart)
ListenZeroMQ(c)     == Listen(c, ZeroMQGetOrStart)
ListenNNG(c)        == Listen(c, NNGGetOrStart)
ListenShm(c)        == Listen(c, ShmGetOrStart)
ListenSinglecast(c) == Listen(c, SinglecastGetOrStart)

\* Fault: subscriptionsMutex_ is not taken.
Record_Unlocked(c) ==
  /\ Doing(c, "adding") /\ call[c].at = "added"
  /\ registered' = registered \cup {<<call[c].id, task[c].spec>>}
  /\ told' = IF role[c] = "handler"
               THEN told \cup {<<call[c].id, task[c].spec>>} ELSE told
  /\ call' = [call EXCEPT ![c] = Out]
  /\ task' = [task EXCEPT ![c] = Onward(c)]
  /\ UNCHANGED <<kind, objVars, idVars, heard, sendVars, undef, backVars, nodeVars,
                 restartInfo, stopped, holder, asked, kept>>

\* It has returned the id, which is recorded and sent back: after a restart
\* there is nobody to send it to.
Record(c) ==
  /\ Doing(c, "adding") /\ call[c].at = "added" /\ holder = Nobody
  /\ registered' = registered \cup {<<call[c].id, task[c].spec>>}
  /\ told' = IF role[c] = "handler"
               THEN told \cup {<<call[c].id, task[c].spec>>} ELSE told
  /\ call' = [call EXCEPT ![c] = Out]
  /\ task' = [task EXCEPT ![c] = Onward(c)]
  /\ UNCHANGED <<kind, objVars, idVars, heard, sendVars, undef, backVars, nodeVars,
                 restartInfo, stopped, holder, asked, kept>>

--------------------------------------------------------------------------
(* Removing.                                                               *)

AskToRemove(c, i) ==
  /\ role[c] = "handler" /\ task[c].op = "idle" /\ Ask
  /\ \E x \in told : x[1] = i
  /\ task' = [task EXCEPT ![c] =
                [Idle EXCEPT !.op = IF stopped THEN "forget" ELSE "remove", !.id = i]]
  /\ kept' = {s \in kept : <<i, s>> \notin told}
  /\ Quiet /\ UNCHANGED <<registered, restartInfo, stopped, holder, told>>

Forget(c) ==
  /\ Doing(c, "forget") /\ holder = Nobody
  /\ restartInfo' = {x \in restartInfo : x[2] # task[c].id}
  /\ task' = [task EXCEPT ![c] = Idle]
  /\ Quiet /\ UNCHANGED <<registered, stopped, holder, asked, told, kept>>

\* The transport of the request says which component is asked.
Unsubscribe(c, i) ==
  \/ MulticastRemoveClient(c, i) \/ SinglecastRemoveClient(c, i)
  \/ ZeroMQRemoveClient(c, i) \/ NNGRemoveClient(c, i) \/ RedisRemoveClient(c, i)
  \/ RabbitMQRemove(c, i) \/ ShmRemoveClient(c, i)

Unlisten(c) ==
  \/ /\ Doing(c, "remove")
     /\ Unsubscribe(c, task[c].id)
     /\ task' = [task EXCEPT ![c].op = "removing"]
     /\ UNCHANGED <<nodeVars, registered, restartInfo, stopped, holder, asked, told, kept>>
  \/ /\ Doing(c, "removing") /\ call[c].at = "removed" /\ holder = Nobody
     /\ registered' = {x \in registered : x[1] # task[c].id}
     /\ call' = [call EXCEPT ![c] = Out]
     /\ task' = [task EXCEPT ![c] = Idle]
     /\ UNCHANGED <<kind, objVars, idVars, heard, sendVars, undef, backVars, nodeVars,
                    restartInfo, stopped, holder, asked, told, kept>>

AskToRemoveAll(c) ==
  /\ role[c] = "handler" /\ task[c].op = "idle" /\ Ask
  /\ task' = [task EXCEPT ![c] = [Idle EXCEPT !.op = "removeAll"]]
  /\ kept' = {}
  /\ Quiet /\ UNCHANGED <<registered, restartInfo, stopped, holder, told>>

\* With subscriptionsMutex_ held throughout: give every subscription back in
\* the order of subscriptions_, write them down if stopped, and clear.
RemoveAll(c) ==
  \/ /\ Doing(c, "removeAll") /\ holder = Nobody
     /\ holder' = c
     /\ task' = [task EXCEPT ![c].op = "taking", ![c].ids = {x[1] : x \in registered}]
     /\ Quiet /\ UNCHANGED <<registered, restartInfo, stopped, asked, told, kept>>
  \/ /\ Doing(c, "taking") /\ task[c].ids # {}
     /\ \E i \in task[c].ids :
          /\ \A j \in task[c].ids : i <= j
          /\ Unsubscribe(c, i)
          /\ task' = [task EXCEPT ![c].ids = @ \ {i}]
     /\ UNCHANGED <<nodeVars, registered, restartInfo, stopped, holder, asked, told, kept>>
  \/ /\ Doing(c, "taking") /\ call[c].at = "removed"
     /\ call' = [call EXCEPT ![c] = Out]
     /\ UNCHANGED <<kind, objVars, idVars, heard, sendVars, undef, backVars, nodeVars, listenerVars>>
  \/ /\ Doing(c, "taking") /\ task[c].ids = {} /\ call[c].at = "out"
     /\ restartInfo' = IF stopped
                       THEN WrittenDown(restartInfo, {<<x[2], x[1]>> : x \in registered})
                       ELSE restartInfo
     /\ registered' = {}
     /\ holder' = Nobody
     /\ task' = [task EXCEPT ![c] = Idle]
     /\ Quiet /\ UNCHANGED <<stopped, asked, told, kept>>

--------------------------------------------------------------------------
(* stop and restart.                                                       *)

ControlListener(c) ==
  \/ /\ role[c] = "control" /\ task[c].op = "idle" /\ ~stopped /\ Ask
     /\ stopped' = TRUE
     /\ task' = [task EXCEPT ![c].op = "removeAll"]
     /\ UNCHANGED <<registered, restartInfo, holder>>
  \/ /\ role[c] = "control" /\ task[c].op = "idle" /\ stopped /\ holder = Nobody /\ Ask
     /\ task' = [task EXCEPT ![c].op = "restart", ![c].specs = {x[1] : x \in restartInfo}]
     /\ restartInfo' = {}
     /\ UNCHANGED <<registered, stopped, holder>>
  \/ /\ Doing(c, "restart")
     /\ stopped' = FALSE
     /\ task' = [task EXCEPT ![c].op = "readd"]
     /\ UNCHANGED <<registered, restartInfo, holder, asked>>
  \/ /\ Doing(c, "readd")
     /\ \/ /\ task[c].specs = {}
           /\ task' = [task EXCEPT ![c] = Idle]
        \/ \E s \in task[c].specs :
             task' = [task EXCEPT ![c].op = "add", ![c].spec = s, ![c].specs = @ \ {s}]
     /\ UNCHANGED <<registered, restartInfo, stopped, holder, asked>>

ListenerStep(c) ==
  \/ \E s \in Wanted : AskToAdd(c, s)
  \/ \E i \in 1..MaxId : AskToRemove(c, i)
  \/ AskToRemoveAll(c)
  \/ Note(c) \/ Forget(c) \/ Record(c) \/ Unlisten(c) \/ RemoveAll(c)
  \/ ListenMulticast(c) \/ ListenSinglecast(c) \/ ListenRabbitMQ(c) \/ ListenRedis(c)
  \/ ListenZeroMQ(c) \/ ListenNNG(c) \/ ListenShm(c)
  \/ ControlListener(c) /\ Quiet /\ UNCHANGED <<told, kept>>

--------------------------------------------------------------------------
(* Properties.                                                             *)

\* Nobody brings a request while another is being handled.
OneRequestAtATime ==
  \A c, d \in Caller : role[c] = "handler" /\ role[d] = "handler" => c = d

\* Whatever the facility's threads do, a listener the component has is one the
\* facility knows and can give back, and a subscription nobody asked to
\* remove is registered, or written down for the restart, or in the hands of
\* the thread that adds it, however the component's calls overlap.  (Requests
\* that overlap, to add and to remove all, have no order to keep.)
FacilityKeepsTrack ==
  (\E c \in Caller : Serving(c)) =>
    /\ \A x \in idMap : \/ \E r \in registered : r[1] = x[1]
                        \/ \E c \in Caller : call[c].at = "added" /\ call[c].id = x[1]
    /\ OneRequestAtATime =>
         \A s \in kept : \/ \E r \in registered : r[2] = s
                         \/ \E x \in restartInfo : x[1] = s
                         \/ \E c \in Caller : s \in task[c].specs
                         \/ \E c \in Caller : /\ task[c].op \in {"add", "adding", "note"}
                                              /\ task[c].spec = s
=============================================================================
