----------------------------- MODULE Broadcast -----------------------------
(***************************************************************************)
(* A process with one of the broadcast components in its environment: its  *)
(* importers, exporters and fetches, or its listener facility, together    *)
(* with the threads of the component.                                      *)
(***************************************************************************)
EXTENDS BroadcastListener

vars == <<subsVars, nodeVars, listenerVars>>

TypeOK == SubsTypeOK /\ NodesTypeOK /\ ListenerTypeOK

Init == SubsInit /\ NodesInit /\ ListenerInit

\* The rest of a call once it is inside the component.
CallStep(c) ==
  \/ ZeroMQAddSubscription(c) \/ ZeroMQRemoveSubscription(c) \/ ZeroMQCheck(c)
  \/ NNGAddSubscription(c) \/ NNGRemoveSubscription(c) \/ NNGCheck(c)
  \/ MulticastAddSubscription(c) \/ MulticastRemoveSubscription(c) \/ MulticastCheck(c)
  \/ SinglecastAddSubscription(c) \/ SinglecastRemoveSubscription(c) \/ SinglecastCheck(c)
  \/ RedisAddClient(c) \/ RedisRemoveSubscription(c) \/ RedisCheck(c)
  \/ ShmAddSubscription(c) \/ ShmRemoveSubscription(c) \/ ShmCheck(c)
  \/ ZeroMQErase(c) \/ NNGErase(c) \/ MulticastErase(c) \/ SinglecastErase(c)
  \/ RedisErase(c) \/ RabbitMQErase(c) \/ ShmErase(c)
  \/ RabbitMQEndsProcess(c)
  \/ WaitsForObject(c) \/ HandlerReturns(c)

ThreadStep(o) ==
  \/ ZeroMQRun(o) \/ NNGRun(o) \/ MulticastHandleReceive(o) \/ SinglecastHandleReceive(o)
  \/ RedisRun(o) \/ RabbitMQRun(o) \/ ShmRun(o)

\* Nothing is said of what follows a use of freed memory, and nothing follows
\* the end of the process.
Defined == ~misused /\ ~strayed /\ ~ended

CallNext(c) == Defined /\ CallStep(c) /\ UNCHANGED <<nodeVars, listenerVars>>

ThreadNext(o) ==
  /\ Defined /\ ThreadStep(o) /\ FetchHears /\ HandlerGoesOn
  /\ UNCHANGED <<role, want, node, controls, listenerVars>>

NodeNext(c) == Defined /\ NodeStep(c) /\ UNCHANGED listenerVars

ExporterNext == Defined /\ ExporterStep /\ UNCHANGED listenerVars

ListenerNext(c) == Defined /\ ListenerStep(c)

Next ==
  \/ \E c \in Caller : CallNext(c) \/ NodeNext(c) \/ ListenerNext(c)
  \/ \E o \in 1..Len(obj) : ThreadNext(o)
  \/ ExporterNext

\* A thread in the middle of a call or of a request goes on.
GoesOn(c) == CallNext(c) \/ (task[c].op # "idle" /\ ListenerNext(c))

\* The operating system runs every thread: those of the subscriptions, and
\* those that call the component, which get a mutex that is free again and
\* again.
Fairness ==
  /\ \A c \in Caller : SF_vars(GoesOn(c))
  /\ \A o \in 1..MaxId : WF_vars(o \in 1..Len(obj) /\ ThreadNext(o))

Spec == Init /\ [][Next]_vars /\ Fairness

\* Who holds mutex_ while it frees an object, or holds mutex_ or idMutex_ and
\* waits for an object's mutex.
Holding == {c \in Caller : lock = c \/ c \in waits}

\* The object that it waits for is in a callback that has called the facility:
\* from there the call needs what the holder has, or is the holder's own.
WaitsForCallback ==
  \E c \in Holding : \E d \in Within(call[c].o) : task[d].op # "idle"

\* Whoever holds mutex_ or idMutex_ while it waits for an object's thread or
\* mutex gets there, and everybody else can call again; but when the object
\* is in a callback that calls the facility, they may wait for each other for
\* ever.
MutexIsGivenBack ==
  Holding # {} ~> (Holding = {} \/ ~Defined \/ []WaitsForCallback)
=============================================================================
