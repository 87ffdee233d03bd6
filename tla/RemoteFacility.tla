--------------------------- MODULE RemoteFacility ---------------------------
(***************************************************************************)
(* The multi-transport remote facility (MultiTransportRemoteFacility):     *)
(* one object for each facility name of a client program, with the         *)
(* senders that register and deregister commands change and that requests  *)
(* are sent through, and the client tables of the transport components     *)
(* these commands reach into.                                              *)
(*                                                                         *)
(* A command takes several steps, each under a mutex of the facility or of *)
(* the component, none of which is held in between; several threads may    *)
(* execute commands at the same time.  Transports differ in what the       *)
(* component keeps of a client:                                            *)
(*   "numbered"   RabbitMQ, Redis, WebSocket: numbered clients that share  *)
(*                a connection, which goes with the last of them           *)
(*   "exclusive"  SocketRPC: one client a locator, a second one is refused *)
(*   "shared"     gRPC: one client a locator, given to whoever asks        *)
(*   "none"       JSON REST: nothing                                       *)
(***************************************************************************)
EXTENDS Naturals, FiniteSets

CONSTANTS
  Thread,      \* the threads that execute commands
  Name,        \* the facilities of the program, one object each
  Locator,     \* where servers are reached (connection locators)
  Kinds        \* the transports to consider

ASSUME FacilityAssumption ==
  Kinds \subseteq {"numbered", "exclusive", "shared", "none"}

VARIABLES
  kind,                \* the transport of all the locators, never changed
  underlyingSenders,   \* of each facility, its senders
  senderMap,           \* of each facility, the locators with an entry (in the
                       \* code it points to the sender it was inserted with)
  clientNumberRecord,  \* of each facility, from locators to client numbers
  connected,           \* component: the locators with a client (connection)
  clients,             \* component: the client numbers of each connection
  clientCounter,       \* component: the last number given
  action,              \* what each thread executes
  pc,                  \* how far it is
  number,              \* the client number it was given, or took
  alive,               \* whether the client it was given is still there
  newSize,             \* the size it is about to publish
  published            \* of each facility, the last size published

facility == <<underlyingSenders, senderMap, clientNumberRecord>>
component == <<connected, clients, clientCounter>>
vars == <<kind, facility, component, action, pc, number, alive, newSize, published>>

Action == [type : {"Register", "Deregister"}, name : Name, locator : Locator]
NoAction == [type |-> "None"]

\* A sender: where it leads, the number of its client, and whether that
\* client is still there.  The code has a list of them, whose order nothing
\* depends on; copy tells apart those that lead to the same locator.
Sender == [locator : Locator, number : Nat, alive : BOOLEAN, copy : Nat]

Status == {"idle", "set", "add", "push", "take", "remove", "erase", "publish"}

TypeOK ==
  /\ kind \in Kinds
  /\ underlyingSenders \in [Name -> SUBSET Sender]
  /\ \A f \in Name : IsFiniteSet(underlyingSenders[f])
  /\ senderMap \in [Name -> SUBSET Locator]
  /\ clientNumberRecord \in [Name -> [Locator -> Nat]]
  /\ connected \subseteq Locator
  /\ clients \in [Locator -> SUBSET Nat]
  /\ clientCounter \in [Locator -> Nat]
  /\ action \in [Thread -> Action \cup {NoAction}]
  /\ pc \in [Thread -> Status]
  /\ \A t \in Thread : pc[t] = "idle" <=> action[t] = NoAction
  /\ number \in [Thread -> Nat]
  /\ alive \in [Thread -> BOOLEAN]
  /\ newSize \in [Thread -> Nat]
  /\ published \in [Name -> Nat]

Init ==
  /\ kind \in Kinds
  /\ underlyingSenders = [f \in Name |-> {}]
  /\ senderMap = [f \in Name |-> {}]
  /\ clientNumberRecord = [f \in Name |-> [l \in Locator |-> 0]]
  /\ connected = {}
  /\ clients = [l \in Locator |-> {}]
  /\ clientCounter = [l \in Locator |-> 0]
  /\ action = [t \in Thread |-> NoAction]
  /\ pc = [t \in Thread |-> "idle"]
  /\ number = [t \in Thread |-> 0]
  /\ alive = [t \in Thread |-> FALSE]
  /\ newSize = [t \in Thread |-> 0]
  /\ published = [f \in Name |-> 0]

Goto(t, where) == pc' = [pc EXCEPT ![t] = where]
SendersTo(f, l) == {s \in underlyingSenders[f] : s.locator = l}

\* actuallyHandleFacilityAction: thread t begins to execute a.
Handle(t, a) ==
  /\ pc[t] = "idle"
  /\ action' = [action EXCEPT ![t] = a]
  /\ Goto(t, IF a.type = "Register" THEN "set"
             ELSE CASE kind = "numbered" -> "take"
                    [] kind \in {"exclusive", "shared"} -> "remove"
                    [] kind = "none" -> "erase")
  /\ UNCHANGED <<kind, facility, component, number, alive, newSize, published>>

-----------------------------------------------------------------------------
\* registerFacility asks the component for a client.  With numbers, a
\* connection is found or made first.
Given(t) ==
  /\ alive' = [alive EXCEPT ![t] = TRUE]
  /\ number' = [number EXCEPT ![t] = 0]

CreateConnection(t) ==
  /\ pc[t] = "set" /\ kind = "numbered"
  /\ LET l == action[t].locator IN
       /\ connected' = connected \cup {l}
       /\ IF l \in connected THEN UNCHANGED <<clients, clientCounter>>
          ELSE /\ clients' = [clients EXCEPT ![l] = {}]
               /\ clientCounter' = [clientCounter EXCEPT ![l] = 0]
  /\ Given(t)
  /\ Goto(t, "add")
  /\ UNCHANGED <<kind, facility, action, newSize, published>>

\* addClient on that connection.  If it was destroyed in between, the
\* client is written into freed memory, and lost.
AddClient(t) ==
  /\ pc[t] = "add"
  /\ LET l == action[t].locator IN
       IF alive[t]
       THEN /\ clientCounter' = [clientCounter EXCEPT ![l] = @ + 1]
            /\ clients' = [clients EXCEPT ![l] = @ \cup {clientCounter'[l]}]
            /\ number' = [number EXCEPT ![t] = clientCounter'[l]]
       ELSE UNCHANGED <<clientCounter, clients, number>>
  /\ Goto(t, "push")
  /\ UNCHANGED <<kind, facility, connected, action, alive, newSize, published>>

\* Without numbers it is one step.
SetClient(t) ==
  /\ pc[t] = "set" /\ kind # "numbered"
  /\ kind = "exclusive" => action[t].locator \notin connected
  /\ connected' = IF kind = "none" THEN connected
                  ELSE connected \cup {action[t].locator}
  /\ Given(t)
  /\ Goto(t, "push")
  /\ UNCHANGED <<kind, facility, clients, clientCounter, action, newSize, published>>

\* Or an exception, "Cannot create duplicate RPC client connection", which is
\* logged; nothing is registered, and the size published is 0.
SetClientFails(t) ==
  /\ pc[t] = "set" /\ kind = "exclusive"
  /\ action[t].locator \in connected
  /\ newSize' = [newSize EXCEPT ![t] = 0]
  /\ Goto(t, "publish")
  /\ UNCHANGED <<kind, facility, component, action, number, alive, published>>

\* What becomes of (newSize, true) in a tuple declared as (bool, size_t).
AsBool(size) == IF size = 0 THEN 0 ELSE 1

\* Under the facility's mutex, the sender is appended; an entry of the map
\* is inserted, unless there is one.
PushSender(t) ==
  /\ pc[t] = "push"
  /\ LET l == action[t].locator
         f == action[t].name
         s == [locator |-> l, number |-> number[t], alive |-> alive[t],
               copy |-> Cardinality(SendersTo(f, l))]
     IN /\ underlyingSenders' = [underlyingSenders EXCEPT ![f] = @ \cup {s}]
        /\ senderMap' = [senderMap EXCEPT ![f] = @ \cup {l}]
        /\ clientNumberRecord' =
             IF kind = "numbered"
             THEN [clientNumberRecord EXCEPT ![f][l] = number[t]]
             ELSE clientNumberRecord
        /\ newSize' =
             [newSize EXCEPT ![t] = AsBool(Cardinality(underlyingSenders'[f]))]
  /\ Goto(t, "publish")
  /\ UNCHANGED <<kind, component, action, number, alive, published>>

-----------------------------------------------------------------------------
\* deregisterFacility, with numbers: the number on record is taken, or 0.
TakeNumber(t) ==
  /\ pc[t] = "take"
  /\ LET l == action[t].locator
         f == action[t].name
     IN /\ number' = [number EXCEPT ![t] = clientNumberRecord[f][l]]
        /\ clientNumberRecord' = [clientNumberRecord EXCEPT ![f][l] = 0]
  /\ Goto(t, "remove")
  /\ UNCHANGED <<kind, underlyingSenders, senderMap, component, action, alive,
                 newSize, published>>

\* A client or connection is destroyed: whoever holds a pointer to it, in a
\* sender or on its way to one, holds it in vain.
Destroy(l) ==
  /\ connected' = connected \ {l}
  /\ underlyingSenders' =
       [f \in Name |-> {[s EXCEPT !.alive = @ /\ s.locator # l] :
                          s \in underlyingSenders[f]}]
  /\ alive' = [t \in Thread |->
                 alive[t] /\ (action[t] # NoAction => action[t].locator # l)]

\* removeRPCClient of the component.
RemoveClient(t) ==
  /\ pc[t] = "remove"
  /\ LET l == action[t].locator
         left == clients[l] \ {number[t]}
     IN /\ IF l \in connected /\ (kind = "numbered" => left = {})
           THEN Destroy(l)
           ELSE UNCHANGED <<connected, underlyingSenders, alive>>
        /\ clients' = IF l \in connected THEN [clients EXCEPT ![l] = left]
                      ELSE clients
  /\ Goto(t, "erase")
  /\ UNCHANGED <<kind, senderMap, clientNumberRecord, clientCounter, action,
                 number, newSize, published>>

\* Fault: one sender is removed, not all that lead to the locator.
EraseSenders_First(t) ==
  /\ pc[t] = "erase"
  /\ LET l == action[t].locator
         f == action[t].name
     IN /\ underlyingSenders' =
             [underlyingSenders EXCEPT ![f] = {s \in @ : s.locator # l \/ s.copy # 0}]
        /\ senderMap' = [senderMap EXCEPT ![f] = @ \ {l}]
        /\ newSize' = [newSize EXCEPT ![t] = Cardinality(underlyingSenders'[f])]
  /\ Goto(t, "publish")
  /\ UNCHANGED <<kind, clientNumberRecord, component, action, number, alive, published>>

\* Fault: only the entry of the map is removed.
EraseSenders_MapOnly(t) ==
  /\ pc[t] = "erase"
  /\ LET l == action[t].locator
         f == action[t].name
     IN /\ senderMap' = [senderMap EXCEPT ![f] = @ \ {l}]
        /\ newSize' = [newSize EXCEPT ![t] = Cardinality(underlyingSenders[f])]
  /\ Goto(t, "publish")
  /\ UNCHANGED <<kind, underlyingSenders, clientNumberRecord, component, action,
                 number, alive, published>>

\* Under the facility's mutex again, the map's entry goes and with it all
\* the senders to the locator.
EraseSenders(t) ==
  /\ pc[t] = "erase"
  /\ LET l == action[t].locator
         f == action[t].name
     IN /\ underlyingSenders' =
             [underlyingSenders EXCEPT ![f] = @ \ SendersTo(f, l)]
        /\ senderMap' = [senderMap EXCEPT ![f] = @ \ {l}]
        /\ newSize' = [newSize EXCEPT ![t] = Cardinality(underlyingSenders'[f])]
  /\ Goto(t, "publish")
  /\ UNCHANGED <<kind, clientNumberRecord, component, action, number, alive, published>>

-----------------------------------------------------------------------------
\* The size is published, and the command is done.
Publish(t) ==
  /\ pc[t] = "publish"
  /\ published' = [published EXCEPT ![action[t].name] = newSize[t]]
  /\ action' = [action EXCEPT ![t] = NoAction]
  /\ Goto(t, "idle")
  /\ number' = [number EXCEPT ![t] = 0]
  /\ alive' = [alive EXCEPT ![t] = FALSE]
  /\ newSize' = [newSize EXCEPT ![t] = 0]
  /\ UNCHANGED <<kind, facility, component>>

Step(t) ==
  \/ CreateConnection(t) \/ AddClient(t) \/ SetClient(t) \/ SetClientFails(t)
  \/ PushSender(t)
  \/ TakeNumber(t) \/ RemoveClient(t) \/ EraseSenders(t)
  \/ Publish(t)

Next == \E t \in Thread : Step(t) \/ \E a \in Action : Handle(t, a)

\* The facility under commands from anywhere, in any order.
Spec == Init /\ [][Next]_vars

-----------------------------------------------------------------------------
\* The senders actuallyHandleInput may give a request to: any of them under
\* the Random strategy; else the one the map has for the locator asked for,
\* which is one of them too (MapPointsToSenders).
Receivers(f) == underlyingSenders[f]

\* The map and the senders agree, though an insert keeps the first sender's
\* entry when there are several: no entry points to a sender that was
\* erased, and no sender is without an entry (senderMap_).
MapPointsToSenders ==
  \A f \in Name : senderMap[f] = {s.locator : s \in underlyingSenders[f]}
=============================================================================
