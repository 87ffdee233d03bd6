-------------------------- MODULE FacilityDiscovery --------------------------
(***************************************************************************)
(* Remote facilities set up from heartbeats: servers that come and go, the *)
(* converter that makes commands of their heartbeats and of their silence  *)
(* (HeartbeatMessageToRemoteFacilityCommandConverter), and the remote      *)
(* facilities (module RemoteFacility) that execute these commands, wired   *)
(* as setupNonDistinguishedRemoteFacilities of                             *)
(* MultiTransportRemoteFacilityManagingUtils wires them.                   *)
(*                                                                         *)
(* The converter computes its commands under a mutex, but the thread that  *)
(* brought the heartbeat, or the timer's, delivers them after it has given *)
(* the mutex back, one by one and each to the end.  So the commands of one *)
(* thread can overtake those of another.                                   *)
(*                                                                         *)
(* A server is one run of a server program, known by the uuid in its       *)
(* heartbeats; a restarted program is another server, often at the same    *)
(* locators.  Heartbeats are broadcast and may be lost, late, or not yet   *)
(* tell of all the facilities: a server is gone when the last one that     *)
(* will arrive has arrived.  Time is left open: the timer may find any     *)
(* good server silent for longer than ttl_.  A heartbeat of a program      *)
(* whose name does not match the regular expression is ignored and not     *)
(* modelled, nor is that of a server that is good already: it only renews  *)
(* the server's last good time.                                            *)
(***************************************************************************)
EXTENDS RemoteFacility, Sequences, SequencesExt

CONSTANTS
  Server,            \* the uuids
  LocatorOf,         \* from servers and names to locators
  Names,             \* the names in the order in which they are wired
  HeartbeatThread,   \* the threads that bring heartbeats
  TimerThread,       \* the thread of the check timer
  MaxGood            \* how often a server is found good (bound)

ASSUME DiscoveryAssumption ==
  /\ IsFiniteSet(Server) /\ IsFiniteSet(Name)
  /\ LocatorOf \in [Server -> [Name -> Locator]]
  /\ \A s, r \in Server, f, g \in Name :
       LocatorOf[s][f] = LocatorOf[r][g] => f = g
  /\ Names \in [1..Cardinality(Name) -> Name]
  /\ \A f \in Name : \E i \in 1..Len(Names) : Names[i] = f
  /\ HeartbeatThread \subseteq Thread /\ TimerThread \subseteq Thread
  /\ MaxGood \in Nat

VARIABLES
  gone,      \* the servers that will not be heard any more
  infos,     \* serverInfos_: "unknown" (no entry), "incomplete", or "good"
  queue,     \* the commands each thread has to deliver
  goods,     \* how often a server was found good
  crossed    \* history: where (facility and locator) a Register and a
             \* Deregister were under way in two threads at the same time

discovery == <<infos, queue, goods, crossed>>
dvars == <<vars, gone, discovery>>

DiscoveryTypeOK ==
  /\ TypeOK
  /\ gone \subseteq Server
  /\ infos \in [Server -> {"unknown", "incomplete", "good"}]
  /\ queue \in [Thread -> Seq(Action)]
  /\ goods \in 0..MaxGood
  /\ crossed \subseteq Name \X Locator

DInit ==
  /\ Init
  /\ gone = {}
  /\ infos = [s \in Server |-> "unknown"]
  /\ queue = [t \in Thread |-> <<>>]
  /\ goods = 0
  /\ crossed = {}

Idle(t) == pc[t] = "idle" /\ queue[t] = <<>>

\* hasSameInfo
HasSameInfo(s, r) == \A f \in Name : LocatorOf[s][f] = LocatorOf[r][f]

-----------------------------------------------------------------------------
\* A server ends, or is cut off.
End(s) ==
  /\ s \notin gone
  /\ gone' = gone \cup {s}
  /\ UNCHANGED <<vars, discovery>>

\* The commands of one type for one server, in the order of delivery.
Commands(type, s) ==
  [i \in 1..Len(Names) |->
     [type |-> type, name |-> Names[i], locator |-> LocatorOf[s][Names[i]]]]

Opposite(a, b) == a = [b EXCEPT !.type = IF @ = "Register" THEN "Deregister"
                                         ELSE "Register"]

\* The commands a thread has not finished.
Pending(t) == {queue[t][i] : i \in 1..Len(queue[t])}
              \cup (IF pc[t] = "idle" THEN {} ELSE {action[t]})

\* Thread t gets the commands of list to deliver.
Deliver(t, list) ==
  /\ queue' = [queue EXCEPT ![t] = list]
  /\ LET others == UNION {Pending(u) : u \in Thread \ {t}}
         met == {a \in others : \E i \in 1..Len(list) : Opposite(a, list[i])}
     IN crossed' = crossed \cup {<<a.name, a.locator>> : a \in met}

\* A heartbeat arrives from a server that is not good.
Arrives(t, s) ==
  /\ t \in HeartbeatThread /\ Idle(t)
  /\ s \notin gone
  /\ infos[s] # "good"

\* handleHeartbeat, when the message does not tell of all the facilities.
HeartbeatIncomplete(t, s) ==
  /\ Arrives(t, s)
  /\ infos' = [infos EXCEPT ![s] = "incomplete"]
  /\ UNCHANGED <<vars, gone, queue, goods, crossed>>

\* Fault: the servers that the new one replaces are forgotten, but not
\* deregistered.
HeartbeatGood_NoDeregister(t, s) ==
  /\ Arrives(t, s)
  /\ goods < MaxGood
  /\ goods' = goods + 1
  /\ LET duplicates == {d \in Server \ {s} : infos[d] = "good" /\ HasSameInfo(d, s)}
     IN /\ infos' = [d \in Server |-> IF d = s THEN "good"
                                      ELSE IF d \in duplicates THEN "unknown"
                                      ELSE infos[d]]
        /\ Deliver(t, Commands("Register", s))
  /\ UNCHANGED <<vars, gone>>

\* handleHeartbeat that finds the server good: servers with the same
\* information are replaced by it.
HeartbeatGood(t, s) ==
  /\ Arrives(t, s)
  /\ goods < MaxGood
  /\ goods' = goods + 1
  /\ LET duplicates == {d \in Server \ {s} : infos[d] = "good" /\ HasSameInfo(d, s)}
     IN /\ infos' = [d \in Server |-> IF d = s THEN "good"
                                      ELSE IF d \in duplicates THEN "unknown"
                                      ELSE infos[d]]
        /\ Deliver(t, (IF duplicates = {} THEN <<>> ELSE Commands("Deregister", s))
                      \o Commands("Register", s))
  /\ UNCHANGED <<vars, gone>>

\* Fault: the expired servers are not forgotten.
Timer_Keep(t) ==
  /\ t \in TimerThread /\ Idle(t)
  /\ \E silent \in (SUBSET {s \in Server : infos[s] = "good"}) \ {{}} :
     \E order \in SetToSeqs(silent) :
       /\ Deliver(t, FlattenSeq([i \in DOMAIN order |-> Commands("Deregister", order[i])]))
  /\ UNCHANGED <<vars, gone, infos, goods>>

\* Fault: the expired servers are forgotten, but not deregistered.
Timer_Forget(t) ==
  /\ t \in TimerThread /\ Idle(t)
  /\ \E silent \in (SUBSET {s \in Server : infos[s] = "good"}) \ {{}} :
       infos' = [s \in Server |-> IF s \in silent THEN "unknown" ELSE infos[s]]
  /\ UNCHANGED <<vars, gone, queue, goods, crossed>>

\* handleTimer: the good servers that have been silent for too long, in the
\* order of the hash table, are deregistered and forgotten.
Timer(t) ==
  /\ t \in TimerThread /\ Idle(t)
  /\ \E silent \in (SUBSET {s \in Server : infos[s] = "good"}) \ {{}} :
     \E order \in SetToSeqs(silent) :
       /\ Deliver(t, FlattenSeq([i \in DOMAIN order |-> Commands("Deregister", order[i])]))
       /\ infos' = [s \in Server |-> IF s \in silent THEN "unknown" ELSE infos[s]]
  /\ UNCHANGED <<vars, gone, goods>>

\* The next command goes to its facility.
DeliverNext(t) ==
  /\ queue[t] # <<>>
  /\ Handle(t, Head(queue[t]))
  /\ queue' = [queue EXCEPT ![t] = Tail(@)]
  /\ UNCHANGED <<gone, infos, goods, crossed>>

Execute(t) ==
  /\ Step(t)
  /\ UNCHANGED <<gone, discovery>>

DNext ==
  \/ \E s \in Server : End(s)
  \/ \E t \in Thread, s \in Server : HeartbeatIncomplete(t, s) \/ HeartbeatGood(t, s)
  \/ \E t \in Thread : Timer(t) \/ DeliverNext(t) \/ Execute(t)

DSpec == DInit /\ [][DNext]_dvars

\* Threads go on with what they have; a server that is not gone is heard
\* again and again, in the end with all its facilities; one that is gone is
\* silent, and the timer (which the code runs for 24 hours) notices.
DFairness ==
  /\ \A t \in Thread : WF_dvars(DeliverNext(t)) /\ WF_dvars(Execute(t))
  /\ \A s \in Server :
       /\ SF_dvars(\E t \in HeartbeatThread : HeartbeatGood(t, s))
       /\ SF_dvars(/\ s \in gone /\ infos[s] = "good"
                  /\ \E t \in TimerThread : Timer(t)
                  /\ infos'[s] = "unknown")

FairDSpec == DSpec /\ DFairness

-----------------------------------------------------------------------------
\* All that was decided has been done.
Quiet == \A t \in Thread : Idle(t)

\* Nobody but servers with the same information as s share its locator at f.
Unshared(s, f) ==
  \A r \in Server : LocatorOf[r][f] = LocatorOf[s][f] => HasSameInfo(r, s)

\* When all is quiet a facility has one sender, and the component one
\* client, for the locator of a good server, and neither for that of
\* another one: restarted servers are not registered twice, expired ones
\* leave nothing behind (underlyingSenders_, clientNumberRecord_).  It takes
\* that no commands for the locator crossed each other on their way, and it
\* holds only for servers that share all their locators or none.
SendersMatchServers ==
  Quiet =>
    \A s \in Server, f \in Name :
      Unshared(s, f) /\ <<f, LocatorOf[s][f]>> \notin crossed =>
        LET l == LocatorOf[s][f]
            good == \E r \in Server : infos[r] = "good" /\ LocatorOf[r][f] = l
        IN /\ Cardinality(SendersTo(f, l)) = IF good THEN 1 ELSE 0
           /\ kind # "none" => (l \in connected <=> good)
           /\ kind = "numbered" =>
                clients[l] = IF good THEN {clientNumberRecord[f][l]} ELSE {}

\* Whichever sender a request is given to, its client is there, unless a
\* thread is in the middle of deregistering it (actuallyHandleInput takes
\* the mutex of the facility, not that of the component) or commands for its
\* locator crossed.
RequestsFindClients ==
  \A f \in Name : \A s \in Receivers(f) :
    \/ s.alive
    \/ \E t \in Thread : pc[t] = "erase" /\ action[t].locator = s.locator
    \/ <<f, s.locator>> \in crossed

\* A server that runs gets its senders, in each facility, unless it ends:
\* also when it replaces another one, was silent for too long before, or
\* told of its facilities too early (handleHeartbeat).  Again it takes that
\* no commands for one of its locators crossed.
ServersAreFound ==
  \A s \in Server :
    TRUE ~> \/ s \in gone \/ goods = MaxGood
            \/ \E f \in Name : <<f, LocatorOf[s][f]>> \in crossed
            \/ \A f \in Name : SendersTo(f, LocatorOf[s][f]) # {}

\* A server that is gone leaves, in the end, the facilities that know no
\* other server at its locator (handleTimer).
SilentServersLeave ==
  \A s \in Server, f \in Name :
    s \in gone ~>
      \/ <<f, LocatorOf[s][f]>> \in crossed
      \/ \E r \in Server \ {s} : r \notin gone /\ LocatorOf[r][f] = LocatorOf[s][f]
      \/ SendersTo(f, LocatorOf[s][f]) = {}

\* "If the user wants to handle the count, the source is still there in the
\* return value": what a facility has published last (registerFacility,
\* deregisterFacility) is how many senders it has.
CountIsRight ==
  Quiet /\ crossed = {} =>
    \A f \in Name : published[f] = Cardinality(underlyingSenders[f])
=============================================================================
