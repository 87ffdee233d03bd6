----------------------- MODULE RemoteFacility_proofs -----------------------
(***************************************************************************)
(* Proofs about the remote facility, for any number of threads, facilities *)
(* and locators, any transports, and commands in any order; and about the  *)
(* facilities as heartbeats set them up, for any servers and locators.     *)
(***************************************************************************)
EXTENDS FacilityDiscovery, FiniteSetTheorems, WellFoundedInduction, TLAPS

USE DEF Goto

\* The facilities start without senders (constructor).
LEMMA InitTypeOK == Init => TypeOK /\ MapPointsToSenders
<1> SUFFICES ASSUME Init PROVE TypeOK /\ MapPointsToSenders
  OBVIOUS
<1>1. TypeOK
  BY FS_EmptySet DEF Init, TypeOK, Status, NoAction
<1>2. MapPointsToSenders
  BY DEF Init, MapPointsToSenders
<1>3. QED
  BY <1>1, <1>2

\* A thread that is not idle executes a command.
LEMMA BusyHasAction ==
  ASSUME TypeOK, NEW t \in Thread, pc[t] # "idle"
  PROVE  action[t] \in Action /\ action[t].name \in Name
         /\ action[t].locator \in Locator
  BY DEF TypeOK, Action

\* Some of finitely many senders are finitely many.
LEMMA FiniteSenders ==
  ASSUME TypeOK, NEW f \in Name, NEW l
  PROVE  /\ IsFiniteSet(SendersTo(f, l))
         /\ Cardinality(SendersTo(f, l)) \in Nat
         /\ IsFiniteSet(underlyingSenders[f] \ SendersTo(f, l))
<1>1. IsFiniteSet(underlyingSenders[f])
  BY DEF TypeOK
<1>2. IsFiniteSet(SendersTo(f, l))
  BY <1>1, FS_Subset DEF SendersTo
<1>3. IsFiniteSet(underlyingSenders[f] \ SendersTo(f, l))
  BY <1>1, FS_Subset
<1>4. QED
  BY <1>2, <1>3, FS_CardinalityType

\* Each step keeps the types, and the map in agreement with the senders.
LEMMA HandleKeeps ==
  ASSUME TypeOK, MapPointsToSenders, FacilityAssumption,
         NEW t \in Thread, NEW a \in Action, Handle(t, a)
  PROVE  TypeOK' /\ MapPointsToSenders'
<1>1. a # NoAction
  BY DEF Action, NoAction
<1>2. pc'[t] \in Status \ {"idle"}
  BY DEF Handle, TypeOK, Status
<1>3. TypeOK'
  BY <1>1, <1>2 DEF Handle, TypeOK, facility, component
<1>4. MapPointsToSenders'
  BY DEF Handle, MapPointsToSenders, facility
<1>5. QED
  BY <1>3, <1>4

\* registerFacility, numbered: finds or makes a connection.
LEMMA CreateConnectionKeeps ==
  ASSUME TypeOK, MapPointsToSenders, NEW t \in Thread, CreateConnection(t)
  PROVE  TypeOK' /\ MapPointsToSenders'
<1>1. action[t].locator \in Locator
  BY BusyHasAction DEF CreateConnection
<1>2. TypeOK'
  <2>1. /\ connected' \in SUBSET Locator
        /\ clients' \in [Locator -> SUBSET Nat]
        /\ clientCounter' \in [Locator -> Nat]
    <3>1. CASE action[t].locator \in connected
      BY <1>1, <3>1 DEF CreateConnection, TypeOK
    <3>2. CASE action[t].locator \notin connected
      <4> DEFINE l == action[t].locator
      <4>1. /\ connected' = connected \cup {l}
            /\ clients' = [clients EXCEPT ![l] = {}]
            /\ clientCounter' = [clientCounter EXCEPT ![l] = 0]
        BY <3>2 DEF CreateConnection
      <4> HIDE DEF l
      <4>2. l \in Locator
        BY <1>1 DEF l
      <4>3. QED
        BY <4>1, <4>2 DEF TypeOK
    <3>3. QED
      BY <3>1, <3>2
  <2>2. alive' \in [Thread -> BOOLEAN] /\ number' \in [Thread -> Nat]
    BY DEF CreateConnection, Given, TypeOK
  <2>3. pc' \in [Thread -> Status]
        /\ \A u \in Thread : pc'[u] = "idle" <=> pc[u] = "idle"
    BY DEF CreateConnection, TypeOK, Status
  <2>4. QED
    BY <2>1, <2>2, <2>3 DEF CreateConnection, TypeOK, facility
<1>3. MapPointsToSenders'
  BY DEF CreateConnection, MapPointsToSenders, facility
<1>4. QED
  BY <1>2, <1>3

\* registerFacility, numbered: adds a client to it.
LEMMA AddClientKeeps ==
  ASSUME TypeOK, MapPointsToSenders, NEW t \in Thread, AddClient(t)
  PROVE  TypeOK' /\ MapPointsToSenders'
<1>1. action[t].locator \in Locator
  BY BusyHasAction DEF AddClient
<1>2. TypeOK'
  <2>1. CASE alive[t]
    <3>1. clientCounter' \in [Locator -> Nat]
      BY <1>1, <2>1 DEF AddClient, TypeOK
    <3>2. clients' \in [Locator -> SUBSET Nat] /\ number' \in [Thread -> Nat]
      BY <1>1, <2>1, <3>1 DEF AddClient, TypeOK
    <3>3. QED
      BY <3>1, <3>2 DEF AddClient, TypeOK, Status, facility
  <2>2. CASE ~alive[t]
    BY <2>2 DEF AddClient, TypeOK, Status, facility
  <2>3. QED
    BY <2>1, <2>2
<1>3. MapPointsToSenders'
  BY DEF AddClient, MapPointsToSenders, facility
<1>4. QED
  BY <1>2, <1>3

\* registerFacility, not numbered: gets a client, or an exception.
LEMMA SetClientKeeps ==
  ASSUME TypeOK, MapPointsToSenders, NEW t \in Thread,
         SetClient(t) \/ SetClientFails(t)
  PROVE  TypeOK' /\ MapPointsToSenders'
<1>1. action[t].locator \in Locator
  BY BusyHasAction DEF SetClient, SetClientFails
<1>2. TypeOK'
  <2>1. connected' \in SUBSET Locator
    BY <1>1 DEF SetClient, SetClientFails, TypeOK, component
  <2>2. alive' \in [Thread -> BOOLEAN] /\ number' \in [Thread -> Nat]
        /\ newSize' \in [Thread -> Nat]
    <3>1. CASE SetClient(t)
      BY <3>1 DEF SetClient, Given, TypeOK
    <3>2. CASE SetClientFails(t)
      BY <3>2 DEF SetClientFails, TypeOK
    <3>3. QED
      BY <3>1, <3>2
  <2>3. pc' \in [Thread -> Status]
        /\ \A u \in Thread : pc'[u] = "idle" <=> pc[u] = "idle"
    BY DEF SetClient, SetClientFails, TypeOK, Status
  <2>4. QED
    BY <2>1, <2>2, <2>3 DEF SetClient, SetClientFails, TypeOK, facility, component
<1>3. MapPointsToSenders'
  BY DEF SetClient, SetClientFails, MapPointsToSenders, facility
<1>4. QED
  BY <1>2, <1>3

\* registerFacility appends the sender.
LEMMA PushSenderKeeps ==
  ASSUME TypeOK, MapPointsToSenders, NEW t \in Thread, PushSender(t)
  PROVE  TypeOK' /\ MapPointsToSenders'
<1> DEFINE l == action[t].locator
           f == action[t].name
           s == [locator |-> l, number |-> number[t], alive |-> alive[t],
                 copy |-> Cardinality(SendersTo(f, l))]
<1>1. l \in Locator /\ f \in Name
  BY BusyHasAction DEF PushSender
<1>2. s \in Sender
  BY <1>1, FiniteSenders DEF TypeOK, Sender
<1>3. underlyingSenders' = [underlyingSenders EXCEPT ![f] = @ \cup {s}]
  BY DEF PushSender
<1>4. \A g \in Name : IsFiniteSet(underlyingSenders'[g])
  BY <1>1, <1>3, FS_AddElement DEF TypeOK
<1>5. newSize' \in [Thread -> Nat]
  BY DEF PushSender, AsBool, TypeOK
<1>6. TypeOK'
  <2>1. underlyingSenders' \in [Name -> SUBSET Sender]
    BY <1>1, <1>2, <1>3 DEF TypeOK
  <2>2. senderMap' \in [Name -> SUBSET Locator]
        /\ clientNumberRecord' \in [Name -> [Locator -> Nat]]
    BY <1>1 DEF PushSender, TypeOK
  <2>3. pc' \in [Thread -> Status]
        /\ \A u \in Thread : pc'[u] = "idle" <=> pc[u] = "idle"
    BY DEF PushSender, TypeOK, Status
  <2>4. QED
    BY <1>4, <1>5, <2>1, <2>2, <2>3 DEF PushSender, TypeOK, component
<1>7. MapPointsToSenders'
  <2>1. senderMap' = [senderMap EXCEPT ![f] = @ \cup {l}]
    BY DEF PushSender
  <2>2. s.locator = l
    OBVIOUS
  <2>3. senderMap'[f] = {x.locator : x \in underlyingSenders'[f]}
    <3> HIDE DEF l, s
    <3>1. senderMap'[f] = senderMap[f] \cup {l}
      BY <1>1, <2>1 DEF TypeOK
    <3>2. underlyingSenders'[f] = underlyingSenders[f] \cup {s}
      BY <1>1, <1>3 DEF TypeOK
    <3>3. senderMap[f] = {x.locator : x \in underlyingSenders[f]}
      BY <1>1 DEF MapPointsToSenders
    <3>4. QED
      BY <2>2, <3>1, <3>2, <3>3
  <2>4. ASSUME NEW g \in Name, g # f
        PROVE  senderMap'[g] = {x.locator : x \in underlyingSenders'[g]}
    BY <1>1, <1>3, <2>1, <2>4 DEF MapPointsToSenders, TypeOK
  <2>5. QED
    BY <2>3, <2>4 DEF MapPointsToSenders
<1>8. QED
  BY <1>6, <1>7

\* deregisterFacility takes the client number on record.
LEMMA TakeNumberKeeps ==
  ASSUME TypeOK, MapPointsToSenders, NEW t \in Thread, TakeNumber(t)
  PROVE  TypeOK' /\ MapPointsToSenders'
<1>1. action[t].locator \in Locator /\ action[t].name \in Name
  BY BusyHasAction DEF TakeNumber
<1>2. TypeOK'
  BY <1>1 DEF TakeNumber, TypeOK, Status, component
<1>3. MapPointsToSenders'
  BY DEF TakeNumber, MapPointsToSenders
<1>4. QED
  BY <1>2, <1>3

\* What is destroyed changes no sender but for whether its client is there.
LEMMA DestroyKeeps ==
  ASSUME TypeOK, MapPointsToSenders, NEW l \in Locator, Destroy(l)
  PROVE  /\ connected' \in SUBSET Locator
         /\ alive' \in [Thread -> BOOLEAN]
         /\ underlyingSenders' \in [Name -> SUBSET Sender]
         /\ \A f \in Name : IsFiniteSet(underlyingSenders'[f])
         /\ \A f \in Name : {s.locator : s \in underlyingSenders'[f]}
                            = {s.locator : s \in underlyingSenders[f]}
<1> DEFINE After(s) == [s EXCEPT !.alive = @ /\ s.locator # l]
<1>1. underlyingSenders' = [f \in Name |-> {After(s) : s \in underlyingSenders[f]}]
  BY DEF Destroy
<1>2. \A s \in Sender : After(s) \in Sender /\ After(s).locator = s.locator
  BY DEF Sender
<1>3. \A f \in Name : underlyingSenders[f] \subseteq Sender
  BY DEF TypeOK
<1>4. connected' \in SUBSET Locator
  BY DEF Destroy, TypeOK
<1>5. alive' \in [Thread -> BOOLEAN]
  BY DEF Destroy, TypeOK
<1> HIDE DEF After
<1>6. underlyingSenders' \in [Name -> SUBSET Sender]
  BY <1>1, <1>2, <1>3
<1>7. ASSUME NEW f \in Name PROVE IsFiniteSet(underlyingSenders'[f])
  <2>1. IsFiniteSet(underlyingSenders[f])
    BY DEF TypeOK
  <2>2. IsFiniteSet({After(s) : s \in underlyingSenders[f]})
    <3> DEFINE F == [s \in underlyingSenders[f] |-> After(s)]
               R == {After(s) : s \in underlyingSenders[f]}
    <3>1. F \in Surjection(underlyingSenders[f], R)
      BY DEF Surjection
    <3>2. QED
      BY <2>1, <3>1, FS_Surjection
  <2>3. QED
    BY <1>1, <2>2
<1>8. ASSUME NEW f \in Name
      PROVE  {s.locator : s \in underlyingSenders'[f]}
             = {s.locator : s \in underlyingSenders[f]}
  BY <1>1, <1>2, <1>3
<1>9. QED
  BY <1>4, <1>5, <1>6, <1>7, <1>8

\* deregisterFacility removes the client.
LEMMA RemoveClientKeeps ==
  ASSUME TypeOK, MapPointsToSenders, NEW t \in Thread, RemoveClient(t)
  PROVE  TypeOK' /\ MapPointsToSenders'
<1> DEFINE l == action[t].locator
           left == clients[l] \ {number[t]}
<1>1. l \in Locator
  BY BusyHasAction DEF RemoveClient
<1>2. clients' \in [Locator -> SUBSET Nat]
  BY <1>1 DEF RemoveClient, TypeOK
<1>3. pc' \in [Thread -> Status]
      /\ \A u \in Thread : pc'[u] = "idle" <=> pc[u] = "idle"
  BY DEF RemoveClient, TypeOK, Status
<1>4. CASE Destroy(l)
  <2>1. TypeOK'
    BY <1>1, <1>2, <1>3, <1>4, DestroyKeeps DEF RemoveClient, TypeOK
  <2>2. MapPointsToSenders'
    BY <1>1, <1>4, DestroyKeeps DEF RemoveClient, MapPointsToSenders
  <2>3. QED
    BY <2>1, <2>2
<1>5. CASE UNCHANGED <<connected, underlyingSenders, alive>>
  <2>1. TypeOK'
    BY <1>2, <1>3, <1>5 DEF RemoveClient, TypeOK
  <2>2. MapPointsToSenders'
    BY <1>5 DEF RemoveClient, MapPointsToSenders
  <2>3. QED
    BY <2>1, <2>2
<1>6. QED
  BY <1>4, <1>5 DEF RemoveClient

\* deregisterFacility erases the senders.
LEMMA EraseSendersKeeps ==
  ASSUME TypeOK, MapPointsToSenders, NEW t \in Thread, EraseSenders(t)
  PROVE  TypeOK' /\ MapPointsToSenders'
<1> DEFINE l == action[t].locator
           f == action[t].name
<1>1. l \in Locator /\ f \in Name
  BY BusyHasAction DEF EraseSenders
<1>2. /\ underlyingSenders' = [underlyingSenders EXCEPT ![f] = @ \ SendersTo(f, l)]
      /\ senderMap' = [senderMap EXCEPT ![f] = @ \ {l}]
  BY DEF EraseSenders
<1> HIDE DEF l, f
<1>3. \A g \in Name : IsFiniteSet(underlyingSenders'[g])
  BY <1>1, <1>2, FiniteSenders DEF TypeOK
<1>4. newSize' \in [Thread -> Nat]
  <2>1. Cardinality(underlyingSenders'[f]) \in Nat
    BY <1>1, <1>3, FS_CardinalityType
  <2>2. QED
    BY <2>1 DEF EraseSenders, TypeOK, f
<1>5. TypeOK'
  <2>1. /\ underlyingSenders' \in [Name -> SUBSET Sender]
        /\ senderMap' \in [Name -> SUBSET Locator]
    BY <1>1, <1>2 DEF TypeOK
  <2>2. pc' \in [Thread -> Status]
        /\ \A u \in Thread : pc'[u] = "idle" <=> pc[u] = "idle"
    BY DEF EraseSenders, TypeOK, Status
  <2>3. QED
    BY <1>3, <1>4, <2>1, <2>2 DEF EraseSenders, TypeOK, component
<1>6. MapPointsToSenders'
  <2>1. \A g \in Name : senderMap[g] = {s.locator : s \in underlyingSenders[g]}
    BY DEF MapPointsToSenders
  <2>2. senderMap'[f] = {s.locator : s \in underlyingSenders'[f]}
    BY <1>1, <1>2, <2>1 DEF SendersTo, TypeOK
  <2>3. ASSUME NEW g \in Name, g # f
        PROVE  senderMap'[g] = {s.locator : s \in underlyingSenders'[g]}
    BY <1>1, <1>2, <2>1, <2>3 DEF TypeOK
  <2>4. QED
    BY <2>2, <2>3 DEF MapPointsToSenders
<1>7. QED
  BY <1>5, <1>6

\* The number of senders is published, and the command is done.
LEMMA PublishKeeps ==
  ASSUME TypeOK, MapPointsToSenders, NEW t \in Thread, Publish(t)
  PROVE  TypeOK' /\ MapPointsToSenders'
<1>1. action[t].name \in Name
  BY BusyHasAction DEF Publish
<1>2. TypeOK'
  <2>1. /\ published' \in [Name -> Nat]
        /\ number' \in [Thread -> Nat] /\ newSize' \in [Thread -> Nat]
    BY <1>1 DEF Publish, TypeOK
  <2>2. alive' \in [Thread -> BOOLEAN]
    BY DEF Publish, TypeOK
  <2>3. /\ action' \in [Thread -> Action \cup {NoAction}]
        /\ pc' \in [Thread -> Status]
        /\ \A u \in Thread : pc'[u] = "idle" <=> action'[u] = NoAction
    BY DEF Publish, TypeOK, Status
  <2>4. QED
    BY <2>1, <2>2, <2>3 DEF Publish, TypeOK, facility, component
<1>3. MapPointsToSenders'
  BY DEF Publish, MapPointsToSenders, facility
<1>4. QED
  BY <1>2, <1>3

-----------------------------------------------------------------------------
\* The state of the facilities stays well formed, and each facility's map
\* in agreement with its senders, whatever commands come in whatever order
\* and however their steps interleave.
LEMMA NextKeeps ==
  TypeOK /\ MapPointsToSenders /\ [Next]_vars => TypeOK' /\ MapPointsToSenders'
<1> SUFFICES ASSUME TypeOK, MapPointsToSenders, [Next]_vars
             PROVE  TypeOK' /\ MapPointsToSenders'
  OBVIOUS
<1>1. ASSUME NEW t \in Thread, NEW a \in Action, Handle(t, a)
      PROVE  TypeOK' /\ MapPointsToSenders'
  BY <1>1, HandleKeeps, FacilityAssumption
<1>2. ASSUME NEW t \in Thread, Step(t)
      PROVE  TypeOK' /\ MapPointsToSenders'
  BY <1>2, CreateConnectionKeeps, AddClientKeeps, SetClientKeeps,
     PushSenderKeeps, TakeNumberKeeps, RemoveClientKeeps, EraseSendersKeeps,
     PublishKeeps DEF Step
<1>3. CASE UNCHANGED vars
  BY <1>3 DEF vars, facility, component, TypeOK, MapPointsToSenders
<1>4. QED
  BY <1>1, <1>2, <1>3 DEF Next

\* The state of the remote facilities has its types (MultiTransportRemoteFacility).
THEOREM TypeCorrect == Spec => []TypeOK
<1>1. TypeOK /\ MapPointsToSenders /\ [Next]_vars => (TypeOK /\ MapPointsToSenders)'
  BY NextKeeps
<1>2. QED
  BY <1>1, InitTypeOK, PTL DEF Spec

\* The map of a facility has an entry for a locator exactly when there is a
\* sender to it (senderMap_ and underlyingSenders_).
THEOREM MapCorrect == Spec => []MapPointsToSenders
<1>1. TypeOK /\ MapPointsToSenders /\ [Next]_vars => (TypeOK /\ MapPointsToSenders)'
  BY NextKeeps
<1>2. QED
  BY <1>1, InitTypeOK, PTL DEF Spec

-----------------------------------------------------------------------------
(* Lists of commands.                                                      *)

\* A set of naturals has a least member: the induction the proofs below use.
LEMMA Least ==
  ASSUME NEW T \in SUBSET Nat, T # {}
  PROVE  \E x \in T : \A y \in T : ~(y < x)
<1> DEFINE R == OpToRel(<, Nat)
<1>1. IsWellFoundedOn(R, Nat)
  BY NatLessThanWellFounded
<1>2. \A x, y \in Nat : x < y => <<x, y>> \in R
  BY DEF OpToRel
<1> HIDE DEF R
<1>3. \E x \in T : \A y \in T : ~(<<y, x>> \in R)
  BY <1>1, WFMin
<1>4. QED
  BY <1>2, <1>3

\* f gives the concatenation of the first sequences of seqs (FlattenSeq).
Flattens(f, seqs) ==
  f = [i \in 1..Len(seqs) |-> IF i = 1 THEN seqs[i] ELSE f[i - 1] \o seqs[i]]

\* There is such a function for every seqs.
LEMMA FlattenExists ==
  ASSUME NEW S, NEW seqs \in Seq(Seq(S))
  PROVE  \E f : Flattens(f, seqs)
<1> DEFINE Part(f, n) == f = [i \in 1..n |-> IF i = 1 THEN seqs[i] ELSE f[i - 1] \o seqs[i]]
           Bad == {n \in Nat : n <= Len(seqs) /\ ~(\E f : Part(f, n))}
<1>1. SUFFICES Bad = {}
  <2>1. Len(seqs) \in Nat
    OBVIOUS
  <2> HIDE DEF Part
  <2>2. \E f : Part(f, Len(seqs))
    BY <1>1, <2>1
  <2>3. QED
    BY <2>2 DEF Part, Flattens
<1>2. SUFFICES ASSUME Bad # {} PROVE FALSE
  OBVIOUS
<1>3. PICK n \in Bad : \A m \in Bad : ~(m < n)
  BY <1>2, Least
<1>4. n # 0
  <2>1. Part(<<>>, 0)
    BY 1..0 = {}
  <2>2. QED
    BY <2>1
<1>5. PICK f : Part(f, n - 1)
  <2> HIDE DEF Part
  <2>1. n - 1 \in Nat /\ n - 1 < n /\ n - 1 <= Len(seqs)
    BY <1>3, <1>4
  <2>2. QED
    BY <1>3, <2>1
<1> DEFINE V(i) == IF i = 1 THEN seqs[i] ELSE f[i - 1] \o seqs[i]
           g == [i \in 1..n |-> V(i)]
<1>6. \A i \in 1..(n - 1) : g[i] = f[i]
  <2>1. n \in Nat /\ n - 1 \in Nat
    BY <1>3, <1>4
  <2>2. \A i \in 1..(n - 1) : f[i] = V(i)
    BY <1>5
  <2>3. \A i \in 1..n : g[i] = V(i)
    OBVIOUS
  <2> HIDE DEF V, g
  <2>4. QED
    BY <2>1, <2>2, <2>3
<1>7. \A i \in 1..n : V(i) = IF i = 1 THEN seqs[i] ELSE g[i - 1] \o seqs[i]
  <2>1. \A i \in 1..n : i # 1 => g[i - 1] = f[i - 1]
    <3> HIDE DEF g
    <3>1. \A i \in 1..n : i # 1 => i - 1 \in 1..(n - 1)
      BY <1>3
    <3>2. QED
      BY <1>6, <3>1
  <2> HIDE DEF g
  <2>2. QED
    BY <2>1
<1>8. Part(g, n)
  <2>1. g = [i \in 1..n |-> V(i)]
    OBVIOUS
  <2> HIDE DEF g, V
  <2>2. QED
    BY <1>7, <2>1
<1>9. QED
  BY <1>3, <1>8

\* The commands that handleTimer puts out for several servers are those for
\* each of them.
LEMMA FlattenElements ==
  ASSUME NEW S, NEW seqs \in Seq(Seq(S)), seqs # <<>>
  PROVE  /\ FlattenSeq(seqs) \in Seq(S)
         /\ \A x : Contains(FlattenSeq(seqs), x)
                   <=> \E k \in 1..Len(seqs) : Contains(seqs[k], x)
<1> DEFINE N == Len(seqs)
<1>1. N \in Nat /\ N # 0
  OBVIOUS
<1>2. PICK f : Flattens(f, seqs) /\ FlattenSeq(seqs) = f[N]
  <2> DEFINE g == CHOOSE f : Flattens(f, seqs)
  <2>1. Flattens(g, seqs)
    BY FlattenExists
  <2>2. FlattenSeq(seqs) = g[N]
    BY <1>1, Zenon DEF FlattenSeq, Flattens
  <2>3. QED
    BY <2>1, <2>2
<1>3. /\ f[1] = seqs[1]
      /\ \A n \in 2..N : f[n] = f[n - 1] \o seqs[n]
  <2> HIDE DEF N
  <2>1. f = [i \in 1..N |-> IF i = 1 THEN seqs[i] ELSE f[i - 1] \o seqs[i]]
    BY <1>2 DEF Flattens, N
  <2>2. \A i \in 1..N : f[i] = IF i = 1 THEN seqs[i] ELSE f[i - 1] \o seqs[i]
    BY <2>1
  <2>3. 1 \in 1..N /\ \A n \in 2..N : n \in 1..N /\ n # 1
    BY <1>1
  <2>4. QED
    BY <2>2, <2>3
<1>0. \A n \in 1..N : seqs[n] \in Seq(S)
  OBVIOUS
<1> HIDE DEF N
<1> DEFINE Right(n) ==
      /\ f[n] \in Seq(S)
      /\ \A x : (\E i \in 1..Len(f[n]) : f[n][i] = x)
                <=> \E k \in 1..n : \E i \in 1..Len(seqs[k]) : seqs[k][i] = x
           Bad == {n \in 1..N : ~Right(n)}
<1>4. Bad = {}
  <2>1. SUFFICES ASSUME Bad # {} PROVE FALSE
    OBVIOUS
  <2>2. PICK n \in Bad : \A m \in Bad : ~(m < n)
    <3>1. Bad \in SUBSET Nat
      BY <1>1
    <3> HIDE DEF Bad
    <3>2. QED
      BY <2>1, <3>1, Least
  <2>3. n # 1
    <3>1. Right(1)
      BY <1>1, <1>3, <1>0
    <3>2. QED
      BY <2>2, <3>1
  <2>4. n \in 2..N /\ n - 1 \in 1..N
    BY <1>1, <2>2, <2>3
  <2>5. Right(n - 1)
    <3>1. n - 1 < n
      BY <1>1, <2>4
    <3> HIDE DEF Right
    <3>2. QED
      BY <2>2, <2>4, <3>1
  <2>6. Right(n)
    <3> HIDE DEF Right
    <3>1. f[n] = f[n - 1] \o seqs[n] /\ seqs[n] \in Seq(S) /\ f[n - 1] \in Seq(S)
      BY <1>1, <1>3, <1>0, <2>4, <2>5 DEF Right
    <3>2. f[n] \in Seq(S)
      BY <3>1
    <3>3. \A x : (\E i \in 1..Len(f[n]) : f[n][i] = x)
             <=> \/ \E i \in 1..Len(f[n - 1]) : f[n - 1][i] = x
                 \/ \E i \in 1..Len(seqs[n]) : seqs[n][i] = x
      <4> DEFINE s == f[n - 1]
                 t == seqs[n]
      <4>1. s \in Seq(S) /\ t \in Seq(S) /\ f[n] = s \o t
        BY <3>1
      <4> HIDE DEF s, t
      <4>2. Len(s) \in Nat /\ Len(t) \in Nat /\ Len(f[n]) = Len(s) + Len(t)
            /\ \A i \in 1..Len(f[n]) : f[n][i] = IF i <= Len(s) THEN s[i] ELSE t[i - Len(s)]
        BY <4>1
      <4>3. ASSUME NEW i \in 1..Len(s) PROVE i \in 1..Len(f[n]) /\ f[n][i] = s[i]
        BY <4>2
      <4>4. ASSUME NEW i \in 1..Len(t)
            PROVE  Len(s) + i \in 1..Len(f[n]) /\ f[n][Len(s) + i] = t[i]
        <5>1. Len(s) + i \in 1..Len(f[n]) /\ ~(Len(s) + i <= Len(s)) /\ Len(s) + i - Len(s) = i
          BY <4>2
        <5>2. QED
          BY <4>2, <5>1
      <4>5. ASSUME NEW i \in 1..Len(f[n])
            PROVE  \/ i \in 1..Len(s) /\ f[n][i] = s[i]
                   \/ i - Len(s) \in 1..Len(t) /\ f[n][i] = t[i - Len(s)]
        <5>1. CASE i <= Len(s)
          <6>1. i \in 1..Len(s)
            BY <4>2, <5>1
          <6>2. QED
            BY <4>2, <5>1, <6>1
        <5>2. CASE ~(i <= Len(s))
          <6>1. i - Len(s) \in 1..Len(t)
            BY <4>2, <5>2
          <6>2. QED
            BY <4>2, <5>2, <6>1
        <5>3. QED
          BY <5>1, <5>2
      <4>6. QED
        BY <4>3, <4>4, <4>5 DEF s, t
    <3>4. \A k : k \in 1..n <=> k \in 1..(n - 1) \/ k = n
      BY <1>1, <2>4
    <3>5. QED
      BY <2>5, <3>2, <3>3, <3>4 DEF Right
  <2>7. QED
    BY <2>2, <2>6
<1>5. Right(N)
  <2>1. N \in 1..N
    BY <1>1
  <2> HIDE DEF Right
  <2>2. QED
    BY <1>4, <2>1
<1>6. QED
  BY <1>2, <1>5 DEF N, Contains

\* Each facility is wired once.
LEMMA NamesAreOnce ==
  ASSUME DiscoveryAssumption
  PROVE  /\ Names \in Seq(Name) /\ Len(Names) \in Nat
         /\ \A i \in 1..Len(Names) : Names[i] \in Name
         /\ \A f \in Name : \E i \in 1..Len(Names) : Names[i] = f
         /\ \A i, j \in 1..Len(Names) : Names[i] = Names[j] => i = j
<1> DEFINE n == Cardinality(Name)
<1>1. n \in Nat /\ Names \in [1..n -> Name] /\ \A f \in Name : \E i \in 1..Len(Names) : Names[i] = f
  BY FS_CardinalityType DEF DiscoveryAssumption
<1> HIDE DEF n
<1>2. Names \in Seq(Name) /\ Len(Names) = n
  BY <1>1
<1>3. Names \in Surjection(1..n, Name)
  BY <1>1, <1>2 DEF Surjection
<1>4. IsFiniteSet(1..n) /\ Cardinality(1..n) = n
  BY <1>1, FS_Interval
<1>5. Names \in Injection(1..n, Name)
  BY <1>3, <1>4, FS_Surjection DEF n
<1>6. QED
  BY <1>1, <1>2, <1>5 DEF Injection, IsInjective

\* The command of a type for the facility f.
Command(type, f, l) == [type |-> type, name |-> f, locator |-> l]
Types == {"Register", "Deregister"}

\* The commands for a server are one for each facility.
LEMMA CommandsAreOnePerName ==
  ASSUME DiscoveryAssumption, NEW type \in Types, NEW s \in Server
  PROVE  /\ Commands(type, s) \in Seq(Action)
         /\ \A a : Contains(Commands(type, s), a)
                   <=> \E f \in Name : a = Command(type, f, LocatorOf[s][f])
         /\ \A i, j \in 1..Len(Commands(type, s)) :
              Commands(type, s)[i] = Commands(type, s)[j] => i = j
<1> DEFINE C(f) == Command(type, f, LocatorOf[s][f])
           list == Commands(type, s)
<1>1. \A f \in Name : C(f) \in Action /\ C(f).name = f
  BY DEF DiscoveryAssumption, Command, Action, Types
<1>2. list = [i \in 1..Len(Names) |-> C(Names[i])]
  BY DEF Commands, Command
<1> HIDE DEF list, C
<1>3. list \in Seq(Action) /\ Len(list) = Len(Names)
      /\ \A i \in 1..Len(list) : list[i] = C(Names[i]) /\ Names[i] \in Name
  <2>1. Len(Names) \in Nat /\ \A i \in 1..Len(Names) : Names[i] \in Name
    BY NamesAreOnce
  <2>2. QED
    BY <1>1, <1>2, <2>1
<1>4. \A a : Contains(list, a) <=> \E f \in Name : a = C(f)
  <2>1. \A a : Contains(list, a) => \E f \in Name : a = C(f)
    BY <1>3 DEF Contains
  <2>2. ASSUME NEW f \in Name PROVE Contains(list, C(f))
    <3>1. PICK i \in 1..Len(Names) : Names[i] = f
      BY NamesAreOnce
    <3>2. QED
      BY <1>3, <3>1 DEF Contains
  <2>3. QED
    BY <2>1, <2>2
<1>5. \A i, j \in 1..Len(list) : list[i] = list[j] => i = j
  BY <1>1, <1>3, NamesAreOnce
<1>6. QED
  BY <1>3, <1>4, <1>5 DEF list, C

\* What a heartbeat makes: a Register for each facility, after a Deregister
\* for each if the server replaces others (handleHeartbeat).
HeartbeatList(old, s) ==
  (IF old THEN Commands("Deregister", s) ELSE <<>>) \o Commands("Register", s)

\* The list handleHeartbeat makes has a command for each facility, and the
\* Registers come last.
LEMMA HeartbeatListIsRight ==
  ASSUME DiscoveryAssumption, NEW s \in Server, NEW old \in BOOLEAN
  PROVE  /\ HeartbeatList(old, s) \in Seq(Action)
         /\ \A a : Contains(HeartbeatList(old, s), a)
                   <=> \E f \in Name :
                         \/ a = Command("Register", f, LocatorOf[s][f])
                         \/ old /\ a = Command("Deregister", f, LocatorOf[s][f])
         /\ \A f, l : \A i, j \in 1..Len(HeartbeatList(old, s)) :
              HeartbeatList(old, s)[i] = Command("Register", f, l) /\ i < j
                => HeartbeatList(old, s)[j] \notin {Command("Register", f, l),
                                                    Command("Deregister", f, l)}
<1> DEFINE d == IF old THEN Commands("Deregister", s) ELSE <<>>
           r == Commands("Register", s)
           list == HeartbeatList(old, s)
<1>1. /\ r \in Seq(Action)
      /\ \A a : Contains(r, a) <=> \E f \in Name : a = Command("Register", f, LocatorOf[s][f])
      /\ \A i, j \in 1..Len(r) : r[i] = r[j] => i = j
  BY CommandsAreOnePerName DEF Types
<1>2. /\ d \in Seq(Action)
      /\ \A a : Contains(d, a)
                <=> old /\ \E f \in Name : a = Command("Deregister", f, LocatorOf[s][f])
  <2>1. /\ Commands("Deregister", s) \in Seq(Action)
        /\ \A a : Contains(Commands("Deregister", s), a)
                  <=> \E f \in Name : a = Command("Deregister", f, LocatorOf[s][f])
    BY CommandsAreOnePerName DEF Types
  <2>2. <<>> \in Seq(Action) /\ \A a : ~Contains(<<>>, a)
    BY DEF Contains
  <2>3. CASE old
    BY <2>1, <2>3
  <2>4. CASE ~old
    BY <2>2, <2>4
  <2>5. QED
    BY <2>3, <2>4
<1>3. list = d \o r
  BY DEF HeartbeatList
<1> HIDE DEF d, r, list
<1>4. /\ list \in Seq(Action) /\ Len(d) \in Nat /\ Len(r) \in Nat /\ Len(list) = Len(d) + Len(r)
      /\ \A i \in 1..Len(list) : list[i] = IF i <= Len(d) THEN d[i] ELSE r[i - Len(d)]
  BY <1>1, <1>2, <1>3
<1>5. ASSUME NEW i \in 1..Len(list)
      PROVE  \/ i \in 1..Len(d) /\ list[i] = d[i]
             \/ i - Len(d) \in 1..Len(r) /\ list[i] = r[i - Len(d)]
  BY <1>4
<1>6. ASSUME NEW i \in 1..Len(d) PROVE i \in 1..Len(list) /\ list[i] = d[i]
  BY <1>4
<1>7. ASSUME NEW i \in 1..Len(r)
      PROVE  Len(d) + i \in 1..Len(list) /\ list[Len(d) + i] = r[i]
  <2>1. Len(d) + i \in 1..Len(list) /\ ~(Len(d) + i <= Len(d)) /\ Len(d) + i - Len(d) = i
    BY <1>4
  <2>2. QED
    BY <1>4, <2>1
<1>8. \A a : Contains(list, a) <=> Contains(d, a) \/ Contains(r, a)
  <2>1. ASSUME NEW a, Contains(list, a) PROVE Contains(d, a) \/ Contains(r, a)
    BY <1>5, <2>1 DEF Contains
  <2>2. ASSUME NEW a, Contains(d, a) PROVE Contains(list, a)
    BY <1>6, <2>2 DEF Contains
  <2>3. ASSUME NEW a, Contains(r, a) PROVE Contains(list, a)
    BY <1>7, <2>3 DEF Contains
  <2>4. QED
    BY <2>1, <2>2, <2>3
<1>9. \A a : Contains(list, a)
             <=> \E f \in Name :
                   \/ a = Command("Register", f, LocatorOf[s][f])
                   \/ old /\ a = Command("Deregister", f, LocatorOf[s][f])
  BY <1>1, <1>2, <1>8
<1>10. ASSUME NEW f, NEW l, NEW i \in 1..Len(list), NEW j \in 1..Len(list),
              list[i] = Command("Register", f, l), i < j
       PROVE  list[j] \notin {Command("Register", f, l), Command("Deregister", f, l)}
  <2>1. \A k \in 1..Len(d) : d[k] # Command("Register", f, l)
    <3>1. ASSUME NEW k \in 1..Len(d), d[k] = Command("Register", f, l) PROVE FALSE
      <4>1. Contains(d, Command("Register", f, l))
        BY <3>1 DEF Contains
      <4>2. QED
        BY <1>2, <4>1 DEF Command
    <3>2. QED
      BY <3>1
  <2>2. \A k \in 1..Len(r) : r[k] # Command("Deregister", f, l)
    <3>1. ASSUME NEW k \in 1..Len(r), r[k] = Command("Deregister", f, l) PROVE FALSE
      <4>1. Contains(r, Command("Deregister", f, l))
        BY <3>1 DEF Contains
      <4>2. QED
        BY <1>1, <4>1 DEF Command
    <3>2. QED
      BY <3>1
  <2>3. i - Len(d) \in 1..Len(r) /\ list[i] = r[i - Len(d)]
    BY <1>5, <1>10, <2>1
  <2>4. j - Len(d) \in 1..Len(r) /\ list[j] = r[j - Len(d)] /\ i - Len(d) # j - Len(d)
    BY <1>4, <1>5, <1>10, <2>3
  <2>5. QED
    BY <1>1, <1>10, <2>2, <2>3, <2>4
<1>11. QED
  BY <1>4, <1>9, <1>10 DEF list

\* What the timer makes: a Deregister for each facility of each silent server
\* (handleTimer).
SilenceList(order) == FlattenSeq([i \in DOMAIN order |-> Commands("Deregister", order[i])])

\* The list handleTimer makes deregisters the silent servers everywhere.
LEMMA SilenceListIsRight ==
  ASSUME DiscoveryAssumption, NEW silent \in SUBSET Server, silent # {},
         NEW order \in SetToSeqs(silent)
  PROVE  /\ SilenceList(order) \in Seq(Action)
         /\ \A a : Contains(SilenceList(order), a)
                   <=> \E s \in silent, f \in Name :
                         a = Command("Deregister", f, LocatorOf[s][f])
<1> DEFINE n == Cardinality(silent)
           seqs == [i \in DOMAIN order |-> Commands("Deregister", order[i])]
<1>1. IsFiniteSet(silent) /\ n \in Nat /\ n # 0
  BY FS_Subset, FS_CardinalityType, FS_EmptySet DEF DiscoveryAssumption
<1> HIDE DEF n
<1>2. order \in [1..n -> silent] /\ \A i, j \in 1..n : i # j => order[i] # order[j]
  BY DEF SetToSeqs, n
<1>3. \A s \in silent : \E i \in 1..n : order[i] = s
  <2>1. order \in Injection(1..n, silent)
    BY <1>2 DEF Injection, IsInjective
  <2>2. Cardinality(1..n) = n
    BY <1>1, FS_Interval
  <2>3. order \in Surjection(1..n, silent)
    BY <1>1, <2>1, <2>2, FS_Injection DEF n
  <2>4. QED
    BY <2>3 DEF Surjection
<1>4. seqs \in Seq(Seq(Action)) /\ seqs # <<>> /\ Len(seqs) = n
      /\ \A i \in 1..n : seqs[i] = Commands("Deregister", order[i])
  <2>1. \A s \in silent : Commands("Deregister", s) \in Seq(Action)
    BY CommandsAreOnePerName DEF Types
  <2>2. seqs \in [1..n -> Seq(Action)] /\ DOMAIN order = 1..n
    BY <1>2, <2>1
  <2>3. seqs \in Seq(Seq(Action)) /\ Len(seqs) = n
    BY <1>1, <2>2
  <2>4. \A i \in 1..n : seqs[i] = Commands("Deregister", order[i])
    BY <2>2
  <2> HIDE DEF seqs
  <2>5. seqs # <<>>
    BY <1>1, <2>3
  <2>6. QED
    BY <2>3, <2>4, <2>5
<1>5. SilenceList(order) = FlattenSeq(seqs)
  BY DEF SilenceList
<1> HIDE DEF seqs
<1>6. /\ FlattenSeq(seqs) \in Seq(Action)
      /\ \A a : Contains(FlattenSeq(seqs), a) <=> \E k \in 1..n : Contains(seqs[k], a)
  <2>1. seqs \in Seq(Seq(Action)) /\ seqs # <<>> /\ Len(seqs) = n
    BY <1>4
  <2>2. /\ FlattenSeq(seqs) \in Seq(Action)
        /\ \A a : Contains(FlattenSeq(seqs), a) <=> \E k \in 1..Len(seqs) : Contains(seqs[k], a)
    BY <2>1, FlattenElements
  <2>3. QED
    BY <2>1, <2>2
<1>7. ASSUME NEW k \in 1..n, NEW a
      PROVE  Contains(seqs[k], a)
             <=> \E f \in Name : a = Command("Deregister", f, LocatorOf[order[k]][f])
  <2>1. order[k] \in Server /\ seqs[k] = Commands("Deregister", order[k])
    BY <1>2, <1>4
  <2>2. "Deregister" \in Types
    BY DEF Types
  <2>3. QED
    BY <2>1, <2>2, CommandsAreOnePerName
<1>8. ASSUME NEW a
      PROVE  Contains(SilenceList(order), a)
             <=> \E s \in silent, f \in Name : a = Command("Deregister", f, LocatorOf[s][f])
  <2>1. Contains(SilenceList(order), a)
        <=> \E k \in 1..n : \E f \in Name : a = Command("Deregister", f, LocatorOf[order[k]][f])
    <3>1. \A k \in 1..n : Contains(seqs[k], a)
             <=> \E f \in Name : a = Command("Deregister", f, LocatorOf[order[k]][f])
      BY <1>7
    <3>2. Contains(SilenceList(order), a) <=> \E k \in 1..n : Contains(seqs[k], a)
      BY <1>5, <1>6
    <3>3. QED
      BY <3>1, <3>2
  <2>2. \A k \in 1..n : order[k] \in silent
    BY <1>2
  <2>3. ASSUME NEW k \in 1..n, NEW f \in Name,
               a = Command("Deregister", f, LocatorOf[order[k]][f])
        PROVE  \E s \in silent, g \in Name : a = Command("Deregister", g, LocatorOf[s][g])
    BY <2>2, <2>3
  <2>4. ASSUME NEW s \in silent, NEW f \in Name, a = Command("Deregister", f, LocatorOf[s][f])
        PROVE  \E k \in 1..n : \E g \in Name :
                 a = Command("Deregister", g, LocatorOf[order[k]][g])
    <3>1. PICK k \in 1..n : order[k] = s
      BY <1>3
    <3>2. QED
      BY <2>4, <3>1
  <2>5. QED
    BY <2>1, <2>3, <2>4
<1>9. QED
  BY <1>5, <1>6, <1>8

-----------------------------------------------------------------------------
(* The facilities as the converter uses them.                              *)

\* handleHeartbeat finds whether there are servers to replace, and makes its
\* list.
Replaces(s) == \E d \in Server \ {s} : infos[d] = "good" /\ HasSameInfo(d, s)

\* handleHeartbeat delivers its list, and forgets whom the server replaces.
LEMMA HeartbeatGoodDelivers ==
  ASSUME NEW t \in Thread, NEW s \in Server, HeartbeatGood(t, s)
  PROVE  /\ Deliver(t, HeartbeatList(Replaces(s), s))
         /\ infos' = [d \in Server |->
                        IF d = s THEN "good"
                        ELSE IF infos[d] = "good" /\ HasSameInfo(d, s) THEN "unknown"
                        ELSE infos[d]]
<1> DEFINE old == {d \in Server \ {s} : infos[d] = "good" /\ HasSameInfo(d, s)}
<1>1. /\ Deliver(t, (IF old = {} THEN <<>> ELSE Commands("Deregister", s))
                    \o Commands("Register", s))
      /\ infos' = [d \in Server |-> IF d = s THEN "good"
                                    ELSE IF d \in old THEN "unknown" ELSE infos[d]]
  BY DEF HeartbeatGood
<1>2. Replaces(s) <=> old # {}
  BY DEF Replaces
<1>3. HeartbeatList(Replaces(s), s) = (IF old = {} THEN <<>> ELSE Commands("Deregister", s))
                                      \o Commands("Register", s)
  <2> HIDE DEF old
  <2>1. QED
    BY <1>2 DEF HeartbeatList
<1>4. \A d \in Server : (IF d = s THEN "good" ELSE IF d \in old THEN "unknown" ELSE infos[d])
        = IF d = s THEN "good"
          ELSE IF infos[d] = "good" /\ HasSameInfo(d, s) THEN "unknown" ELSE infos[d]
  OBVIOUS
<1> HIDE DEF old
<1>5. infos' = [d \in Server |->
                  IF d = s THEN "good"
                  ELSE IF infos[d] = "good" /\ HasSameInfo(d, s) THEN "unknown" ELSE infos[d]]
  BY <1>1, <1>4
<1>6. QED
  BY <1>1, <1>3, <1>5

\* The commands of a thread that are under way belong to facilities.
LEMMA PendingAreActions ==
  ASSUME DiscoveryTypeOK, NEW t \in Thread
  PROVE  Pending(t) \subseteq Action
<1>1. queue[t] \in Seq(Action) /\ (pc[t] # "idle" => action[t] \in Action)
  BY DEF DiscoveryTypeOK, TypeOK
<1>2. QED
  BY <1>1 DEF Pending

\* A list of commands is delivered to where they belong.
LEMMA DeliverKeepsTypes ==
  ASSUME DiscoveryTypeOK, NEW t \in Thread, NEW list \in Seq(Action), Deliver(t, list)
  PROVE  queue' \in [Thread -> Seq(Action)] /\ crossed' \subseteq Name \X Locator
<1>1. queue' \in [Thread -> Seq(Action)]
  BY DEF Deliver, DiscoveryTypeOK
<1>2. \A a \in Action : <<a.name, a.locator>> \in Name \X Locator
  BY DEF Action
<1>3. UNION {Pending(u) : u \in Thread \ {t}} \subseteq Action
  BY PendingAreActions
<1>4. crossed' \subseteq Name \X Locator
  BY <1>2, <1>3 DEF Deliver, DiscoveryTypeOK
<1>5. QED
  BY <1>1, <1>4

\* A step of the converter, the threads or the servers is one that the
\* facilities allow, or leaves them alone.
LEMMA DNextIsNext ==
  DiscoveryTypeOK /\ [DNext]_dvars => [Next]_vars
<1> SUFFICES ASSUME DiscoveryTypeOK, [DNext]_dvars PROVE [Next]_vars
  OBVIOUS
<1>1. CASE \E s \in Server : End(s)
  BY <1>1 DEF End
<1>2. CASE \E t \in Thread, s \in Server : HeartbeatIncomplete(t, s) \/ HeartbeatGood(t, s)
  BY <1>2 DEF HeartbeatIncomplete, HeartbeatGood
<1>3. ASSUME NEW t \in Thread, Timer(t) PROVE UNCHANGED vars
  BY <1>3 DEF Timer
<1>4. ASSUME NEW t \in Thread, DeliverNext(t) PROVE Next
  <2>1. queue[t] \in Seq(Action) /\ queue[t] # <<>>
    BY <1>4 DEF DeliverNext, DiscoveryTypeOK
  <2>2. Head(queue[t]) \in Action
    BY <2>1
  <2>3. QED
    BY <1>4, <2>2 DEF DeliverNext, Next
<1>5. ASSUME NEW t \in Thread, Execute(t) PROVE Next
  BY <1>5 DEF Execute, Next
<1>6. CASE UNCHANGED dvars
  BY <1>6 DEF dvars
<1>7. QED
  BY <1>1, <1>2, <1>3, <1>4, <1>5, <1>6 DEF DNext

\* Each step of converter and facilities keeps the types.
LEMMA DNextKeepsTypes ==
  DiscoveryTypeOK /\ MapPointsToSenders /\ [DNext]_dvars
    => DiscoveryTypeOK' /\ MapPointsToSenders'
<1> SUFFICES ASSUME DiscoveryTypeOK, MapPointsToSenders, [DNext]_dvars
             PROVE  DiscoveryTypeOK' /\ MapPointsToSenders'
  OBVIOUS
<1>1. TypeOK' /\ MapPointsToSenders'
  BY DNextIsNext, NextKeeps DEF DiscoveryTypeOK
<1> DEFINE Rest == /\ gone' \subseteq Server
                   /\ infos' \in [Server -> {"unknown", "incomplete", "good"}]
                   /\ queue' \in [Thread -> Seq(Action)]
                   /\ goods' \in 0..MaxGood
                   /\ crossed' \subseteq Name \X Locator
<1>2. ASSUME NEW s \in Server, End(s) PROVE Rest
  BY <1>2 DEF End, discovery, DiscoveryTypeOK
<1>3. ASSUME NEW t \in Thread, NEW s \in Server, HeartbeatIncomplete(t, s) PROVE Rest
  BY <1>3 DEF HeartbeatIncomplete, DiscoveryTypeOK
<1>4. ASSUME NEW t \in Thread, NEW s \in Server, HeartbeatGood(t, s) PROVE Rest
  <2>1. HeartbeatList(Replaces(s), s) \in Seq(Action)
    BY DiscoveryAssumption, HeartbeatListIsRight DEF Replaces
  <2>2. queue' \in [Thread -> Seq(Action)] /\ crossed' \subseteq Name \X Locator
    BY <1>4, <2>1, HeartbeatGoodDelivers, DeliverKeepsTypes
  <2>3. infos' \in [Server -> {"unknown", "incomplete", "good"}]
    BY <1>4, HeartbeatGoodDelivers DEF DiscoveryTypeOK
  <2>4. goods' \in 0..MaxGood /\ gone' = gone
    BY <1>4, DiscoveryAssumption DEF HeartbeatGood, DiscoveryTypeOK, DiscoveryAssumption
  <2>5. QED
    BY <2>2, <2>3, <2>4 DEF DiscoveryTypeOK
<1>5. ASSUME NEW t \in Thread, Timer(t) PROVE Rest
  <2>1. PICK silent \in (SUBSET {s \in Server : infos[s] = "good"}) \ {{}} :
          \E order \in SetToSeqs(silent) :
            /\ Deliver(t, SilenceList(order))
            /\ infos' = [s \in Server |-> IF s \in silent THEN "unknown" ELSE infos[s]]
    BY <1>5 DEF Timer, SilenceList
  <2>2. PICK order \in SetToSeqs(silent) :
            /\ Deliver(t, SilenceList(order))
            /\ infos' = [s \in Server |-> IF s \in silent THEN "unknown" ELSE infos[s]]
    BY <2>1
  <2>3. SilenceList(order) \in Seq(Action)
    <3>1. silent \in SUBSET Server /\ silent # {}
      OBVIOUS
    <3>2. QED
      BY <3>1, DiscoveryAssumption, SilenceListIsRight
  <2>4. queue' \in [Thread -> Seq(Action)] /\ crossed' \subseteq Name \X Locator
    BY <2>2, <2>3, DeliverKeepsTypes
  <2>5. infos' \in [Server -> {"unknown", "incomplete", "good"}]
    BY <2>2 DEF DiscoveryTypeOK
  <2>6. goods' = goods /\ gone' = gone
    BY <1>5 DEF Timer
  <2>7. QED
    BY <2>4, <2>5, <2>6 DEF DiscoveryTypeOK
<1>6. ASSUME NEW t \in Thread, DeliverNext(t) PROVE Rest
  <2>1. queue[t] \in Seq(Action) /\ queue[t] # <<>>
    BY <1>6 DEF DeliverNext, DiscoveryTypeOK
  <2>2. Tail(queue[t]) \in Seq(Action)
    BY <2>1
  <2>3. QED
    BY <1>6, <2>2 DEF DeliverNext, DiscoveryTypeOK
<1>7. ASSUME NEW t \in Thread, Execute(t) PROVE Rest
  BY <1>7 DEF Execute, discovery, DiscoveryTypeOK
<1>8. ASSUME UNCHANGED dvars PROVE Rest
  <2>1. gone' = gone /\ infos' = infos /\ queue' = queue /\ goods' = goods /\ crossed' = crossed
    BY <1>8 DEF dvars, discovery
  <2>2. QED
    BY <2>1 DEF DiscoveryTypeOK
<1>9. Rest
  <2> HIDE DEF Rest
  <2>1. QED
    BY <1>2, <1>3, <1>4, <1>5, <1>6, <1>7, <1>8 DEF DNext
<1>10. QED
  BY <1>1, <1>9 DEF DiscoveryTypeOK

\* Nothing is known at first.
LEMMA DInitTypes == DInit => DiscoveryTypeOK /\ MapPointsToSenders
<1> SUFFICES ASSUME DInit PROVE DiscoveryTypeOK /\ MapPointsToSenders
  OBVIOUS
<1>1. TypeOK /\ MapPointsToSenders
  BY InitTypeOK DEF DInit
<1>2. <<>> \in Seq(Action)
  OBVIOUS
<1>3. QED
  BY <1>1, <1>2, DiscoveryAssumption DEF DInit, DiscoveryTypeOK, DiscoveryAssumption

\* The state of the converter and of the commands on their way has its types
\* (HeartbeatMessageToRemoteFacilityCommandConverter).
THEOREM DiscoveryTypeCorrect == DSpec => []DiscoveryTypeOK
<1>1. DiscoveryTypeOK /\ MapPointsToSenders /\ [DNext]_dvars
        => (DiscoveryTypeOK /\ MapPointsToSenders)'
  BY DNextKeepsTypes
<1>2. QED
  BY <1>1, DInitTypes, PTL DEF DSpec

\* The facilities that heartbeats set up behave as facilities do under any
\* commands: the wiring of setupNonDistinguishedRemoteFacilities gives them
\* nothing else, whichever servers come and go.
THEOREM DiscoveryImplementsFacility == DSpec => Spec
<1>1. DInit => Init
  BY DEF DInit
<1>2. QED
  BY <1>1, DNextIsNext, DiscoveryTypeCorrect, PTL DEF DSpec, Spec

\* So their maps agree with their senders too.
THEOREM MapCorrectFromHeartbeats == DSpec => []MapPointsToSenders
  BY DiscoveryImplementsFacility, MapCorrect, PTL

-----------------------------------------------------------------------------
(* Where the commands come from, and what of them is still to be done.     *)

\* Commands and senders lead to servers.
CommandsLead ==
  \A t \in Thread : \A a \in Pending(t) : \E s \in Server : a.locator = LocatorOf[s][a.name]
SendersLead ==
  \A f \in Name : \A x \in underlyingSenders[f] : \E s \in Server : x.locator = LocatorOf[s][f]

\* Each phase belongs to one type of command and some transports.
Phases ==
  \A t \in Thread :
    /\ pc[t] \in {"set", "add", "push"} => action[t].type = "Register"
    /\ pc[t] \in {"take", "remove", "erase"} => action[t].type = "Deregister"
    /\ pc[t] \in {"add", "take"} => kind = "numbered"
    /\ pc[t] = "remove" => kind # "none"

\* Opposite commands for one sender are under way in one thread only, but for
\* those on record.
NoneCross ==
  \A f \in Name, l \in Locator : <<f, l>> \notin crossed =>
    \A t, u \in Thread : /\ Command("Register", f, l) \in Pending(t)
                         /\ Command("Deregister", f, l) \in Pending(u)
                         => t = u

\* What the delivery of a list does to what is pending.
LEMMA DeliverPending ==
  ASSUME DiscoveryTypeOK, NEW t \in Thread, NEW list \in Seq(Action),
         Idle(t), UNCHANGED vars, Deliver(t, list)
  PROVE  /\ \A a : a \in Pending(t)' <=> Contains(list, a)
         /\ \A u \in Thread : u # t => Pending(u)' = Pending(u)
         /\ Pending(t) = {}
         /\ \A f \in Name, l \in Locator : <<f, l>> \notin crossed' =>
              /\ <<f, l>> \notin crossed
              /\ \A u \in Thread : u # t =>
                   /\ ~(/\ Contains(list, Command("Register", f, l))
                        /\ Command("Deregister", f, l) \in Pending(u))
                   /\ ~(/\ Contains(list, Command("Deregister", f, l))
                        /\ Command("Register", f, l) \in Pending(u))
<1>1. queue' = [queue EXCEPT ![t] = list] /\ queue \in [Thread -> Seq(Action)]
  BY DEF Deliver, DiscoveryTypeOK
<1>2. pc' = pc /\ action' = action
  BY DEF vars
<1>3. \A a : a \in Pending(t)' <=> Contains(list, a)
  <2>1. queue'[t] = list /\ pc'[t] = "idle"
    BY <1>1, <1>2 DEF Idle
  <2>2. Pending(t)' = {list[i] : i \in 1..Len(list)}
    BY <2>1 DEF Pending
  <2>3. QED
    BY <2>2 DEF Contains
<1>4. ASSUME NEW u \in Thread, u # t PROVE Pending(u)' = Pending(u)
  <2>1. queue'[u] = queue[u]
    BY <1>1, <1>4
  <2>2. QED
    BY <1>2, <2>1 DEF Pending
<1>5. Pending(t) = {}
  BY DEF Idle, Pending
<1>6. ASSUME NEW f \in Name, NEW l \in Locator, <<f, l>> \notin crossed',
             NEW u \in Thread, u # t,
             NEW a \in {Command("Register", f, l), Command("Deregister", f, l)},
             NEW b \in {Command("Register", f, l), Command("Deregister", f, l)},
             a # b, a \in Pending(u), Contains(list, b)
      PROVE  FALSE
  <2>1. PICK i \in 1..Len(list) : list[i] = b
    BY <1>6 DEF Contains
  <2>2. Opposite(a, list[i])
    BY <1>6, <2>1 DEF Opposite, Command
  <2>3. a \in UNION {Pending(v) : v \in Thread \ {t}} /\ <<a.name, a.locator>> = <<f, l>>
    BY <1>6 DEF Command
  <2>4. QED
    BY <1>6, <2>2, <2>3 DEF Deliver
<1>7. \A f \in Name, l \in Locator : <<f, l>> \notin crossed' => <<f, l>> \notin crossed
  BY DEF Deliver
<1>8. \A f, l : Command("Register", f, l) # Command("Deregister", f, l)
  BY DEF Command
<1>9. QED
  BY <1>3, <1>4, <1>5, <1>6, <1>7, <1>8

\* A command that is handed to its facility stays pending.
LEMMA DeliverNextPending ==
  ASSUME DiscoveryTypeOK, NEW t \in Thread, DeliverNext(t)
  PROVE  /\ \A u \in Thread : Pending(u)' = Pending(u)
         /\ Head(queue[t]) \in Action /\ Head(queue[t]) \in Pending(t)
<1>1. /\ queue[t] \in Seq(Action) /\ queue[t] # <<>>
      /\ queue' = [queue EXCEPT ![t] = Tail(@)] /\ queue \in [Thread -> Seq(Action)]
      /\ pc[t] = "idle"
      /\ action' = [action EXCEPT ![t] = Head(queue[t])]
  BY DEF DeliverNext, Handle, DiscoveryTypeOK
<1>2. pc'[t] # "idle" /\ \A u \in Thread : u # t => pc'[u] = pc[u]
  <2> DEFINE a == Head(queue[t])
             p == IF a.type = "Register" THEN "set"
                  ELSE CASE kind = "numbered" -> "take"
                         [] kind \in {"exclusive", "shared"} -> "remove"
                         [] kind = "none" -> "erase"
  <2>1. kind \in {"numbered", "exclusive", "shared", "none"}
    BY FacilityAssumption DEF DiscoveryTypeOK, TypeOK, FacilityAssumption
  <2>2. p # "idle"
    BY <2>1
  <2>3. pc' = [pc EXCEPT ![t] = p] /\ pc \in [Thread -> Status]
    BY DEF DeliverNext, Handle, DiscoveryTypeOK, TypeOK
  <2> HIDE DEF p
  <2>4. QED
    BY <2>2, <2>3
<1>3. action'[t] = Head(queue[t]) /\ \A u \in Thread : u # t => action'[u] = action[u]
  BY <1>1 DEF DiscoveryTypeOK, TypeOK
<1>4. ASSUME NEW u \in Thread, u # t PROVE Pending(u)' = Pending(u)
  <2>1. queue'[u] = queue[u]
    BY <1>1, <1>4
  <2>2. QED
    BY <1>2, <1>3, <1>4, <2>1 DEF Pending
<1>5. Pending(t)' = Pending(t)
  <2> DEFINE q == queue[t]
  <2>1. q \in Seq(Action) /\ q # <<>> /\ queue'[t] = Tail(q)
    BY <1>1
  <2>2. Pending(t) = {q[i] : i \in 1..Len(q)}
    BY <1>1 DEF Pending
  <2>3. Pending(t)' = {Tail(q)[i] : i \in 1..Len(Tail(q))} \cup {Head(q)}
    BY <1>2, <1>3, <2>1 DEF Pending
  <2> HIDE DEF q
  <2>4. Len(Tail(q)) = Len(q) - 1 /\ Head(q) = q[1] /\ Len(q) \in Nat /\ Len(q) >= 1
        /\ \A i \in 1..(Len(q) - 1) : Tail(q)[i] = q[i + 1]
    BY <2>1
  <2>5. \A x \in Pending(t)' : x \in Pending(t)
    <3>1. \A i \in 1..(Len(q) - 1) : i + 1 \in 1..Len(q)
      BY <2>4
    <3>2. 1 \in 1..Len(q)
      BY <2>4
    <3>3. QED
      BY <2>2, <2>3, <2>4, <3>1, <3>2
  <2>6. ASSUME NEW i \in 1..Len(q) PROVE q[i] \in Pending(t)'
    <3>1. CASE i = 1
      BY <2>3, <2>4, <3>1
    <3>2. CASE i # 1
      <4>1. i - 1 \in 1..(Len(q) - 1) /\ i - 1 + 1 = i
        BY <2>4, <3>2
      <4>2. q[i] = Tail(q)[i - 1]
        BY <2>4, <4>1
      <4>3. QED
        BY <2>3, <2>4, <4>1, <4>2
    <3>3. QED
      BY <3>1, <3>2
  <2>7. QED
    BY <2>2, <2>5, <2>6
<1>6. Head(queue[t]) \in Action /\ Head(queue[t]) \in Pending(t)
  <2>1. Head(queue[t]) = queue[t][1] /\ 1 \in 1..Len(queue[t]) /\ Head(queue[t]) \in Action
    BY <1>1
  <2>2. QED
    BY <2>1 DEF Pending
<1>7. QED
  BY <1>4, <1>5, <1>6

\* A step of a facility concerns one thread, and at the end its command.
LEMMA ExecuteMoves ==
  ASSUME DiscoveryTypeOK, NEW t \in Thread, Execute(t)
  PROVE  /\ pc[t] # "idle" /\ action[t] \in Action /\ action[t] \in Pending(t)
         /\ \A u \in Thread : u # t =>
              /\ pc'[u] = pc[u] /\ action'[u] = action[u] /\ number'[u] = number[u]
              /\ queue'[u] = queue[u] /\ Pending(u)' = Pending(u)
         /\ Pending(t)' \subseteq Pending(t)
         /\ pc'[t] # "idle" => action'[t] = action[t]
         /\ pc'[t] = "idle" => pc[t] = "publish" /\ action'[t] = NoAction
         /\ queue' = queue /\ infos' = infos /\ crossed' = crossed /\ kind' = kind
<1>1. queue' = queue /\ infos' = infos /\ crossed' = crossed /\ Step(t)
  BY DEF Execute, discovery
<1>2. pc[t] # "idle" /\ kind' = kind
  BY <1>1 DEF Step, CreateConnection, AddClient, SetClient, SetClientFails, PushSender,
              TakeNumber, RemoveClient, EraseSenders, Publish
<1>3. action[t] \in Action /\ action[t] \in Pending(t)
  BY <1>2, BusyHasAction DEF DiscoveryTypeOK, Pending
<1>4. /\ pc'[t] # "idle" => action'[t] = action[t]
      /\ pc'[t] = "idle" => pc[t] = "publish" /\ action'[t] = NoAction
  <2>1. CASE Publish(t)
    BY <2>1 DEF Publish, DiscoveryTypeOK, TypeOK
  <2>2. CASE ~Publish(t)
    BY <1>1, <2>2 DEF Step, CreateConnection, AddClient, SetClient, SetClientFails, PushSender,
              TakeNumber, RemoveClient, EraseSenders, DiscoveryTypeOK, TypeOK
  <2>3. QED
    BY <2>1, <2>2
<1>5. ASSUME NEW u \in Thread, u # t
      PROVE  pc'[u] = pc[u] /\ action'[u] = action[u] /\ number'[u] = number[u]
  BY <1>1, <1>5 DEF Step, CreateConnection, AddClient, SetClient, SetClientFails, PushSender,
              TakeNumber, RemoveClient, EraseSenders, Publish, Given, DiscoveryTypeOK, TypeOK
<1>6. ASSUME NEW u \in Thread, u # t PROVE Pending(u)' = Pending(u)
  BY <1>1, <1>5, <1>6 DEF Pending
<1>7. Pending(t)' \subseteq Pending(t)
  <2>1. Pending(t)' = {queue[t][i] : i \in 1..Len(queue[t])}
                      \cup (IF pc'[t] = "idle" THEN {} ELSE {action'[t]})
    BY <1>1 DEF Pending
  <2>2. QED
    BY <1>2, <1>4, <2>1 DEF Pending
<1>8. QED
  BY <1>1, <1>2, <1>3, <1>4, <1>5, <1>6, <1>7

Wired == /\ DiscoveryTypeOK /\ MapPointsToSenders
         /\ CommandsLead /\ SendersLead /\ Phases /\ NoneCross

\* The converter's lists are of commands that lead to servers, and record
\* what they cross.
LEMMA DeliverKeepsWired ==
  ASSUME Wired, NEW t \in Thread, NEW list \in Seq(Action), Idle(t), UNCHANGED vars,
         Deliver(t, list),
         \A a : Contains(list, a) => \E s \in Server : a.locator = LocatorOf[s][a.name]
  PROVE  CommandsLead' /\ SendersLead' /\ Phases' /\ NoneCross'
<1>1. /\ \A a : a \in Pending(t)' <=> Contains(list, a)
      /\ \A u \in Thread : u # t => Pending(u)' = Pending(u)
      /\ \A f \in Name, l \in Locator : <<f, l>> \notin crossed' =>
              /\ <<f, l>> \notin crossed
              /\ \A u \in Thread : u # t =>
                   /\ ~(/\ Contains(list, Command("Register", f, l))
                        /\ Command("Deregister", f, l) \in Pending(u))
                   /\ ~(/\ Contains(list, Command("Deregister", f, l))
                        /\ Command("Register", f, l) \in Pending(u))
  BY DeliverPending DEF Wired
<1>2. CommandsLead'
  BY <1>1 DEF Wired, CommandsLead
<1>3. SendersLead' /\ Phases'
  BY DEF vars, facility, Wired, SendersLead, Phases
<1>4. NoneCross'
  <2> SUFFICES ASSUME NEW f \in Name, NEW l \in Locator, <<f, l>> \notin crossed',
                      NEW u \in Thread, NEW v \in Thread,
                      Command("Register", f, l) \in Pending(u)',
                      Command("Deregister", f, l) \in Pending(v)', u # v
               PROVE  FALSE
    BY DEF NoneCross
  <2>1. CASE u = t
    BY <1>1, <2>1
  <2>2. CASE v = t
    BY <1>1, <2>2
  <2>3. CASE u # t /\ v # t
    BY <1>1, <2>3 DEF Wired, NoneCross
  <2>4. QED
    BY <2>1, <2>2, <2>3
<1>5. QED
  BY <1>2, <1>3, <1>4

\* The lists of heartbeats and of the timer are such.
LEMMA HeartbeatKeepsWired ==
  ASSUME Wired, NEW t \in Thread, NEW s \in Server, HeartbeatGood(t, s)
  PROVE  CommandsLead' /\ SendersLead' /\ Phases' /\ NoneCross'
<1> DEFINE list == HeartbeatList(Replaces(s), s)
<1>1. /\ list \in Seq(Action)
      /\ \A a : Contains(list, a) => \E f \in Name :
                         \/ a = Command("Register", f, LocatorOf[s][f])
                         \/ a = Command("Deregister", f, LocatorOf[s][f])
  <2>1. Replaces(s) \in BOOLEAN
    BY DEF Replaces
  <2>2. QED
    BY <2>1, DiscoveryAssumption, HeartbeatListIsRight
<1>2. Idle(t) /\ UNCHANGED vars /\ Deliver(t, list)
  BY HeartbeatGoodDelivers DEF HeartbeatGood, Arrives
<1> HIDE DEF list
<1>3. \A a : Contains(list, a) => \E r \in Server : a.locator = LocatorOf[r][a.name]
  BY <1>1 DEF Command
<1>4. QED
  BY <1>1, <1>2, <1>3, DeliverKeepsWired

\* handleTimer delivers its list, and forgets the silent servers.
LEMMA TimerDelivers ==
  ASSUME NEW t \in Thread, Timer(t)
  PROVE  \E silent \in SUBSET {s \in Server : infos[s] = "good"} :
           /\ silent # {}
           /\ infos' = [s \in Server |-> IF s \in silent THEN "unknown" ELSE infos[s]]
           /\ \E list \in Seq(Action) :
                /\ Deliver(t, list)
                /\ \A a : Contains(list, a)
                          <=> \E s \in silent, f \in Name :
                                a = Command("Deregister", f, LocatorOf[s][f])
<1>1. PICK silent \in (SUBSET {s \in Server : infos[s] = "good"}) \ {{}} :
        \E order \in SetToSeqs(silent) :
          /\ Deliver(t, SilenceList(order))
          /\ infos' = [s \in Server |-> IF s \in silent THEN "unknown" ELSE infos[s]]
  BY DEF Timer, SilenceList
<1>2. PICK order \in SetToSeqs(silent) :
          /\ Deliver(t, SilenceList(order))
          /\ infos' = [s \in Server |-> IF s \in silent THEN "unknown" ELSE infos[s]]
  BY <1>1
<1>3. silent \in SUBSET Server /\ silent # {}
  OBVIOUS
<1>4. /\ SilenceList(order) \in Seq(Action)
      /\ \A a : Contains(SilenceList(order), a)
                <=> \E s \in silent, f \in Name :
                      a = Command("Deregister", f, LocatorOf[s][f])
  BY <1>3, DiscoveryAssumption, SilenceListIsRight
<1>5. \E list \in Seq(Action) :
        /\ Deliver(t, list)
        /\ \A a : Contains(list, a)
                  <=> \E s \in silent, f \in Name :
                        a = Command("Deregister", f, LocatorOf[s][f])
  BY <1>2, <1>4
<1>6. QED
  BY <1>2, <1>5

\* A list of handleTimer keeps the wiring.
LEMMA TimerKeepsWired ==
  ASSUME Wired, NEW t \in Thread, Timer(t)
  PROVE  CommandsLead' /\ SendersLead' /\ Phases' /\ NoneCross'
<1>1. PICK silent \in SUBSET {s \in Server : infos[s] = "good"} :
        \E list \in Seq(Action) :
          /\ Deliver(t, list)
          /\ \A a : Contains(list, a) <=> \E s \in silent, f \in Name :
                                            a = Command("Deregister", f, LocatorOf[s][f])
  BY TimerDelivers
<1>2. PICK list \in Seq(Action) :
          /\ Deliver(t, list)
          /\ \A a : Contains(list, a) <=> \E s \in silent, f \in Name :
                                            a = Command("Deregister", f, LocatorOf[s][f])
  BY <1>1
<1>3. Idle(t) /\ UNCHANGED vars
  BY DEF Timer
<1>4. \A a : Contains(list, a) => \E r \in Server : a.locator = LocatorOf[r][a.name]
  BY <1>2 DEF Command
<1>5. QED
  BY <1>2, <1>3, <1>4, DeliverKeepsWired

\* Handing a command over changes nothing but the phase of the thread.
LEMMA DeliverNextKeepsWired ==
  ASSUME Wired, NEW t \in Thread, DeliverNext(t)
  PROVE  CommandsLead' /\ SendersLead' /\ Phases' /\ NoneCross'
<1> DEFINE a == Head(queue[t])
<1>1. (\A u \in Thread : Pending(u)' = Pending(u)) /\ a \in Action
  BY DeliverNextPending DEF Wired
<1>2. CommandsLead' /\ NoneCross'
  BY <1>1 DEF Wired, CommandsLead, NoneCross, DeliverNext
<1>3. SendersLead'
  BY DEF Wired, SendersLead, DeliverNext, Handle, facility
<1>4. Phases'
  <2> DEFINE p == IF a.type = "Register" THEN "set"
                  ELSE CASE kind = "numbered" -> "take"
                         [] kind \in {"exclusive", "shared"} -> "remove"
                         [] kind = "none" -> "erase"
  <2>1. kind \in {"numbered", "exclusive", "shared", "none"} /\ kind' = kind
    BY FacilityAssumption DEF Wired, DiscoveryTypeOK, TypeOK, FacilityAssumption, DeliverNext,
                              Handle
  <2>2. \/ p = "set" /\ a.type = "Register"
        \/ a.type = "Deregister" /\ \/ p = "take" /\ kind = "numbered"
                                    \/ p = "remove" /\ kind # "none"
                                    \/ p = "erase"
    <3>1. a.type \in {"Register", "Deregister"}
      BY <1>1 DEF Action
    <3> HIDE DEF a
    <3>2. QED
      BY <2>1, <3>1
  <2>3. /\ pc' = [pc EXCEPT ![t] = p] /\ pc \in [Thread -> Status]
        /\ action' = [action EXCEPT ![t] = a] /\ action \in [Thread -> Action \cup {NoAction}]
    BY DEF DeliverNext, Handle, Wired, DiscoveryTypeOK, TypeOK
  <2> HIDE DEF p, a
  <2>4. pc'[t] = p /\ action'[t] = a
        /\ \A u \in Thread : u # t => pc'[u] = pc[u] /\ action'[u] = action[u]
    BY <2>3
  <2>5. QED
    BY <2>1, <2>2, <2>4 DEF Wired, Phases
<1>5. QED
  BY <1>2, <1>3, <1>4

\* A command leads its senders to where it leads itself.
LEMMA ExecuteKeepsWired ==
  ASSUME Wired, NEW t \in Thread, Execute(t)
  PROVE  CommandsLead' /\ SendersLead' /\ Phases' /\ NoneCross'
<1>1. /\ pc[t] # "idle" /\ action[t] \in Action /\ action[t] \in Pending(t)
      /\ \A u \in Thread : u # t =>
              pc'[u] = pc[u] /\ action'[u] = action[u] /\ Pending(u)' = Pending(u)
      /\ Pending(t)' \subseteq Pending(t)
      /\ pc'[t] # "idle" => action'[t] = action[t]
      /\ crossed' = crossed /\ kind' = kind
  BY ExecuteMoves DEF Wired
<1>2. Step(t)
  BY DEF Execute
<1>3. TypeOK
  BY DEF Wired, DiscoveryTypeOK
<1>4. \A u \in Thread : Pending(u)' \subseteq Pending(u)
  BY <1>1
<1>5. CommandsLead' /\ NoneCross'
  <2>1. CommandsLead'
    BY <1>4 DEF Wired, CommandsLead
  <2>2. NoneCross'
    BY <1>1, <1>4 DEF Wired, NoneCross
  <2>3. QED
    BY <2>1, <2>2
<1>6. SendersLead'
  <2>1. CASE PushSender(t)
    <3> DEFINE l == action[t].locator
               f == action[t].name
               x == [locator |-> l, number |-> number[t], alive |-> alive[t],
                     copy |-> Cardinality(SendersTo(f, l))]
    <3>1. underlyingSenders' = [underlyingSenders EXCEPT ![f] = @ \cup {x}]
          /\ f \in Name /\ x.locator = l
      BY <1>1, <2>1 DEF PushSender, Action
    <3>2. \E s \in Server : l = LocatorOf[s][f]
      BY <1>1 DEF Wired, CommandsLead
    <3> HIDE DEF l, f, x
    <3>3. \A g \in Name : underlyingSenders'[g] = IF g = f THEN underlyingSenders[g] \cup {x}
                                                  ELSE underlyingSenders[g]
      BY <1>3, <3>1 DEF TypeOK
    <3>4. QED
      BY <3>1, <3>2, <3>3 DEF Wired, SendersLead
  <2>2. CASE RemoveClient(t) /\ Destroy(action[t].locator)
    <3>1. \A f \in Name : {s.locator : s \in underlyingSenders'[f]}
                          = {s.locator : s \in underlyingSenders[f]}
      BY <1>1, <1>3, <2>2, DestroyKeeps DEF Wired, Action
    <3>2. ASSUME NEW f \in Name, NEW x \in underlyingSenders'[f]
          PROVE  \E y \in underlyingSenders[f] : y.locator = x.locator
      <4>1. x.locator \in {s.locator : s \in underlyingSenders[f]}
        BY <3>1
      <4>2. QED
        BY <4>1
    <3>3. QED
      BY <3>2 DEF Wired, SendersLead
  <2>3. CASE EraseSenders(t)
    <3>1. \A f \in Name : underlyingSenders'[f] \subseteq underlyingSenders[f]
      BY <1>3, <2>3 DEF EraseSenders, TypeOK
    <3>2. QED
      BY <3>1 DEF Wired, SendersLead
  <2>4. CASE underlyingSenders' = underlyingSenders
    BY <2>4 DEF Wired, SendersLead
  <2>5. QED
    BY <1>2, <2>1, <2>2, <2>3, <2>4 DEF Step, CreateConnection, AddClient, SetClient,
       SetClientFails, TakeNumber, RemoveClient, Publish, facility
<1>7. Phases'
  <2>1. pc'[t] \in {"add", "push"} => action[t].type = "Register" /\ pc'[t] # "idle"
    BY <1>2, <1>3 DEF Wired, Phases, Step, CreateConnection, AddClient, SetClient,
       SetClientFails, PushSender, TakeNumber, RemoveClient, EraseSenders, Publish, TypeOK
  <2>2. pc'[t] \in {"remove", "erase"} => action[t].type = "Deregister" /\ pc'[t] # "idle"
    BY <1>2, <1>3 DEF Wired, Phases, Step, CreateConnection, AddClient, SetClient,
       SetClientFails, PushSender, TakeNumber, RemoveClient, EraseSenders, Publish, TypeOK
  <2>3. pc'[t] \notin {"set", "take"}
    BY <1>2, <1>3 DEF Wired, Phases, Step, CreateConnection, AddClient, SetClient,
       SetClientFails, PushSender, TakeNumber, RemoveClient, EraseSenders, Publish, TypeOK
  <2>4. (pc'[t] = "add" => kind = "numbered") /\ (pc'[t] = "remove" => kind # "none")
    BY <1>2, <1>3 DEF Wired, Phases, Step, CreateConnection, AddClient, SetClient,
       SetClientFails, PushSender, TakeNumber, RemoveClient, EraseSenders, Publish, TypeOK
  <2>5. QED
    BY <1>1, <2>1, <2>2, <2>3, <2>4 DEF Wired, Phases
<1>8. QED
  BY <1>5, <1>6, <1>7

\* Every step of converter and facilities keeps the wiring.
LEMMA WiredKeeps == Wired /\ [DNext]_dvars => Wired'
<1> SUFFICES ASSUME Wired, [DNext]_dvars PROVE Wired'
  OBVIOUS
<1>1. DiscoveryTypeOK' /\ MapPointsToSenders'
  BY DNextKeepsTypes DEF Wired
<1> DEFINE Rest == CommandsLead' /\ SendersLead' /\ Phases' /\ NoneCross'
<1>2. ASSUME /\ UNCHANGED vars /\ queue' = queue /\ crossed' = crossed
      PROVE  Rest
  BY <1>2 DEF vars, facility, Wired, CommandsLead, SendersLead, Phases, NoneCross, Pending
<1>3. ASSUME NEW s \in Server, End(s) PROVE Rest
  BY <1>2, <1>3 DEF End, discovery
<1>4. ASSUME NEW t \in Thread, NEW s \in Server, HeartbeatIncomplete(t, s) PROVE Rest
  BY <1>2, <1>4 DEF HeartbeatIncomplete
<1>5. ASSUME UNCHANGED dvars PROVE Rest
  BY <1>2, <1>5 DEF dvars, discovery
<1>6. Rest
  <2> HIDE DEF Rest
  <2>1. ASSUME NEW t \in Thread, NEW s \in Server, HeartbeatGood(t, s) PROVE Rest
    BY <2>1, HeartbeatKeepsWired DEF Rest
  <2>2. ASSUME NEW t \in Thread, Timer(t) \/ DeliverNext(t) \/ Execute(t) PROVE Rest
    BY <2>2, TimerKeepsWired, DeliverNextKeepsWired, ExecuteKeepsWired DEF Rest
  <2>3. QED
    BY <1>3, <1>4, <1>5, <2>1, <2>2 DEF DNext
<1>7. QED
  BY <1>1, <1>6 DEF Wired

\* At the start no command is under way (converter and facilities).
LEMMA DInitWired == DInit => Wired
<1> SUFFICES ASSUME DInit PROVE Wired
  OBVIOUS
<1>1. DiscoveryTypeOK /\ MapPointsToSenders
  BY DInitTypes
<1>2. \A t \in Thread : Pending(t) = {}
  BY DEF DInit, Init, Pending
<1>3. CommandsLead /\ NoneCross
  BY <1>2 DEF CommandsLead, NoneCross
<1>4. SendersLead /\ Phases
  BY DEF DInit, Init, SendersLead, Phases
<1>5. QED
  BY <1>1, <1>3, <1>4 DEF Wired

-----------------------------------------------------------------------------
(* What a step of one command does to the others' locators.                *)

\* A command for another locator leaves the senders, the client and the
\* threads of this one alone.
LEMMA StepElsewhere ==
  ASSUME TypeOK, NEW t \in Thread, Step(t), NEW f \in Name, NEW l \in Locator,
         action[t].locator # l
  PROVE  /\ SendersTo(f, l)' = SendersTo(f, l)
         /\ l \in connected' <=> l \in connected
         /\ clients'[l] = clients[l]
         /\ clientNumberRecord'[f][l] = clientNumberRecord[f][l]
         /\ \A u \in Thread : u # t /\ action[u] # NoAction /\ action[u].locator = l
              => alive'[u] = alive[u]
<1> DEFINE m == action[t].locator
           g == action[t].name
<1>1. pc[t] # "idle"
  BY DEF Step, CreateConnection, AddClient, SetClient, SetClientFails, PushSender,
         TakeNumber, RemoveClient, EraseSenders, Publish
<1>2. m \in Locator /\ g \in Name /\ m # l
  BY <1>1, BusyHasAction
<1>3. SendersTo(f, l)' = SendersTo(f, l)
  <2>1. CASE PushSender(t)
    <3> DEFINE x == [locator |-> m, number |-> number[t], alive |-> alive[t],
                     copy |-> Cardinality(SendersTo(g, m))]
    <3>1. underlyingSenders' = [underlyingSenders EXCEPT ![g] = @ \cup {x}] /\ x.locator = m
      BY <2>1 DEF PushSender
    <3> HIDE DEF m, g, x
    <3>2. underlyingSenders'[f] = underlyingSenders[f]
          \/ underlyingSenders'[f] = underlyingSenders[f] \cup {x}
      BY <3>1 DEF TypeOK
    <3>3. QED
      BY <1>2, <3>1, <3>2 DEF SendersTo
  <2>2. CASE RemoveClient(t) /\ Destroy(m)
    <3> DEFINE After(s) == [s EXCEPT !.alive = @ /\ s.locator # m]
    <3>1. underlyingSenders'[f] = {After(s) : s \in underlyingSenders[f]}
      BY <2>2 DEF Destroy
    <3>2. underlyingSenders[f] \subseteq Sender
      BY DEF TypeOK
    <3>3. \A s \in Sender : After(s).locator = s.locator
      BY DEF Sender
    <3>4. ASSUME NEW s \in Sender, s.locator # m PROVE After(s) = s
      <4>1. s.alive \in BOOLEAN /\ s = [locator |-> s.locator, number |-> s.number,
                                        alive |-> s.alive, copy |-> s.copy]
        BY DEF Sender
      <4>2. (s.alive /\ s.locator # m) = s.alive
        BY <3>4, <4>1
      <4>3. After(s) = [s EXCEPT !.alive = s.alive]
        BY <4>2
      <4>4. QED
        BY <4>1, <4>3 DEF Sender
    <3> HIDE DEF After, m
    <3>5. QED
      BY <1>2, <3>1, <3>2, <3>3, <3>4 DEF SendersTo
  <2>3. CASE EraseSenders(t)
    <3>1. underlyingSenders' = [underlyingSenders EXCEPT ![g] = @ \ SendersTo(g, m)]
      BY <2>3 DEF EraseSenders
    <3> HIDE DEF m, g
    <3>2. underlyingSenders'[f] = underlyingSenders[f]
          \/ underlyingSenders'[f] = underlyingSenders[f] \ SendersTo(f, m)
      BY <3>1 DEF TypeOK
    <3>3. QED
      BY <1>2, <3>2 DEF SendersTo
  <2>4. CASE underlyingSenders' = underlyingSenders
    BY <2>4 DEF SendersTo
  <2>5. QED
    BY <2>1, <2>2, <2>3, <2>4 DEF Step, CreateConnection, AddClient, SetClient,
       SetClientFails, TakeNumber, RemoveClient, Publish, facility
<1>4. l \in connected' <=> l \in connected
  BY <1>2 DEF Step, CreateConnection, AddClient, SetClient, SetClientFails, PushSender,
         TakeNumber, RemoveClient, EraseSenders, Publish, Destroy, component
<1>5. clients'[l] = clients[l]
  BY <1>2 DEF Step, CreateConnection, AddClient, SetClient, SetClientFails, PushSender,
         TakeNumber, RemoveClient, EraseSenders, Publish, component, TypeOK
<1>6. clientNumberRecord'[f][l] = clientNumberRecord[f][l]
  <2>1. ASSUME NEW n, clientNumberRecord' = [clientNumberRecord EXCEPT ![g][m] = n]
        PROVE  clientNumberRecord'[f][l] = clientNumberRecord[f][l]
    <3>1. clientNumberRecord \in [Name -> [Locator -> Nat]]
      BY DEF TypeOK
    <3> HIDE DEF m, g
    <3>2. QED
      BY <1>2, <2>1, <3>1
  <2>2. CASE clientNumberRecord' = clientNumberRecord
    BY <2>2
  <2>3. CASE PushSender(t)
    BY <2>1, <2>2, <2>3 DEF PushSender
  <2>4. CASE TakeNumber(t)
    BY <2>1, <2>4 DEF TakeNumber
  <2>5. QED
    BY <2>2, <2>3, <2>4 DEF Step, CreateConnection, AddClient, SetClient, SetClientFails,
       RemoveClient, EraseSenders, Publish, facility
<1>7. ASSUME NEW u \in Thread, u # t, action[u] # NoAction, action[u].locator = l
      PROVE  alive'[u] = alive[u]
  <2>1. CASE RemoveClient(t) /\ Destroy(m)
    <3>1. alive' = [v \in Thread |-> alive[v] /\ (action[v] # NoAction => action[v].locator # m)]
      BY <2>1 DEF Destroy
    <3>2. alive[u] \in BOOLEAN
      BY DEF TypeOK
    <3> HIDE DEF m
    <3>3. QED
      BY <1>2, <1>7, <3>1, <3>2
  <2>2. CASE ~(RemoveClient(t) /\ Destroy(m))
    BY <1>7, <2>2 DEF Step, CreateConnection, AddClient, SetClient, SetClientFails, PushSender,
         TakeNumber, RemoveClient, EraseSenders, Publish, Given, TypeOK
  <2>3. QED
    BY <2>1, <2>2
<1>8. QED
  BY <1>3, <1>4, <1>5, <1>6, <1>7

\* The command of a thread is one of two for the sender it is about.
LEMMA CommandIsHere ==
  ASSUME Wired, NEW t \in Thread, pc[t] # "idle", NEW f \in Name, NEW r \in Server,
         action[t].locator = LocatorOf[r][f]
  PROVE  /\ action[t].name = f
         /\ action[t] \in {Command("Register", f, LocatorOf[r][f]),
                           Command("Deregister", f, LocatorOf[r][f])}
<1>1. action[t] \in Action /\ action[t] \in Pending(t)
  BY BusyHasAction DEF Wired, DiscoveryTypeOK, Pending
<1>2. PICK s \in Server : action[t].locator = LocatorOf[s][action[t].name]
  BY <1>1 DEF Wired, CommandsLead
<1>3. action[t].name = f
  <2>1. action[t].name \in Name
    BY <1>1 DEF Action
  <2>2. \A q, p \in Server, h, g \in Name : LocatorOf[q][h] = LocatorOf[p][g] => h = g
    BY DiscoveryAssumption DEF DiscoveryAssumption
  <2>3. LocatorOf[s][action[t].name] = LocatorOf[r][f]
    BY <1>2
  <2>4. QED
    BY <2>1, <2>2, <2>3
<1>4. QED
  BY <1>1, <1>3 DEF Action, Command

-----------------------------------------------------------------------------
(* The clients of the senders.                                             *)

\* Every sender of a facility to l has its client, but for the time between
\* removeRPCClient and the erasing of deregisterFacility; and so has a thread
\* that was given one and has not pushed its sender yet.
ThereAt(f, l) ==
  /\ \A x \in SendersTo(f, l) :
       x.alive \/ \E t \in Thread : pc[t] = "erase" /\ action[t].locator = l
  /\ \A t \in Thread :
       pc[t] \in {"add", "push"} /\ action[t] = Command("Register", f, l) => alive[t]
ClientsThere ==
  \A f \in Name, r \in Server :
    <<f, LocatorOf[r][f]>> \notin crossed => ThereAt(f, LocatorOf[r][f])

\* A step of a command for another locator (any function of the facility).
LEMMA ElsewhereKeepsThere ==
  ASSUME Wired, NEW t \in Thread, Execute(t), NEW f \in Name, NEW l \in Locator,
         ThereAt(f, l), action[t].locator # l
  PROVE  ThereAt(f, l)'
<1>1. TypeOK /\ Step(t)
  BY DEF Wired, DiscoveryTypeOK, Execute
<1>2. /\ SendersTo(f, l)' = SendersTo(f, l)
      /\ \A u \in Thread : u # t /\ action[u] # NoAction /\ action[u].locator = l
           => alive'[u] = alive[u]
  BY <1>1, StepElsewhere
<1>3. /\ \A u \in Thread : u # t => pc'[u] = pc[u] /\ action'[u] = action[u]
      /\ pc'[t] # "idle" => action'[t] = action[t]
  BY ExecuteMoves DEF Wired
<1>4. ASSUME NEW x \in SendersTo(f, l)'
      PROVE  x.alive \/ \E u \in Thread : pc'[u] = "erase" /\ action'[u].locator = l
  BY <1>2, <1>3, <1>4 DEF ThereAt
<1>5. ASSUME NEW u \in Thread, pc'[u] \in {"add", "push"},
             action'[u] = Command("Register", f, l)
      PROVE  alive'[u]
  <2>1. u # t
    BY <1>3, <1>5 DEF Command
  <2>2. pc[u] \in {"add", "push"} /\ action[u] = Command("Register", f, l)
    BY <1>3, <1>5, <2>1
  <2>3. action[u] # NoAction /\ action[u].locator = l
    BY <1>1, <2>2, BusyHasAction DEF Command, TypeOK
  <2>4. QED
    BY <1>2, <2>1, <2>2, <2>3 DEF ThereAt
<1>6. QED
  BY <1>4, <1>5 DEF ThereAt

\* A step of a command for this sender (registerFacility,
\* deregisterFacility).
LEMMA HereKeepsThere ==
  ASSUME Wired, NEW t \in Thread, Execute(t), NEW f \in Name, NEW r \in Server,
         NEW l \in Locator, l = LocatorOf[r][f], <<f, l>> \notin crossed,
         ThereAt(f, l), action[t].locator = l
  PROVE  ThereAt(f, l)'
<1>1. TypeOK /\ Step(t)
  BY DEF Wired, DiscoveryTypeOK, Execute
<1>2. /\ pc[t] # "idle" /\ action[t] \in Pending(t)
      /\ \A u \in Thread : u # t => pc'[u] = pc[u] /\ action'[u] = action[u]
      /\ pc'[t] # "idle" => action'[t] = action[t]
  BY ExecuteMoves DEF Wired
<1>3. /\ action[t].name = f
      /\ action[t] \in {Command("Register", f, l), Command("Deregister", f, l)}
  BY <1>2, CommandIsHere
<1>4. ASSUME SendersTo(f, l)' = SendersTo(f, l), pc[t] # "erase",
             \A u \in Thread : u # t => alive'[u] = alive[u],
             pc'[t] \in {"add", "push"} => alive'[t]
      PROVE  ThereAt(f, l)'
  <2>1. ASSUME NEW x \in SendersTo(f, l)'
        PROVE  x.alive \/ \E u \in Thread : pc'[u] = "erase" /\ action'[u].locator = l
    BY <1>2, <1>4, <2>1 DEF ThereAt
  <2>2. ASSUME NEW u \in Thread, pc'[u] \in {"add", "push"},
               action'[u] = Command("Register", f, l)
        PROVE  alive'[u]
    BY <1>2, <1>4, <2>2 DEF ThereAt
  <2>3. QED
    BY <2>1, <2>2 DEF ThereAt
<1>5. CASE CreateConnection(t) \/ SetClient(t)
  BY <1>4, <1>5 DEF CreateConnection, SetClient, Given, SendersTo, facility, TypeOK, Wired,
     DiscoveryTypeOK
<1>6. CASE AddClient(t)
  <2>1. alive[t]
    BY <1>3, <1>6 DEF ThereAt, AddClient, Phases, Wired, Command
  <2>2. QED
    BY <1>4, <1>6, <2>1 DEF AddClient, SendersTo, facility
<1>7. CASE SetClientFails(t) \/ TakeNumber(t) \/ Publish(t)
  <2>1. alive \in [Thread -> BOOLEAN] /\ pc \in [Thread -> Status]
    BY <1>1 DEF TypeOK
  <2>2. QED
    BY <1>4, <1>7, <2>1 DEF SetClientFails, TakeNumber, Publish, SendersTo, facility
<1>8. CASE PushSender(t)
  <2>1. alive[t]
    BY <1>3, <1>8 DEF ThereAt, PushSender, Phases, Wired, Command
  <2>2. PICK x : /\ underlyingSenders' = [underlyingSenders EXCEPT ![f] = @ \cup {x}]
                 /\ x.alive
    <3> DEFINE x == [locator |-> l, number |-> number[t], alive |-> alive[t],
                     copy |-> Cardinality(SendersTo(f, l))]
    <3>1. underlyingSenders' = [underlyingSenders EXCEPT ![f] = @ \cup {x}]
      BY <1>3, <1>8 DEF PushSender
    <3>2. x.alive
      BY <2>1
    <3> HIDE DEF x
    <3>3. QED
      BY <3>1, <3>2
  <2>3. SendersTo(f, l)' \subseteq SendersTo(f, l) \cup {x}
    BY <1>1, <2>2 DEF SendersTo, TypeOK
  <2>4. pc[t] = "push" /\ pc'[t] = "publish" /\ alive' = alive
    BY <1>1, <1>8 DEF PushSender, TypeOK
  <2>5. ASSUME NEW y \in SendersTo(f, l)'
        PROVE  y.alive \/ \E u \in Thread : pc'[u] = "erase" /\ action'[u].locator = l
    BY <1>2, <2>2, <2>3, <2>4, <2>5 DEF ThereAt
  <2>6. ASSUME NEW u \in Thread, pc'[u] \in {"add", "push"},
               action'[u] = Command("Register", f, l)
        PROVE  alive'[u]
    BY <1>2, <2>4, <2>6 DEF ThereAt
  <2>7. QED
    BY <2>5, <2>6 DEF ThereAt
<1>9. CASE RemoveClient(t)
  <2>1. pc[t] = "remove" /\ pc'[t] = "erase" /\ action' = action
    BY <1>1, <1>9 DEF RemoveClient, TypeOK
  <2>2. action[t] = Command("Deregister", f, l)
    BY <1>3, <2>1 DEF Phases, Wired, Command
  <2>3. ASSUME NEW u \in Thread, pc'[u] \in {"add", "push"},
               action'[u] = Command("Register", f, l)
        PROVE  FALSE
    <3>1. u # t /\ pc[u] # "idle" /\ action[u] = Command("Register", f, l)
      BY <1>2, <2>1, <2>3
    <3>2. Command("Register", f, l) \in Pending(u)
      BY <3>1 DEF Pending
    <3>3. Command("Deregister", f, l) \in Pending(t)
      BY <1>2, <2>2
    <3>4. QED
      BY <3>1, <3>2, <3>3 DEF Wired, NoneCross
  <2>4. action'[t].locator = l
    BY <2>1
  <2>5. QED
    BY <2>1, <2>3, <2>4 DEF ThereAt
<1>10. CASE EraseSenders(t)
  <2>1. underlyingSenders' = [underlyingSenders EXCEPT ![f] = @ \ SendersTo(f, l)]
    BY <1>3, <1>10 DEF EraseSenders
  <2>2. SendersTo(f, l)' = {}
    BY <1>1, <2>1 DEF SendersTo, TypeOK
  <2>3. pc'[t] = "publish" /\ alive' = alive
    BY <1>1, <1>10 DEF EraseSenders, TypeOK
  <2>4. ASSUME NEW u \in Thread, pc'[u] \in {"add", "push"},
               action'[u] = Command("Register", f, l)
        PROVE  alive'[u]
    BY <1>2, <2>3, <2>4 DEF ThereAt
  <2>5. QED
    BY <2>2, <2>4 DEF ThereAt
<1>11. QED
  BY <1>1, <1>5, <1>6, <1>7, <1>8, <1>9, <1>10 DEF Step

\* What the converter does changes no sender, and adds to what is on record.
LEMMA DiscoveryKeepsThere ==
  ASSUME NEW f \in Name, NEW l \in Locator, ThereAt(f, l), UNCHANGED vars
  PROVE  ThereAt(f, l)'
  BY DEF ThereAt, SendersTo, vars, facility

\* Nor does a command that begins (actuallyHandleFacilityAction).
LEMMA DeliverNextKeepsThere ==
  ASSUME Wired, NEW t \in Thread, DeliverNext(t), NEW f \in Name, NEW l \in Locator,
         ThereAt(f, l)
  PROVE  ThereAt(f, l)'
<1>1. /\ pc[t] = "idle"
      /\ underlyingSenders' = underlyingSenders /\ alive' = alive
      /\ pc'[t] \in {"set", "take", "remove", "erase"}
      /\ \A u \in Thread : u # t => pc'[u] = pc[u] /\ action'[u] = action[u]
  <2>1. kind \in {"numbered", "exclusive", "shared", "none"}
    BY FacilityAssumption DEF FacilityAssumption, Wired, DiscoveryTypeOK, TypeOK
  <2>2. QED
    BY <2>1 DEF DeliverNext, Handle, facility, Wired, DiscoveryTypeOK, TypeOK
<1>2. ASSUME NEW x \in SendersTo(f, l)'
      PROVE  x.alive \/ \E u \in Thread : pc'[u] = "erase" /\ action'[u].locator = l
  BY <1>1, <1>2 DEF ThereAt, SendersTo
<1>3. ASSUME NEW u \in Thread, pc'[u] \in {"add", "push"},
             action'[u] = Command("Register", f, l)
      PROVE  alive'[u]
  BY <1>1, <1>3 DEF ThereAt
<1>4. QED
  BY <1>2, <1>3 DEF ThereAt

\* What is on record stays there.
LEMMA CrossedGrows ==
  ASSUME DNext
  PROVE  crossed \subseteq crossed'
  BY DEF DNext, End, HeartbeatIncomplete, HeartbeatGood, Timer, DeliverNext, Execute,
     Deliver, discovery

\* Every step of converter and facilities keeps the clients of the senders.
LEMMA ThereKeeps == Wired /\ ClientsThere /\ [DNext]_dvars => ClientsThere'
<1> SUFFICES ASSUME Wired, ClientsThere, [DNext]_dvars,
                    NEW f \in Name, NEW r \in Server,
                    <<f, LocatorOf[r][f]>> \notin crossed'
             PROVE  ThereAt(f, LocatorOf[r][f])'
  BY DEF ClientsThere
<1>1. LocatorOf[r][f] \in Locator
  BY DiscoveryAssumption DEF DiscoveryAssumption
<1>2. PICK l \in Locator : l = LocatorOf[r][f]
  BY <1>1
<1>3. <<f, l>> \notin crossed
  BY <1>2, CrossedGrows DEF dvars, discovery
<1>4. ThereAt(f, l)
  BY <1>2, <1>3 DEF ClientsThere
<1>5. ThereAt(f, l)'
  <2>1. CASE UNCHANGED vars
    BY <1>4, <2>1, DiscoveryKeepsThere
  <2>2. ASSUME NEW t \in Thread, DeliverNext(t) PROVE ThereAt(f, l)'
    BY <1>4, <2>2, DeliverNextKeepsThere
  <2>3. ASSUME NEW t \in Thread, Execute(t) PROVE ThereAt(f, l)'
    BY <1>2, <1>3, <1>4, <2>3, ElsewhereKeepsThere, HereKeepsThere
  <2>4. QED
    BY <2>1, <2>2, <2>3 DEF DNext, End, HeartbeatIncomplete, HeartbeatGood, Timer, dvars
<1>6. QED
  BY <1>2, <1>5

\* Whichever sender a request is given to, its client is there, but for the
\* last step of a deregister command and for commands that crossed
\* (actuallyHandleInput, removeRPCClient).
THEOREM RequestsReachClients == DSpec => []RequestsFindClients
<1>1. DInit => Wired /\ ClientsThere
  <2>1. DInit => ClientsThere
    BY DEF DInit, Init, ClientsThere, ThereAt, SendersTo
  <2>2. QED
    BY <2>1, DInitWired
<1>2. Wired /\ ClientsThere /\ [DNext]_dvars => (Wired /\ ClientsThere)'
  BY WiredKeeps, ThereKeeps
<1>3. Wired /\ ClientsThere => RequestsFindClients
  <2> SUFFICES ASSUME Wired, ClientsThere, NEW f \in Name, NEW x \in underlyingSenders[f],
                      <<f, x.locator>> \notin crossed
               PROVE  \/ x.alive
                      \/ \E t \in Thread : pc[t] = "erase" /\ action[t].locator = x.locator
    BY DEF RequestsFindClients, Receivers
  <2>1. PICK r \in Server : x.locator = LocatorOf[r][f]
    BY DEF Wired, SendersLead
  <2>2. ThereAt(f, x.locator)
    BY <2>1 DEF ClientsThere
  <2>3. x \in SendersTo(f, x.locator)
    BY DEF SendersTo
  <2>4. QED
    BY <2>2, <2>3 DEF ThereAt
<1>4. QED
  BY <1>1, <1>2, <1>3, PTL DEF DSpec

-----------------------------------------------------------------------------
(* The senders of the servers.                                             *)

Good(f, l) == \E r \in Server : infos[r] = "good" /\ LocatorOf[r][f] = l

\* The servers at l have the same information.
Alike(f, l) ==
  \A q, r \in Server : LocatorOf[q][f] = l /\ LocatorOf[r][f] = l => HasSameInfo(q, r)

Executes(t, f, l) ==
  pc[t] # "idle" /\ action[t] \in {Command("Register", f, l), Command("Deregister", f, l)}
Waits(t, type, f, l) == Contains(queue[t], Command(type, f, l))
Has(t, type, f, l) == Command(type, f, l) \in Pending(t)

\* No two servers with the same information are good (handleHeartbeat).
GoodDiffer ==
  \A q, r \in Server :
    infos[q] = "good" /\ infos[r] = "good" /\ HasSameInfo(q, r) => q = r

\* One thread has all that is still to be done for a sender,
OneThread(f, l) ==
  \A t, u \in Thread :
    /\ \E type \in Types : Has(t, type, f, l)
    /\ \E type \in Types : Has(u, type, f, l)
    => t = u

\* it ends with what the converter knows,
Announced(f, l) ==
  \A t \in Thread :
    /\ Has(t, "Register", f, l) => Good(f, l)
    /\ Has(t, "Deregister", f, l) /\ ~Has(t, "Register", f, l) => ~Good(f, l)

\* and a Register is the last of it.
InOrder(f, l) ==
  \A t \in Thread :
    /\ pc[t] # "idle" /\ action[t] = Command("Register", f, l)
         => \A type \in Types : ~Waits(t, type, f, l)
    /\ \A i, j \in 1..Len(queue[t]) :
         queue[t][i] = Command("Register", f, l) /\ i < j
           => queue[t][j] \notin {Command("Register", f, l), Command("Deregister", f, l)}

\* A facility with its sender and the component with its client; without.
Full(f, l) ==
  /\ \E x \in underlyingSenders[f] : SendersTo(f, l) = {x}
  /\ kind # "none" => l \in connected
  /\ kind = "numbered" => clients[l] = {clientNumberRecord[f][l]}
Clean(f, l) ==
  /\ SendersTo(f, l) = {}
  /\ kind # "none" => l \notin connected
  /\ kind = "numbered" => clients[l] = {}

\* In the middle of a command.
Half(t, f, l) ==
  /\ pc[t] = "set" => Clean(f, l)
  /\ pc[t] \in {"add", "push"} =>
       /\ SendersTo(f, l) = {} /\ alive[t]
       /\ kind # "none" => l \in connected
       /\ kind = "numbered" =>
            clients[l] = IF pc[t] = "add" THEN {} ELSE {number[t]}
  /\ pc[t] = "take" => Full(f, l) \/ Clean(f, l)
  /\ pc[t] = "remove" /\ kind = "numbered" =>
       /\ clients[l] \subseteq {number[t]}
       /\ l \notin connected => clients[l] = {}
  /\ pc[t] = "erase" =>
       /\ kind # "none" => l \notin connected
       /\ kind = "numbered" => clients[l] = {}
  /\ pc[t] = "publish" =>
       IF action[t].type = "Register" THEN Full(f, l) ELSE Clean(f, l)

\* What the facility has is what the work that is left starts from.
Starts(f, l) ==
  (\A t \in Thread : ~Executes(t, f, l)) =>
    IF \E t \in Thread : Waits(t, "Deregister", f, l) THEN Full(f, l) \/ Clean(f, l)
    ELSE IF \E t \in Thread : Waits(t, "Register", f, l) THEN Clean(f, l)
    ELSE IF Good(f, l) THEN Full(f, l) ELSE Clean(f, l)

Settles(f, l) ==
  /\ OneThread(f, l) /\ Announced(f, l) /\ InOrder(f, l)
  /\ \A t \in Thread : Executes(t, f, l) => Half(t, f, l)
  /\ Starts(f, l)

AllSettle ==
  /\ GoodDiffer
  /\ \A f \in Name, r \in Server :
       /\ <<f, LocatorOf[r][f]>> \notin crossed
       /\ Alike(f, LocatorOf[r][f])
       => Settles(f, LocatorOf[r][f])

\* What a thread has not finished is what waits and what it executes.
LEMMA PendingMeans ==
  ASSUME NEW t \in Thread
  PROVE  \A a : a \in Pending(t)
                <=> Contains(queue[t], a) \/ (pc[t] # "idle" /\ action[t] = a)
  BY DEF Pending, Contains

\* The same for one sender.
LEMMA HasMeans ==
  ASSUME NEW t \in Thread, NEW type, NEW f, NEW l
  PROVE  Has(t, type, f, l)
         <=> Waits(t, type, f, l) \/ (pc[t] # "idle" /\ action[t] = Command(type, f, l))
  BY PendingMeans DEF Has, Waits

\* What the work for one sender does not touch.
Untouched(f, l) ==
  /\ kind' = kind
  /\ SendersTo(f, l)' = SendersTo(f, l)
  /\ (l \in connected') <=> (l \in connected)
  /\ clients'[l] = clients[l]
  /\ clientNumberRecord'[f][l] = clientNumberRecord[f][l]

\* Then it is as complete, or as clean, as before.
LEMMA UntouchedStays ==
  ASSUME NEW f, NEW l, Untouched(f, l)
  PROVE  (Full(f, l)' <=> Full(f, l)) /\ (Clean(f, l)' <=> Clean(f, l))
<1>1. (\E x \in underlyingSenders[f] : SendersTo(f, l) = {x})
      <=> \E x : SendersTo(f, l) = {x}
  BY DEF SendersTo
<1>2. (\E x \in underlyingSenders'[f] : SendersTo(f, l)' = {x})
      <=> \E x : SendersTo(f, l)' = {x}
  BY DEF SendersTo
<1>3. Full(f, l)' <=> Full(f, l)
  BY <1>1, <1>2 DEF Full, Untouched
<1>4. Clean(f, l)' <=> Clean(f, l)
  BY DEF Clean, Untouched
<1>5. QED
  BY <1>3, <1>4

\* A step that is about other senders.
LEMMA ElsewhereSettles ==
  ASSUME NEW f, NEW l, Settles(f, l), Untouched(f, l), InOrder(f, l)',
         Good(f, l)' <=> Good(f, l),
         \A t \in Thread : \A type \in Types :
           /\ Has(t, type, f, l)' <=> Has(t, type, f, l)
           /\ Waits(t, type, f, l)' <=> Waits(t, type, f, l),
         \A t \in Thread :
           /\ Executes(t, f, l)' <=> Executes(t, f, l)
           /\ Executes(t, f, l) =>
                /\ pc'[t] = pc[t] /\ action'[t] = action[t]
                /\ number'[t] = number[t] /\ alive'[t] = alive[t]
  PROVE  Settles(f, l)'
<1>1. "Register" \in Types /\ "Deregister" \in Types
  BY DEF Types
<1>2. OneThread(f, l)'
  BY DEF Settles, OneThread
<1>3. Announced(f, l)'
  BY <1>1 DEF Settles, Announced
<1>4. (Full(f, l)' <=> Full(f, l)) /\ (Clean(f, l)' <=> Clean(f, l))
  BY UntouchedStays
<1>5. ASSUME NEW t \in Thread, Executes(t, f, l)' PROVE Half(t, f, l)'
  <2>1. Half(t, f, l)
    BY <1>5 DEF Settles
  <2>2. Executes(t, f, l)
    BY <1>5
  <2>3. /\ pc'[t] = pc[t] /\ action'[t] = action[t]
        /\ number'[t] = number[t] /\ alive'[t] = alive[t]
    BY <2>2
  <2>4. QED
    BY <1>4, <2>1, <2>3 DEF Half, Untouched
<1>6. Starts(f, l)'
  BY <1>1, <1>4 DEF Starts, Settles
<1>7. QED
  BY <1>2, <1>3, <1>5, <1>6 DEF Settles

\* The order of what a thread has to do stays as it is when its queue does.
LEMMA SameOrder ==
  ASSUME NEW f, NEW l, InOrder(f, l), queue' = queue,
         \A t \in Thread : \A type \in Types :
           pc'[t] # "idle" /\ action'[t] = Command(type, f, l)
             => pc[t] # "idle" /\ action[t] = Command(type, f, l)
  PROVE  InOrder(f, l)'
  BY DEF InOrder, Types, Waits

\* The converter gives thread t something to do for a sender nobody has
\* anything to do for.
LEMMA FreshSettles ==
  ASSUME NEW f, NEW l, NEW t \in Thread, Settles(f, l), UNCHANGED vars, Idle(t),
         \A u \in Thread : u # t => queue'[u] = queue[u],
         \A u \in Thread : \A type \in Types : ~Has(u, type, f, l),
         \A i, j \in 1..Len(queue'[t]) :
           queue'[t][i] = Command("Register", f, l) /\ i < j
             => queue'[t][j] \notin {Command("Register", f, l), Command("Deregister", f, l)},
         Contains(queue'[t], Command("Register", f, l)) <=> Good(f, l)',
         \/ Contains(queue'[t], Command("Register", f, l))
         \/ Contains(queue'[t], Command("Deregister", f, l)),
         Contains(queue'[t], Command("Deregister", f, l)) <=> Good(f, l)
  PROVE  Settles(f, l)'
<1>1. "Register" \in Types /\ "Deregister" \in Types
  BY DEF Types
<1>2. \A u \in Thread : pc'[u] = pc[u] /\ action'[u] = action[u]
  BY DEF vars
<1>3. \A u \in Thread : ~Executes(u, f, l)
  BY <1>1, HasMeans DEF Executes
<1>4. \A u \in Thread : ~Executes(u, f, l)'
  BY <1>2, <1>3 DEF Executes
<1>5. ASSUME NEW u \in Thread, NEW type \in Types, u # t PROVE ~Has(u, type, f, l)'
  BY <1>2, <1>5 DEF Has, Pending
<1>6. \A type \in Types : Has(t, type, f, l)' <=> Contains(queue'[t], Command(type, f, l))
  BY <1>2, HasMeans DEF Has, Pending, Contains, Idle
<1>7. OneThread(f, l)'
  BY <1>5 DEF OneThread
<1>8. Announced(f, l)'
  BY <1>1, <1>5, <1>6 DEF Announced
<1>9. InOrder(f, l)'
  <2>1. ASSUME NEW u \in Thread, NEW i \in 1..Len(queue'[u]), NEW j \in 1..Len(queue'[u]),
               queue'[u][i] = Command("Register", f, l), i < j
        PROVE  queue'[u][j] \notin {Command("Register", f, l), Command("Deregister", f, l)}
    <3>1. CASE u = t
      BY <2>1, <3>1
    <3>2. CASE u # t
      BY <2>1, <3>2 DEF Settles, InOrder
    <3>3. QED
      BY <3>1, <3>2
  <2>2. \A u \in Thread : ~(pc'[u] # "idle" /\ action'[u] = Command("Register", f, l))
    BY <1>4 DEF Executes
  <2>3. QED
    BY <2>1, <2>2 DEF InOrder
<1>10. \A u \in Thread : \A type \in Types : ~Waits(u, type, f, l)
  BY HasMeans
<1>11. Starts(f, l)'
  <2>1. IF Good(f, l) THEN Full(f, l) ELSE Clean(f, l)
    BY <1>1, <1>3, <1>10 DEF Settles, Starts
  <2>2. Untouched(f, l)
    BY DEF Untouched, vars, facility, component, SendersTo
  <2>3. (Full(f, l)' <=> Full(f, l)) /\ (Clean(f, l)' <=> Clean(f, l))
    BY <2>2, UntouchedStays
  <2>4. \A type \in Types : Waits(t, type, f, l)' <=> Contains(queue'[t], Command(type, f, l))
    BY DEF Waits
  <2>5. \A u \in Thread : u # t => \A type \in Types : ~Waits(u, type, f, l)'
    BY <1>10 DEF Waits
  <2>6. QED
    BY <1>1, <2>1, <2>3, <2>4, <2>5 DEF Starts
<1>12. QED
  BY <1>4, <1>7, <1>8, <1>9, <1>11 DEF Settles

\* The converter gives thread t nothing to do for this sender.
LEMMA NotAboutSettles ==
  ASSUME DiscoveryTypeOK, NEW f \in Name, NEW l \in Locator, Settles(f, l),
         NEW t \in Thread, NEW list \in Seq(Action), Idle(t), UNCHANGED vars,
         Deliver(t, list),
         Good(f, l)' <=> Good(f, l),
         \A type \in Types : ~Contains(list, Command(type, f, l))
  PROVE  Settles(f, l)'
<1>1. "Register" \in Types /\ "Deregister" \in Types
  BY DEF Types
<1>2. queue' = [queue EXCEPT ![t] = list] /\ queue[t] = <<>>
  BY DEF Deliver, Idle
<1>3. queue'[t] = list /\ \A u \in Thread : u # t => queue'[u] = queue[u]
  BY <1>2 DEF DiscoveryTypeOK
<1>4. \A u \in Thread : pc'[u] = pc[u] /\ action'[u] = action[u]
  BY DEF vars
<1>5. pc[t] = "idle"
  BY DEF Idle
<1>6. \A u \in Thread : \A type \in Types : Waits(u, type, f, l)' <=> Waits(u, type, f, l)
  <2>1. \A type \in Types : ~Waits(t, type, f, l)' /\ ~Waits(t, type, f, l)
    BY <1>2, <1>3 DEF Waits, Contains
  <2>2. QED
    BY <1>3, <2>1 DEF Waits
<1>7. \A u \in Thread : \A type \in Types : Has(u, type, f, l)' <=> Has(u, type, f, l)
  <2>1. \A a : (a \in Pending(t)' <=> Contains(list, a)) /\ Pending(t) = {}
    BY DeliverPending
  <2>2. \A u \in Thread : u # t => Pending(u)' = Pending(u)
    BY DeliverPending
  <2>3. QED
    BY <2>1, <2>2 DEF Has
<1>8. InOrder(f, l)'
  <2>1. ASSUME NEW u \in Thread, NEW i \in 1..Len(queue'[u]), NEW j \in 1..Len(queue'[u]),
               queue'[u][i] = Command("Register", f, l), i < j
        PROVE  queue'[u][j] \notin {Command("Register", f, l), Command("Deregister", f, l)}
    <3>1. u # t
      BY <1>1, <1>3, <2>1 DEF Contains
    <3>2. QED
      BY <1>3, <2>1, <3>1 DEF Settles, InOrder
  <2>2. ASSUME NEW u \in Thread, pc'[u] # "idle", action'[u] = Command("Register", f, l),
               NEW type \in Types
        PROVE  ~Waits(u, type, f, l)'
    BY <1>4, <1>6, <2>2 DEF Settles, InOrder
  <2>3. QED
    BY <2>1, <2>2 DEF InOrder
<1>9. Untouched(f, l)
  BY DEF Untouched, vars, facility, component, SendersTo
<1>10. \A u \in Thread :
         /\ Executes(u, f, l)' <=> Executes(u, f, l)
         /\ Executes(u, f, l) =>
              /\ pc'[u] = pc[u] /\ action'[u] = action[u]
              /\ number'[u] = number[u] /\ alive'[u] = alive[u]
  BY DEF Executes, vars
<1>11. QED
  BY <1>6, <1>7, <1>8, <1>9, <1>10, ElsewhereSettles

\* A server found good replaces those with the same information, and gets
\* its senders after theirs have gone (handleHeartbeat).
LEMMA HeartbeatSettles ==
  ASSUME Wired, GoodDiffer, NEW t \in Thread, NEW s \in Server, HeartbeatGood(t, s),
         NEW f \in Name, NEW l \in Locator, Settles(f, l), Alike(f, l),
         <<f, l>> \notin crossed'
  PROVE  Settles(f, l)'
<1> DEFINE old == Replaces(s)
           list == HeartbeatList(old, s)
<1>1. /\ Deliver(t, list)
      /\ infos' = [d \in Server |-> IF d = s THEN "good"
                                    ELSE IF infos[d] = "good" /\ HasSameInfo(d, s) THEN "unknown"
                                    ELSE infos[d]]
  BY HeartbeatGoodDelivers
<1>2. Idle(t) /\ UNCHANGED vars /\ infos[s] # "good"
  BY DEF HeartbeatGood, Arrives
<1>3. DiscoveryTypeOK
  BY DEF Wired
<1>4. old \in BOOLEAN
  BY DEF Replaces
<1>5. /\ list \in Seq(Action)
      /\ \A a : Contains(list, a)
                <=> \E g \in Name : \/ a = Command("Register", g, LocatorOf[s][g])
                                    \/ old /\ a = Command("Deregister", g, LocatorOf[s][g])
      /\ \A i, j \in 1..Len(list) :
           list[i] = Command("Register", f, l) /\ i < j
             => list[j] \notin {Command("Register", f, l), Command("Deregister", f, l)}
  BY <1>4, HeartbeatListIsRight, DiscoveryAssumption
<1>6. /\ Contains(list, Command("Register", f, l)) <=> LocatorOf[s][f] = l
      /\ Contains(list, Command("Deregister", f, l)) <=> old /\ LocatorOf[s][f] = l
  <2> HIDE DEF list, old
  <2>1. \A g, m, type : Command(type, f, l) = Command(type, g, m) <=> g = f /\ m = l
    BY DEF Command
  <2>2. \A g, m : Command("Register", f, l) # Command("Deregister", g, m)
    BY DEF Command
  <2>3. \A g, m : Command("Deregister", f, l) # Command("Register", g, m)
    BY DEF Command
  <2>4. Contains(list, Command("Register", f, l)) <=> LocatorOf[s][f] = l
    <3>1. Contains(list, Command("Register", f, l))
          <=> \E g \in Name :
                \/ Command("Register", f, l) = Command("Register", g, LocatorOf[s][g])
                \/ old /\ Command("Register", f, l) = Command("Deregister", g, LocatorOf[s][g])
      BY <1>5
    <3>2. QED
      BY <2>1, <2>2, <3>1
  <2>5. Contains(list, Command("Deregister", f, l)) <=> old /\ LocatorOf[s][f] = l
    <3>1. Contains(list, Command("Deregister", f, l))
          <=> \E g \in Name :
                \/ Command("Deregister", f, l) = Command("Register", g, LocatorOf[s][g])
                \/ old /\ Command("Deregister", f, l) = Command("Deregister", g, LocatorOf[s][g])
      BY <1>5
    <3>2. QED
      BY <2>1, <2>3, <3>1
  <2>6. QED
    BY <2>4, <2>5
<1>7. CASE LocatorOf[s][f] # l
  <2>1. \A type \in Types : ~Contains(list, Command(type, f, l))
    BY <1>6, <1>7 DEF Types
  <2>2. ASSUME NEW r \in Server, LocatorOf[r][f] = l
        PROVE  infos'[r] = "good" <=> infos[r] = "good"
    BY <1>1, <1>7, <2>2 DEF HasSameInfo
  <2>3. Good(f, l)' <=> Good(f, l)
    BY <2>2 DEF Good
  <2> HIDE DEF list
  <2>4. QED
    BY <1>1, <1>2, <1>3, <1>5, <2>1, <2>3, NotAboutSettles
<1>8. CASE LocatorOf[s][f] = l
  <2>1. Good(f, l) <=> old
    BY <1>2, <1>8 DEF Good, Alike, Replaces, HasSameInfo
  <2>2. Good(f, l)'
    BY <1>1, <1>8 DEF Good
  <2> HIDE DEF list, old
  <2>3. queue'[t] = list /\ \A u \in Thread : u # t => queue'[u] = queue[u]
    BY <1>1, <1>3 DEF Deliver, DiscoveryTypeOK
  <2>4. /\ Pending(t) = {}
        /\ \A u \in Thread : u # t =>
             /\ ~Has(u, "Deregister", f, l)
             /\ Contains(list, Command("Deregister", f, l)) => ~Has(u, "Register", f, l)
    BY <1>1, <1>2, <1>3, <1>5, <1>6, <1>8, DeliverPending DEF Has
  <2>5. \A u \in Thread : Has(u, "Register", f, l) => old
    BY <2>1 DEF Settles, Announced
  <2>6. \A u \in Thread : \A type \in Types : ~Has(u, type, f, l)
    BY <1>6, <1>8, <2>4, <2>5 DEF Types, Has
  <2>7. QED
    BY <1>2, <1>5, <1>6, <1>8, <2>1, <2>2, <2>3, <2>6, FreshSettles
<1>9. QED
  BY <1>7, <1>8

\* A silent server is forgotten, and its senders are to go (handleTimer).
LEMMA TimerSettles ==
  ASSUME Wired, GoodDiffer, NEW t \in Thread, Timer(t),
         NEW f \in Name, NEW l \in Locator, Settles(f, l), Alike(f, l),
         <<f, l>> \notin crossed'
  PROVE  Settles(f, l)'
<1>1. DiscoveryTypeOK
  BY DEF Wired
<1>2. PICK silent \in SUBSET {s \in Server : infos[s] = "good"} :
        /\ infos' = [s \in Server |-> IF s \in silent THEN "unknown" ELSE infos[s]]
        /\ \E list \in Seq(Action) :
             /\ Deliver(t, list)
             /\ \A a : Contains(list, a)
                       <=> \E s \in silent, g \in Name :
                             a = Command("Deregister", g, LocatorOf[s][g])
  BY TimerDelivers
<1>3. PICK list \in Seq(Action) :
        /\ Deliver(t, list)
        /\ \A a : Contains(list, a)
                  <=> \E s \in silent, g \in Name :
                        a = Command("Deregister", g, LocatorOf[s][g])
  BY <1>2
<1>4. Idle(t) /\ UNCHANGED vars
  BY DEF Timer
<1>5. \A g, m, type : Command(type, f, l) = Command(type, g, m) <=> g = f /\ m = l
  BY DEF Command
<1>6. \A g, m : Command("Register", f, l) # Command("Deregister", g, m)
  BY DEF Command
<1>7. ~Contains(list, Command("Register", f, l))
  BY <1>3, <1>6
<1>8. Contains(list, Command("Deregister", f, l)) <=> \E s \in silent : LocatorOf[s][f] = l
  <2>1. Contains(list, Command("Deregister", f, l))
        <=> \E s \in silent, g \in Name :
              Command("Deregister", f, l) = Command("Deregister", g, LocatorOf[s][g])
    BY <1>3
  <2>2. QED
    BY <1>5, <2>1
<1>9. CASE \A s \in silent : LocatorOf[s][f] # l
  <2>1. Good(f, l)' <=> Good(f, l)
    BY <1>2, <1>9 DEF Good
  <2>2. \A type \in Types : ~Contains(list, Command(type, f, l))
    BY <1>7, <1>8, <1>9 DEF Types
  <2>3. QED
    BY <1>1, <1>3, <1>4, <2>1, <2>2, NotAboutSettles
<1>10. ASSUME NEW s \in silent, LocatorOf[s][f] = l
       PROVE  Settles(f, l)'
  <2>1. Good(f, l)
    BY <1>10 DEF Good
  <2>2. ~Good(f, l)'
    BY <1>2, <1>10 DEF Good, GoodDiffer, Alike
  <2>3. queue'[t] = list /\ \A u \in Thread : u # t => queue'[u] = queue[u]
    BY <1>1, <1>3 DEF Deliver, DiscoveryTypeOK
  <2>4. /\ Pending(t) = {}
        /\ \A u \in Thread : u # t => ~Has(u, "Register", f, l)
    BY <1>1, <1>3, <1>4, <1>8, <1>10, DeliverPending DEF Has
  <2>5. \A u \in Thread :
          Has(u, "Deregister", f, l) /\ ~Has(u, "Register", f, l) => ~Good(f, l)
    BY DEF Settles, Announced
  <2>6. \A u \in Thread : \A type \in Types : ~Has(u, type, f, l)
    BY <2>1, <2>4, <2>5 DEF Types, Has
  <2>7. \A i, j \in 1..Len(queue'[t]) :
          queue'[t][i] = Command("Register", f, l) /\ i < j
            => queue'[t][j] \notin {Command("Register", f, l), Command("Deregister", f, l)}
    BY <1>7, <2>3 DEF Contains
  <2>8. QED
    BY <1>4, <1>7, <1>8, <1>10, <2>1, <2>2, <2>3, <2>6, <2>7, FreshSettles
<1>11. QED
  BY <1>9, <1>10

\* A command for this sender begins (actuallyHandleFacilityAction).
LEMMA BeginSettles ==
  ASSUME Wired, NEW t \in Thread, DeliverNext(t), NEW f \in Name, NEW l \in Locator,
         Settles(f, l),
         Head(queue[t]) \in {Command("Register", f, l), Command("Deregister", f, l)}
  PROVE  Settles(f, l)'
<1> DEFINE a == Head(queue[t])
<1>1. DiscoveryTypeOK /\ TypeOK
  BY DEF Wired, DiscoveryTypeOK
<1>2. "Register" \in Types /\ "Deregister" \in Types
  BY DEF Types
<1>3. /\ pc[t] = "idle" /\ queue[t] # <<>> /\ queue[t] \in Seq(Action)
      /\ queue' = [queue EXCEPT ![t] = Tail(queue[t])]
      /\ action' = [action EXCEPT ![t] = a]
      /\ infos' = infos
  BY <1>1 DEF DeliverNext, Handle, DiscoveryTypeOK
<1>4. /\ kind' = kind /\ number' = number /\ alive' = alive
      /\ underlyingSenders' = underlyingSenders /\ connected' = connected
      /\ clients' = clients /\ clientNumberRecord' = clientNumberRecord
  BY DEF DeliverNext, Handle, facility, component
<1>5. /\ pc'[t] = IF a.type = "Register" THEN "set"
                  ELSE CASE kind = "numbered" -> "take"
                         [] kind \in {"exclusive", "shared"} -> "remove"
                         [] kind = "none" -> "erase"
      /\ \A u \in Thread : u # t => pc'[u] = pc[u]
  BY <1>1 DEF DeliverNext, Handle, TypeOK
<1>6. action'[t] = a /\ \A u \in Thread : u # t => action'[u] = action[u]
  BY <1>1, <1>3 DEF TypeOK
<1>7. /\ queue'[t] = Tail(queue[t])
      /\ \A u \in Thread : u # t => queue'[u] = queue[u]
  BY <1>1, <1>3 DEF DiscoveryTypeOK
<1>8. /\ Len(queue'[t]) = Len(queue[t]) - 1 /\ Len(queue[t]) \in Nat /\ Len(queue[t]) > 0
      /\ \A i \in 1..Len(queue'[t]) : queue'[t][i] = queue[t][i + 1]
      /\ queue[t][1] = a
  <2>1. Len(queue'[t]) = Len(queue[t]) - 1 /\ Len(queue[t]) \in Nat /\ Len(queue[t]) > 0
    <3>1. ASSUME NEW q \in Seq(Action), q # <<>>
          PROVE  Len(Tail(q)) = Len(q) - 1 /\ Len(q) \in Nat /\ Len(q) > 0
      BY <3>1
    <3>2. QED
      BY <1>3, <1>7, <3>1
  <2>2. \A i \in 1..Len(queue'[t]) : queue'[t][i] = queue[t][i + 1]
    BY <1>3, <1>7, <2>1
  <2>3. queue[t][1] = a
    BY <1>3
  <2>4. QED
    BY <2>1, <2>2, <2>3
<1>9. \A u \in Thread : \A type \in Types : Has(u, type, f, l)' <=> Has(u, type, f, l)
  <2>1. \A u \in Thread : Pending(u)' = Pending(u)
    BY <1>1, DeliverNextPending
  <2>2. QED
    BY <2>1 DEF Has
<1>10. \E type \in Types : Waits(t, type, f, l)
  <2> HIDE DEF a
  <2>1. Contains(queue[t], a)
    BY <1>8 DEF Contains
  <2>2. a \in {Command("Register", f, l), Command("Deregister", f, l)}
    BY DEF a
  <2>3. QED
    BY <1>2, <2>1, <2>2 DEF Waits
<1>11. \A u \in Thread : \A type \in Types : Has(u, type, f, l) => u = t
  BY <1>10, HasMeans DEF Settles, OneThread
<1>12. \A u \in Thread : ~Executes(u, f, l)
  <2>1. ASSUME NEW u \in Thread, Executes(u, f, l) PROVE u = t
    BY <1>2, <1>11, <2>1, HasMeans DEF Executes
  <2>2. QED
    BY <1>3, <2>1 DEF Executes
<1>13. \A u \in Thread : u # t => ~Executes(u, f, l)'
  BY <1>5, <1>6, <1>12 DEF Executes
<1>14. OneThread(f, l)'
  BY <1>9 DEF OneThread, Settles
<1>15. Announced(f, l)'
  <2>1. Good(f, l)' <=> Good(f, l)
    BY <1>3 DEF Good
  <2>2. QED
    BY <1>2, <1>9, <2>1 DEF Announced, Settles
<1>16. \A i, j \in 1..Len(queue[t]) :
         queue[t][i] = Command("Register", f, l) /\ i < j
           => queue[t][j] \notin {Command("Register", f, l), Command("Deregister", f, l)}
  BY DEF Settles, InOrder
<1>17. a = Command("Register", f, l)
         => \A j \in 1..Len(queue[t]) : 1 < j
              => queue[t][j] \notin {Command("Register", f, l), Command("Deregister", f, l)}
  BY <1>8, <1>16
<1>18. InOrder(f, l)'
  <2>1. ASSUME a = Command("Register", f, l), NEW type \in Types
        PROVE  ~Waits(t, type, f, l)'
    <3> SUFFICES ASSUME NEW i \in 1..Len(queue'[t]), queue'[t][i] = Command(type, f, l)
                 PROVE  FALSE
      BY DEF Waits, Contains
    <3>1. i + 1 \in 1..Len(queue[t]) /\ 1 < i + 1 /\ queue[t][i + 1] = Command(type, f, l)
      BY <1>8
    <3>2. queue[t][i + 1] \notin {Command("Register", f, l), Command("Deregister", f, l)}
      BY <1>17, <2>1, <3>1
    <3>3. QED
      BY <2>1, <3>1, <3>2 DEF Types
  <2>2. ASSUME NEW i \in 1..Len(queue'[t]), NEW j \in 1..Len(queue'[t]),
               queue'[t][i] = Command("Register", f, l), i < j
        PROVE  queue'[t][j] \notin {Command("Register", f, l), Command("Deregister", f, l)}
    BY <1>8, <1>16, <2>2
  <2>3. ASSUME NEW u \in Thread, pc'[u] # "idle", action'[u] = Command("Register", f, l),
               NEW type \in Types
        PROVE  ~Waits(u, type, f, l)'
    BY <1>6, <1>13, <2>1, <2>3 DEF Executes
  <2>4. ASSUME NEW u \in Thread, NEW i \in 1..Len(queue'[u]), NEW j \in 1..Len(queue'[u]),
               queue'[u][i] = Command("Register", f, l), i < j
        PROVE  queue'[u][j] \notin {Command("Register", f, l), Command("Deregister", f, l)}
    BY <1>7, <2>2, <2>4 DEF Settles, InOrder
  <2>5. QED
    BY <2>3, <2>4 DEF InOrder
<1>19. Half(t, f, l)'
  <2>1. (Full(f, l)' <=> Full(f, l)) /\ (Clean(f, l)' <=> Clean(f, l))
    BY <1>4 DEF Full, Clean, SendersTo
  <2>2. kind \in {"numbered", "exclusive", "shared", "none"}
    BY <1>1, FacilityAssumption DEF FacilityAssumption, TypeOK
  <2>3. ASSUME a = Command("Register", f, l) PROVE pc'[t] = "set" /\ Clean(f, l)
    <3>1. ~Waits(t, "Deregister", f, l) /\ Waits(t, "Register", f, l)
      <4>1. Command("Register", f, l) # Command("Deregister", f, l)
        BY DEF Command
      <4>2. \A i \in 1..Len(queue[t]) : queue[t][i] # Command("Deregister", f, l)
        BY <1>8, <1>17, <2>3, <4>1
      <4>3. QED
        BY <1>8, <2>3, <4>2 DEF Waits, Contains
    <3>2. \A u \in Thread : ~Waits(u, "Deregister", f, l)
      BY <1>2, <1>11, <3>1, HasMeans
    <3>3. Clean(f, l)
      BY <1>12, <3>1, <3>2 DEF Settles, Starts
    <3>4. a.type = "Register"
      BY <2>3 DEF Command
    <3>5. QED
      BY <1>5, <3>3, <3>4
  <2>4. ASSUME a = Command("Deregister", f, l)
        PROVE  /\ pc'[t] \in {"take", "remove", "erase"}
               /\ pc'[t] = "remove" => kind # "numbered"
               /\ pc'[t] = "erase" => kind = "none"
               /\ Full(f, l) \/ Clean(f, l)
    <3>1. Waits(t, "Deregister", f, l)
      BY <1>8, <2>4 DEF Waits, Contains
    <3>2. Full(f, l) \/ Clean(f, l)
      BY <1>12, <3>1 DEF Settles, Starts
    <3>3. a.type = "Deregister"
      BY <2>4 DEF Command
    <3> HIDE DEF a
    <3>4. QED
      BY <1>5, <2>2, <3>2, <3>3
  <2>5. CASE a = Command("Register", f, l)
    BY <1>4, <2>1, <2>3, <2>5 DEF Half
  <2>6. CASE a = Command("Deregister", f, l)
    BY <1>4, <2>1, <2>4, <2>6 DEF Half
  <2>7. QED
    BY <2>5, <2>6
<1>20. Executes(t, f, l)'
  <2>1. pc'[t] # "idle"
    BY <1>1, <1>5, FacilityAssumption DEF FacilityAssumption, TypeOK
  <2>2. QED
    BY <1>6, <2>1 DEF Executes
<1>21. Starts(f, l)'
  BY <1>20 DEF Starts
<1>22. QED
  BY <1>13, <1>14, <1>15, <1>18, <1>19, <1>21 DEF Settles

\* A command for another sender begins.
LEMMA BeginElsewhereSettles ==
  ASSUME Wired, NEW t \in Thread, DeliverNext(t), NEW f \in Name, NEW l \in Locator,
         Settles(f, l),
         Head(queue[t]) \notin {Command("Register", f, l), Command("Deregister", f, l)}
  PROVE  Settles(f, l)'
<1>1. DiscoveryTypeOK /\ TypeOK
  BY DEF Wired, DiscoveryTypeOK
<1>2. /\ pc[t] = "idle" /\ queue[t] # <<>> /\ queue[t] \in Seq(Action)
      /\ queue'[t] = Tail(queue[t])
      /\ \A u \in Thread : u # t => queue'[u] = queue[u] /\ action'[u] = action[u]
                                    /\ pc'[u] = pc[u]
      /\ action'[t] = Head(queue[t])
      /\ infos' = infos
  BY <1>1 DEF DeliverNext, Handle, DiscoveryTypeOK, TypeOK
<1>3. /\ kind' = kind /\ number' = number /\ alive' = alive
      /\ underlyingSenders' = underlyingSenders /\ connected' = connected
      /\ clients' = clients /\ clientNumberRecord' = clientNumberRecord
  BY DEF DeliverNext, Handle, facility, component
<1>4. ASSUME NEW q \in Seq(Action), q # <<>>
      PROVE  /\ Len(Tail(q)) = Len(q) - 1 /\ Len(q) \in Nat /\ Len(q) > 0
             /\ \A i \in 1..Len(Tail(q)) : Tail(q)[i] = q[i + 1]
             /\ q[1] = Head(q)
  <2>1. Len(Tail(q)) = Len(q) - 1 /\ Len(q) \in Nat /\ Len(q) > 0
    BY <1>4
  <2>2. \A i \in 1..Len(Tail(q)) : Tail(q)[i] = q[i + 1]
    BY <1>4, <2>1
  <2>3. q[1] = Head(q)
    BY <1>4
  <2>4. QED
    BY <2>1, <2>2, <2>3
<1>5. /\ Len(queue'[t]) = Len(queue[t]) - 1 /\ Len(queue[t]) \in Nat /\ Len(queue[t]) > 0
      /\ \A i \in 1..Len(queue'[t]) : queue'[t][i] = queue[t][i + 1]
      /\ queue[t][1] = Head(queue[t])
  BY <1>2, <1>4
<1>6. \A u \in Thread : \A type \in Types : Has(u, type, f, l)' <=> Has(u, type, f, l)
  <2>1. \A u \in Thread : Pending(u)' = Pending(u)
    BY <1>1, DeliverNextPending
  <2>2. QED
    BY <2>1 DEF Has
<1>7. \A u \in Thread : \A type \in Types : Waits(u, type, f, l)' <=> Waits(u, type, f, l)
  <2>1. ASSUME NEW type \in Types PROVE Waits(t, type, f, l)' <=> Waits(t, type, f, l)
    <3>1. queue[t][1] # Command(type, f, l)
      BY <1>5 DEF Types
    <3>2. ASSUME NEW i \in 1..Len(queue'[t]), queue'[t][i] = Command(type, f, l)
          PROVE  i + 1 \in 1..Len(queue[t]) /\ queue[t][i + 1] = Command(type, f, l)
      BY <1>5, <3>2
    <3>3. ASSUME NEW i \in 1..Len(queue[t]), queue[t][i] = Command(type, f, l)
          PROVE  i - 1 \in 1..Len(queue'[t]) /\ queue'[t][i - 1] = Command(type, f, l)
      <4>1. i - 1 \in 1..Len(queue'[t])
        BY <1>5, <3>1, <3>3
      <4>2. QED
        BY <1>5, <3>3, <4>1
    <3>4. QED
      BY <3>2, <3>3 DEF Waits, Contains
  <2>2. QED
    BY <1>2, <2>1 DEF Waits
<1>8. \A u \in Thread :
        /\ Executes(u, f, l)' <=> Executes(u, f, l)
        /\ Executes(u, f, l) =>
             /\ pc'[u] = pc[u] /\ action'[u] = action[u]
             /\ number'[u] = number[u] /\ alive'[u] = alive[u]
  BY <1>2, <1>3 DEF Executes
<1>9. InOrder(f, l)'
  <2>1. ASSUME NEW i \in 1..Len(queue'[t]), NEW j \in 1..Len(queue'[t]),
               queue'[t][i] = Command("Register", f, l), i < j
        PROVE  queue'[t][j] \notin {Command("Register", f, l), Command("Deregister", f, l)}
    <3>1. \A m, n \in 1..Len(queue[t]) :
            queue[t][m] = Command("Register", f, l) /\ m < n
              => queue[t][n] \notin {Command("Register", f, l), Command("Deregister", f, l)}
      BY DEF Settles, InOrder
    <3>2. QED
      BY <1>5, <2>1, <3>1
  <2>2. ASSUME NEW u \in Thread, pc'[u] # "idle", action'[u] = Command("Register", f, l),
               NEW type \in Types
        PROVE  ~Waits(u, type, f, l)'
    BY <1>2, <1>7, <2>2 DEF Settles, InOrder
  <2>3. ASSUME NEW u \in Thread, NEW i \in 1..Len(queue'[u]), NEW j \in 1..Len(queue'[u]),
               queue'[u][i] = Command("Register", f, l), i < j
        PROVE  queue'[u][j] \notin {Command("Register", f, l), Command("Deregister", f, l)}
    BY <1>2, <2>1, <2>3 DEF Settles, InOrder
  <2>4. QED
    BY <2>2, <2>3 DEF InOrder
<1>10. Untouched(f, l)
  BY <1>3 DEF Untouched, SendersTo
<1>11. Good(f, l)' <=> Good(f, l)
  BY <1>2 DEF Good
<1>12. QED
  BY <1>6, <1>7, <1>8, <1>9, <1>10, <1>11, ElsewhereSettles

\* A step of a command for another locator.
LEMMA StepElsewhereSettles ==
  ASSUME Wired, NEW t \in Thread, Execute(t), NEW f \in Name, NEW l \in Locator,
         Settles(f, l), action[t].locator # l
  PROVE  Settles(f, l)'
<1>1. DiscoveryTypeOK /\ TypeOK /\ Step(t)
  BY DEF Wired, DiscoveryTypeOK, Execute
<1>2. /\ pc[t] # "idle"
      /\ \A u \in Thread : u # t =>
           /\ pc'[u] = pc[u] /\ action'[u] = action[u] /\ number'[u] = number[u]
           /\ Pending(u)' = Pending(u)
      /\ pc'[t] # "idle" => action'[t] = action[t]
      /\ queue' = queue /\ infos' = infos /\ kind' = kind
  BY <1>1, ExecuteMoves
<1>3. \A type : action[t] # Command(type, f, l)
  BY DEF Command
<1>4. /\ SendersTo(f, l)' = SendersTo(f, l)
      /\ l \in connected' <=> l \in connected
      /\ clients'[l] = clients[l]
      /\ clientNumberRecord'[f][l] = clientNumberRecord[f][l]
      /\ \A u \in Thread : u # t /\ action[u] # NoAction /\ action[u].locator = l
           => alive'[u] = alive[u]
  BY <1>1, StepElsewhere
<1>5. Untouched(f, l)
  BY <1>2, <1>4 DEF Untouched
<1>6. \A u \in Thread : \A type \in Types : Waits(u, type, f, l)' <=> Waits(u, type, f, l)
  BY <1>2 DEF Waits
<1>7. \A type \in Types : Has(t, type, f, l)' <=> Has(t, type, f, l)
  <2>1. \A a : a \in Pending(t) <=> Contains(queue[t], a) \/ (pc[t] # "idle" /\ action[t] = a)
    BY PendingMeans
  <2>2. \A a : a \in Pending(t)'
               <=> Contains(queue[t], a) \/ (pc'[t] # "idle" /\ action'[t] = a)
    BY <1>2 DEF Pending, Contains
  <2>3. QED
    BY <1>2, <1>3, <2>1, <2>2 DEF Has
<1>8. \A u \in Thread : \A type \in Types : Has(u, type, f, l)' <=> Has(u, type, f, l)
  BY <1>2, <1>7 DEF Has
<1>9. ~Executes(t, f, l) /\ ~Executes(t, f, l)'
  BY <1>2, <1>3 DEF Executes
<1>10. ASSUME NEW u \in Thread, Executes(u, f, l)
       PROVE  /\ pc'[u] = pc[u] /\ action'[u] = action[u]
              /\ number'[u] = number[u] /\ alive'[u] = alive[u]
  <2>1. u # t
    BY <1>9, <1>10
  <2>2. action[u].locator = l /\ action[u] # NoAction
    BY <1>1, <1>10 DEF Executes, Command, TypeOK
  <2>3. QED
    BY <1>2, <1>4, <2>1, <2>2
<1>11. \A u \in Thread : Executes(u, f, l)' <=> Executes(u, f, l)
  BY <1>2, <1>9 DEF Executes
<1>12. InOrder(f, l)'
  BY <1>2, <1>3, SameOrder DEF Settles
<1>13. Good(f, l)' <=> Good(f, l)
  BY <1>2 DEF Good
<1>14. QED
  BY <1>5, <1>6, <1>8, <1>10, <1>11, <1>12, <1>13, ElsewhereSettles

\* A step of registerFacility for this sender.
LEMMA RegisterMoves ==
  ASSUME TypeOK, Phases, NEW t \in Thread, NEW f \in Name, NEW l \in Locator,
         action[t] = Command("Register", f, l), Half(t, f, l),
         \/ CreateConnection(t) \/ AddClient(t) \/ SetClient(t) \/ SetClientFails(t)
         \/ PushSender(t)
  PROVE  Half(t, f, l)'
<1>1. action[t].type = "Register" /\ action[t].name = f /\ action[t].locator = l
  BY DEF Command
<1>2. action' = action /\ kind' = kind
  BY DEF CreateConnection, AddClient, SetClient, SetClientFails, PushSender
<1>3. CASE CreateConnection(t)
  <2>1. /\ pc[t] = "set" /\ kind = "numbered"
        /\ connected' = connected \cup {l}
        /\ underlyingSenders' = underlyingSenders
        /\ l \notin connected => clients' = [clients EXCEPT ![l] = {}]
    BY <1>1, <1>3 DEF CreateConnection, facility
  <2>2. pc'[t] = "add" /\ alive'[t]
    BY <1>3 DEF CreateConnection, Given, TypeOK
  <2>3. Clean(f, l)
    BY <2>1 DEF Half
  <2>4. SendersTo(f, l)' = {}
    BY <2>1, <2>3 DEF Clean, SendersTo
  <2>5. clients'[l] = {}
    BY <2>1, <2>3 DEF Clean, TypeOK
  <2>6. QED
    BY <2>1, <2>2, <2>4, <2>5 DEF Half
<1>4. CASE AddClient(t)
  <2>1. pc[t] = "add" /\ kind = "numbered" /\ connected' = connected /\ alive' = alive
        /\ underlyingSenders' = underlyingSenders
    BY <1>4 DEF AddClient, facility, Phases
  <2>2. SendersTo(f, l) = {} /\ alive[t] /\ l \in connected /\ clients[l] = {}
    BY <2>1 DEF Half
  <2>3. PICK n \in Nat : /\ clients' = [clients EXCEPT ![l] = @ \cup {n}]
                         /\ number' = [number EXCEPT ![t] = n]
    <3>1. /\ clientCounter' = [clientCounter EXCEPT ![l] = @ + 1]
          /\ clients' = [clients EXCEPT ![l] = @ \cup {clientCounter'[l]}]
          /\ number' = [number EXCEPT ![t] = clientCounter'[l]]
      BY <1>1, <1>4, <2>2 DEF AddClient
    <3>2. clientCounter'[l] \in Nat
      BY <3>1 DEF TypeOK
    <3>3. QED
      BY <3>1, <3>2
  <2>4. clients'[l] = {n} /\ number'[t] = n
    BY <2>2, <2>3 DEF TypeOK
  <2>5. pc'[t] = "push"
    BY <1>4 DEF AddClient, TypeOK
  <2>6. SendersTo(f, l)' = {}
    BY <2>1, <2>2 DEF SendersTo
  <2>7. QED
    BY <1>2, <2>1, <2>2, <2>4, <2>5, <2>6 DEF Half
<1>5. CASE SetClient(t)
  <2>1. /\ pc[t] = "set" /\ kind # "numbered"
        /\ kind # "none" => l \in connected'
        /\ underlyingSenders' = underlyingSenders
    BY <1>1, <1>5 DEF SetClient, facility
  <2>2. pc'[t] = "push" /\ alive'[t]
    BY <1>5 DEF SetClient, Given, TypeOK
  <2>3. SendersTo(f, l)' = {}
    BY <2>1 DEF Half, Clean, SendersTo
  <2>4. QED
    BY <1>2, <2>1, <2>2, <2>3 DEF Half
<1>6. CASE SetClientFails(t)
  BY <1>1, <1>6 DEF SetClientFails, Half, Clean
<1>7. CASE PushSender(t)
  <2>1. pc[t] = "push" /\ connected' = connected /\ clients' = clients
    BY <1>7 DEF PushSender, component
  <2>2. /\ SendersTo(f, l) = {}
        /\ kind # "none" => l \in connected
        /\ kind = "numbered" => clients[l] = {number[t]}
    BY <2>1 DEF Half
  <2>3. PICK x : /\ underlyingSenders' = [underlyingSenders EXCEPT ![f] = @ \cup {x}]
                 /\ x.locator = l
    <3> DEFINE x == [locator |-> l, number |-> number[t], alive |-> alive[t],
                     copy |-> Cardinality(SendersTo(f, l))]
    <3>1. underlyingSenders' = [underlyingSenders EXCEPT ![f] = @ \cup {x}]
      BY <1>1, <1>7 DEF PushSender
    <3>2. x.locator = l
      OBVIOUS
    <3> HIDE DEF x
    <3>3. QED
      BY <3>1, <3>2
  <2>4. underlyingSenders'[f] = underlyingSenders[f] \cup {x}
    BY <2>3 DEF TypeOK
  <2>5. \E y \in underlyingSenders'[f] : SendersTo(f, l)' = {y}
    BY <2>2, <2>3, <2>4 DEF SendersTo
  <2>6. kind = "numbered" => clientNumberRecord'[f][l] = number[t]
    BY <1>1, <1>7 DEF PushSender, TypeOK
  <2>7. Full(f, l)'
    BY <1>2, <2>1, <2>2, <2>5, <2>6 DEF Full
  <2>8. pc'[t] = "publish"
    BY <1>7 DEF PushSender, TypeOK
  <2>9. QED
    BY <1>1, <1>2, <2>7, <2>8 DEF Half
<1>8. QED
  BY <1>3, <1>4, <1>5, <1>6, <1>7

\* A step of deregisterFacility for this sender.
LEMMA DeregisterMoves ==
  ASSUME TypeOK, Phases, NEW t \in Thread, NEW f \in Name, NEW l \in Locator,
         action[t] = Command("Deregister", f, l), Half(t, f, l),
         TakeNumber(t) \/ RemoveClient(t) \/ EraseSenders(t)
  PROVE  Half(t, f, l)'
<1>1. action[t].type = "Deregister" /\ action[t].name = f /\ action[t].locator = l
  BY DEF Command
<1>2. action' = action /\ kind' = kind
  BY DEF TakeNumber, RemoveClient, EraseSenders
<1>3. CASE TakeNumber(t)
  <2>1. /\ pc[t] = "take" /\ kind = "numbered"
        /\ number' = [number EXCEPT ![t] = clientNumberRecord[f][l]]
        /\ connected' = connected /\ clients' = clients
    BY <1>1, <1>3 DEF TakeNumber, component, Phases
  <2>2. number'[t] = clientNumberRecord[f][l]
    BY <2>1 DEF TypeOK
  <2>3. Full(f, l) \/ Clean(f, l)
    BY <2>1 DEF Half
  <2>4. /\ clients[l] \subseteq {clientNumberRecord[f][l]}
        /\ l \notin connected => clients[l] = {}
    BY <2>1, <2>3 DEF Full, Clean
  <2>5. pc'[t] = "remove"
    BY <1>3 DEF TakeNumber, TypeOK
  <2>6. QED
    BY <2>1, <2>2, <2>4, <2>5 DEF Half
<1>4. CASE RemoveClient(t)
  <2>1. pc[t] = "remove" /\ kind # "none"
    BY <1>4 DEF RemoveClient, Phases
  <2>2. /\ kind = "numbered" => clients[l] \ {number[t]} = {}
        /\ kind = "numbered" /\ l \notin connected => clients[l] = {}
    BY <2>1 DEF Half
  <2>3. /\ l \in connected => connected' = connected \ {l}
        /\ l \notin connected => connected' = connected
    BY <1>1, <1>4, <2>2 DEF RemoveClient, Destroy
  <2>4. kind = "numbered" => clients'[l] = {}
    BY <1>1, <1>4, <2>2 DEF RemoveClient, TypeOK
  <2>5. pc'[t] = "erase"
    BY <1>4 DEF RemoveClient, TypeOK
  <2>6. l \notin connected'
    BY <2>3
  <2>7. QED
    BY <1>2, <2>4, <2>5, <2>6 DEF Half
<1>5. CASE EraseSenders(t)
  <2>1. /\ pc[t] = "erase" /\ connected' = connected /\ clients' = clients
        /\ underlyingSenders' = [underlyingSenders EXCEPT ![f] = @ \ SendersTo(f, l)]
    BY <1>1, <1>5 DEF EraseSenders, component
  <2>2. SendersTo(f, l)' = {}
    BY <2>1 DEF SendersTo, TypeOK
  <2>3. Clean(f, l)'
    BY <1>2, <2>1, <2>2 DEF Half, Clean
  <2>4. pc'[t] = "publish"
    BY <1>5 DEF EraseSenders, TypeOK
  <2>5. QED
    BY <1>1, <1>2, <2>3, <2>4 DEF Half
<1>6. QED
  BY <1>3, <1>4, <1>5

\* A step of a command for this sender, which is the only one that is being
\* executed.
LEMMA StepHereSettles ==
  ASSUME Wired, NEW t \in Thread, Execute(t), NEW f \in Name, NEW l \in Locator,
         Settles(f, l),
         action[t] \in {Command("Register", f, l), Command("Deregister", f, l)}
  PROVE  Settles(f, l)'
<1>1. DiscoveryTypeOK /\ TypeOK /\ Phases /\ Step(t)
  BY DEF Wired, DiscoveryTypeOK, Execute
<1>2. /\ pc[t] # "idle"
      /\ \A u \in Thread : u # t =>
           /\ pc'[u] = pc[u] /\ action'[u] = action[u]
           /\ Pending(u)' = Pending(u)
      /\ Pending(t)' \subseteq Pending(t)
      /\ pc'[t] # "idle" => action'[t] = action[t]
      /\ pc'[t] = "idle" => pc[t] = "publish" /\ action'[t] = NoAction
      /\ queue' = queue /\ infos' = infos /\ kind' = kind
  BY <1>1, ExecuteMoves
<1>3. "Register" \in Types /\ "Deregister" \in Types
  BY DEF Types
<1>4. \A u \in Thread : \A type \in Types : Has(u, type, f, l)' => Has(u, type, f, l)
  BY <1>2 DEF Has
<1>5. \A u \in Thread : \A type \in Types : Waits(u, type, f, l)' <=> Waits(u, type, f, l)
  BY <1>2 DEF Waits
<1>6. Good(f, l)' <=> Good(f, l)
  BY <1>2 DEF Good
<1>7. Executes(t, f, l) /\ Half(t, f, l)
  BY <1>2 DEF Executes, Settles
<1>8. \E type \in Types : Has(t, type, f, l)
  BY <1>2, <1>3, HasMeans
<1>9. \A u \in Thread : \A type \in Types : Has(u, type, f, l) => u = t
  BY <1>8 DEF Settles, OneThread
<1>10. \A u \in Thread : \A type \in Types : Waits(u, type, f, l) => u = t
  BY <1>9, HasMeans
<1>11. \A u \in Thread : Executes(u, f, l)' => u = t
  <2>1. ASSUME NEW u \in Thread, u # t PROVE ~Executes(u, f, l)'
    BY <1>2, <1>3, <1>9, <2>1, HasMeans DEF Executes
  <2>2. QED
    BY <2>1
<1>12. OneThread(f, l)'
  BY <1>4 DEF OneThread, Settles
<1>13. action[t] = Command("Register", f, l) => \A type \in Types : ~Waits(t, type, f, l)
  BY <1>2 DEF Settles, InOrder
<1>14. Announced(f, l)'
  <2>1. ASSUME NEW u \in Thread, Has(u, "Register", f, l)' PROVE Good(f, l)'
    BY <1>3, <1>4, <1>6, <2>1 DEF Settles, Announced
  <2>2. ASSUME NEW u \in Thread, Has(u, "Deregister", f, l)', ~Has(u, "Register", f, l)'
        PROVE  ~Good(f, l)'
    <3>1. u = t /\ Has(t, "Deregister", f, l)
      BY <1>3, <1>4, <1>9, <2>2
    <3>2. Command("Register", f, l) # Command("Deregister", f, l)
      BY DEF Command
    <3>3. action[t] # Command("Register", f, l)
      BY <1>3, <1>13, <3>1, <3>2, HasMeans
    <3>4. ASSUME Has(t, "Register", f, l) PROVE FALSE
      <4>1. Waits(t, "Register", f, l)
        BY <3>3, <3>4, HasMeans
      <4>2. Has(t, "Register", f, l)'
        BY <1>2, <4>1 DEF Has, Waits, Pending, Contains
      <4>3. QED
        BY <2>2, <3>1, <4>2
    <3>5. QED
      BY <1>6, <3>1, <3>4 DEF Settles, Announced
  <2>3. QED
    BY <2>1, <2>2 DEF Announced
<1>15. InOrder(f, l)'
  <2>1. \A u \in Thread : \A type \in Types :
          pc'[u] # "idle" /\ action'[u] = Command(type, f, l)
            => pc[u] # "idle" /\ action[u] = Command(type, f, l)
    BY <1>2
  <2>2. QED
    BY <1>2, <2>1, SameOrder DEF Settles
<1>16. CASE Publish(t)
  <2>1. pc[t] = "publish" /\ pc'[t] = "idle" /\ UNCHANGED <<kind, facility, component>>
    BY <1>1, <1>16 DEF Publish, TypeOK
  <2>2. (Full(f, l)' <=> Full(f, l)) /\ (Clean(f, l)' <=> Clean(f, l))
    BY <2>1 DEF Full, Clean, SendersTo, facility, component
  <2>3. \A u \in Thread : ~Executes(u, f, l)'
    BY <1>11, <2>1 DEF Executes
  <2>4. Starts(f, l)'
    <3>1. CASE action[t] = Command("Register", f, l)
      <4>1. Full(f, l)
        BY <1>7, <2>1, <3>1 DEF Half, Command
      <4>2. Good(f, l)
        BY <1>2, <1>3, <3>1, HasMeans DEF Settles, Announced
      <4>3. \A u \in Thread : \A type \in Types : ~Waits(u, type, f, l)'
        BY <1>5, <1>10, <1>13, <3>1
      <4>4. QED
        BY <1>3, <1>6, <2>2, <4>1, <4>2, <4>3 DEF Starts
    <3>2. CASE action[t] = Command("Deregister", f, l)
      <4>1. Clean(f, l)
        BY <1>7, <2>1, <3>2 DEF Half, Command
      <4>2. (\A u \in Thread : \A type \in Types : ~Waits(u, type, f, l)') => ~Good(f, l)
        <5>1. Command("Register", f, l) # Command("Deregister", f, l)
          BY DEF Command
        <5>2. Has(t, "Deregister", f, l)
          BY <1>2, <3>2, HasMeans
        <5>3. Has(t, "Register", f, l) => Waits(t, "Register", f, l)
          BY <3>2, <5>1, HasMeans
        <5>4. QED
          BY <1>3, <1>5, <5>2, <5>3 DEF Settles, Announced
      <4>3. ASSUME ~\E u \in Thread : Waits(u, "Deregister", f, l)',
                   ~\E u \in Thread : Waits(u, "Register", f, l)'
            PROVE  ~Good(f, l)
        BY <4>2, <4>3 DEF Types
      <4>4. QED
        BY <1>6, <2>2, <4>1, <4>3 DEF Starts
    <3>3. QED
      BY <3>1, <3>2
  <2>5. QED
    BY <1>12, <1>14, <1>15, <2>3, <2>4 DEF Settles
<1>17. CASE ~Publish(t)
  <2>1. Half(t, f, l)'
    <3>1. CASE action[t] = Command("Register", f, l)
      <4>1. action[t].type # "Deregister"
        BY <3>1 DEF Command
      <4>2. ~(TakeNumber(t) \/ RemoveClient(t) \/ EraseSenders(t))
        BY <1>1, <4>1 DEF Phases, TakeNumber, RemoveClient, EraseSenders
      <4>3. QED
        BY <1>1, <1>7, <1>17, <3>1, <4>2, RegisterMoves DEF Step
    <3>2. CASE action[t] = Command("Deregister", f, l)
      <4>1. action[t].type # "Register"
        BY <3>2 DEF Command
      <4>2. ~(\/ CreateConnection(t) \/ AddClient(t) \/ SetClient(t) \/ SetClientFails(t)
              \/ PushSender(t))
        BY <1>1, <4>1 DEF Phases, CreateConnection, AddClient, SetClient, SetClientFails,
           PushSender
      <4>3. QED
        BY <1>1, <1>7, <1>17, <3>2, <4>2, DeregisterMoves DEF Step
    <3>3. QED
      BY <3>1, <3>2
  <2>2. pc'[t] # "idle"
    BY <1>1, <1>17 DEF Step, CreateConnection, AddClient, SetClient, SetClientFails, PushSender,
       TakeNumber, RemoveClient, EraseSenders, TypeOK
  <2>3. Executes(t, f, l)'
    BY <1>2, <2>2 DEF Executes
  <2>4. Starts(f, l)'
    BY <2>3 DEF Starts
  <2>5. \A u \in Thread : Executes(u, f, l)' => Half(u, f, l)'
    BY <1>11, <2>1
  <2>6. QED
    BY <1>12, <1>14, <1>15, <2>4, <2>5 DEF Settles
<1>18. QED
  BY <1>16, <1>17

\* No step makes good two servers with the same information
\* (handleHeartbeat, handleTimer).
LEMMA GoodDifferKeeps ==
  ASSUME Wired, GoodDiffer, [DNext]_dvars
  PROVE  GoodDiffer'
<1>1. infos \in [Server -> {"unknown", "incomplete", "good"}]
  BY DEF Wired, DiscoveryTypeOK
<1>2. CASE infos' = infos
  BY <1>2 DEF GoodDiffer
<1>3. ASSUME NEW t \in Thread, NEW s \in Server, HeartbeatIncomplete(t, s)
      PROVE  GoodDiffer'
  <2>1. infos' = [infos EXCEPT ![s] = "incomplete"]
    BY <1>3 DEF HeartbeatIncomplete
  <2>2. \A r \in Server : infos'[r] = "good" => infos[r] = "good"
    BY <1>1, <2>1
  <2>3. QED
    BY <2>2 DEF GoodDiffer
<1>4. ASSUME NEW t \in Thread, NEW s \in Server, HeartbeatGood(t, s)
      PROVE  GoodDiffer'
  <2>1. infos' = [d \in Server |-> IF d = s THEN "good"
                                   ELSE IF infos[d] = "good" /\ HasSameInfo(d, s) THEN "unknown"
                                   ELSE infos[d]]
    BY <1>4, HeartbeatGoodDelivers
  <2>2. \A r \in Server : infos'[r] = "good" /\ r # s
                            => infos[r] = "good" /\ ~HasSameInfo(r, s)
    BY <2>1
  <2>3. \A q, r \in Server : HasSameInfo(q, r) => HasSameInfo(r, q)
    BY DEF HasSameInfo
  <2>4. QED
    BY <2>2, <2>3 DEF GoodDiffer
<1>5. ASSUME NEW t \in Thread, Timer(t)
      PROVE  GoodDiffer'
  <2>1. \A r \in Server : infos'[r] = "good" => infos[r] = "good"
    BY <1>5 DEF Timer
  <2>2. QED
    BY <2>1 DEF GoodDiffer
<1>6. QED
  BY <1>2, <1>3, <1>4, <1>5 DEF DNext, End, DeliverNext, Execute, dvars, discovery

\* A step that gives nothing to do, and finds no server good or silent.
LEMMA StutterSettles ==
  ASSUME NEW f, NEW l, Settles(f, l), UNCHANGED vars, queue' = queue,
         Good(f, l)' <=> Good(f, l)
  PROVE  Settles(f, l)'
<1>1. Untouched(f, l)
  BY DEF Untouched, vars, facility, component, SendersTo
<1>2. InOrder(f, l)'
  BY SameOrder DEF Settles, vars
<1>3. \A t \in Thread : \A type \in Types :
        /\ Has(t, type, f, l)' <=> Has(t, type, f, l)
        /\ Waits(t, type, f, l)' <=> Waits(t, type, f, l)
  BY DEF Has, Waits, Pending, vars
<1>4. \A t \in Thread :
        /\ Executes(t, f, l)' <=> Executes(t, f, l)
        /\ Executes(t, f, l) =>
             /\ pc'[t] = pc[t] /\ action'[t] = action[t]
             /\ number'[t] = number[t] /\ alive'[t] = alive[t]
  BY DEF Executes, vars
<1>5. QED
  BY <1>1, <1>2, <1>3, <1>4, ElsewhereSettles

\* Every step of converter and facilities keeps them settled.
LEMMA AllSettleKeeps == Wired /\ AllSettle /\ [DNext]_dvars => AllSettle'
<1> SUFFICES ASSUME Wired, AllSettle, [DNext]_dvars
             PROVE  AllSettle'
  OBVIOUS
<1>1. GoodDiffer /\ GoodDiffer'
  BY GoodDifferKeeps DEF AllSettle
<1>2. ASSUME NEW f \in Name, NEW l \in Locator, Settles(f, l), Alike(f, l),
             NEW r \in Server, l = LocatorOf[r][f], <<f, l>> \notin crossed'
      PROVE  Settles(f, l)'
  <2>1. infos \in [Server -> {"unknown", "incomplete", "good"}]
    BY DEF Wired, DiscoveryTypeOK
  <2>2. CASE UNCHANGED vars /\ queue' = queue /\ infos' = infos
    BY <1>2, <2>2, StutterSettles DEF Good
  <2>3. ASSUME NEW t \in Thread, NEW s \in Server, HeartbeatIncomplete(t, s)
        PROVE  Settles(f, l)'
    <3>1. /\ UNCHANGED vars /\ queue' = queue
          /\ infos' = [infos EXCEPT ![s] = "incomplete"] /\ infos[s] # "good"
      BY <2>3 DEF HeartbeatIncomplete, Arrives
    <3>2. \A q \in Server : infos'[q] = "good" <=> infos[q] = "good"
      BY <2>1, <3>1
    <3>3. Good(f, l)' <=> Good(f, l)
      BY <3>2 DEF Good
    <3>4. QED
      BY <1>2, <3>1, <3>3, StutterSettles
  <2>4. ASSUME NEW t \in Thread, NEW s \in Server, HeartbeatGood(t, s)
        PROVE  Settles(f, l)'
    BY <1>1, <1>2, <2>4, HeartbeatSettles
  <2>5. ASSUME NEW t \in Thread, Timer(t)
        PROVE  Settles(f, l)'
    BY <1>1, <1>2, <2>5, TimerSettles
  <2>6. ASSUME NEW t \in Thread, DeliverNext(t)
        PROVE  Settles(f, l)'
    BY <1>2, <2>6, BeginSettles, BeginElsewhereSettles
  <2>7. ASSUME NEW t \in Thread, Execute(t)
        PROVE  Settles(f, l)'
    <3>1. pc[t] # "idle"
      BY <2>7, ExecuteMoves DEF Wired
    <3>2. CASE action[t].locator = l
      <4>1. action[t] \in {Command("Register", f, l), Command("Deregister", f, l)}
        BY <1>2, <3>1, <3>2, CommandIsHere
      <4>2. QED
        BY <1>2, <2>7, <4>1, StepHereSettles
    <3>3. CASE action[t].locator # l
      BY <1>2, <2>7, <3>3, StepElsewhereSettles
    <3>4. QED
      BY <3>2, <3>3
  <2>8. CASE UNCHANGED dvars
    BY <2>2, <2>8 DEF dvars, discovery
  <2>9. ASSUME NEW s \in Server, End(s) PROVE Settles(f, l)'
    BY <2>2, <2>9 DEF End, discovery
  <2>10. QED
    BY <2>3, <2>4, <2>5, <2>6, <2>7, <2>8, <2>9 DEF DNext
<1>3. ASSUME NEW f \in Name, NEW r \in Server, <<f, LocatorOf[r][f]>> \notin crossed',
             Alike(f, LocatorOf[r][f])
      PROVE  Settles(f, LocatorOf[r][f])'
  <2>1. LocatorOf[r][f] \in Locator
    BY DiscoveryAssumption DEF DiscoveryAssumption
  <2>2. <<f, LocatorOf[r][f]>> \notin crossed
    BY <1>3, CrossedGrows DEF dvars, discovery
  <2>3. Settles(f, LocatorOf[r][f])
    BY <1>3, <2>2 DEF AllSettle
  <2>4. PICK l \in Locator : l = LocatorOf[r][f]
    BY <2>1
  <2>5. Settles(f, l)'
    BY <1>2, <1>3, <2>3, <2>4
  <2>6. QED
    BY <2>4, <2>5
<1>4. QED
  BY <1>1, <1>3 DEF AllSettle, Alike

\* When nothing is under way, a facility has one sender and the component one
\* client for the locator of a good server, and neither for that of another
\* one: restarted servers are not registered twice, and silent ones leave
\* nothing behind (handleHeartbeat, handleTimer, registerFacility,
\* deregisterFacility).
THEOREM SendersFollowServers == DSpec => []SendersMatchServers
<1>1. DInit => Wired /\ AllSettle
  <2>1. ASSUME DInit PROVE AllSettle
    <3>1. /\ \A t \in Thread : pc[t] = "idle" /\ queue[t] = <<>>
          /\ \A s \in Server : infos[s] = "unknown"
          /\ \A f \in Name : underlyingSenders[f] = {}
          /\ connected = {} /\ \A l \in Locator : clients[l] = {}
      BY <2>1 DEF DInit, Init
    <3>2. GoodDiffer
      BY <3>1 DEF GoodDiffer
    <3>3. ASSUME NEW f \in Name, NEW r \in Server PROVE Settles(f, LocatorOf[r][f])
      <4>1. PICK l \in Locator : l = LocatorOf[r][f]
        BY DiscoveryAssumption DEF DiscoveryAssumption
      <4>2. \A t \in Thread : \A type :
              ~Has(t, type, f, l) /\ ~Waits(t, type, f, l) /\ ~Executes(t, f, l)
        BY <3>1 DEF Has, Waits, Executes, Pending, Contains
      <4>3. Clean(f, l) /\ ~Good(f, l)
        BY <3>1 DEF Clean, SendersTo, Good
      <4>4. OneThread(f, l) /\ Announced(f, l)
        BY <4>2 DEF OneThread, Announced
      <4>5. InOrder(f, l)
        BY <3>1 DEF InOrder
      <4>6. Starts(f, l)
        BY <4>2, <4>3 DEF Starts
      <4>7. QED
        BY <4>1, <4>2, <4>4, <4>5, <4>6 DEF Settles
    <3>4. QED
      BY <3>2, <3>3 DEF AllSettle
  <2>2. QED
    BY <2>1, DInitWired
<1>2. Wired /\ AllSettle /\ [DNext]_dvars => (Wired /\ AllSettle)'
  BY WiredKeeps, AllSettleKeeps
<1>3. Wired /\ AllSettle => SendersMatchServers
  <2> SUFFICES ASSUME Wired, AllSettle, Quiet, NEW s \in Server, NEW f \in Name,
                      Unshared(s, f), NEW l, l = LocatorOf[s][f], <<f, l>> \notin crossed
               PROVE  /\ Cardinality(SendersTo(f, l)) = IF Good(f, l) THEN 1 ELSE 0
                      /\ kind # "none" => (l \in connected <=> Good(f, l))
                      /\ kind = "numbered" =>
                           clients[l] = IF Good(f, l) THEN {clientNumberRecord[f][l]} ELSE {}
    BY DEF SendersMatchServers, Good
  <2>1. Alike(f, l)
    BY DEF Unshared, Alike, HasSameInfo
  <2>2. Settles(f, l)
    BY <2>1 DEF AllSettle
  <2>3. \A t \in Thread : \A type : ~Waits(t, type, f, l) /\ ~Executes(t, f, l)
    BY DEF Quiet, Idle, Waits, Executes, Contains
  <2>4. IF Good(f, l) THEN Full(f, l) ELSE Clean(f, l)
    BY <2>2, <2>3 DEF Settles, Starts
  <2>5. CASE Good(f, l)
    <3>1. Full(f, l)
      BY <2>4, <2>5
    <3>2. Cardinality(SendersTo(f, l)) = 1
      BY <3>1, FS_Singleton DEF Full
    <3>3. QED
      BY <2>5, <3>1, <3>2 DEF Full
  <2>6. CASE ~Good(f, l)
    <3>1. Clean(f, l)
      BY <2>4, <2>6
    <3>2. Cardinality(SendersTo(f, l)) = 0
      BY <3>1, FS_EmptySet DEF Clean
    <3>3. QED
      BY <2>6, <3>1, <3>2 DEF Clean
  <2>7. QED
    BY <2>5, <2>6
<1>4. QED
  BY <1>1, <1>2, <1>3, PTL DEF DSpec

=============================================================================
