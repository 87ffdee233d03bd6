-------------------------- MODULE EtcdChain_proofs --------------------------
(***************************************************************************)
(* Proofs about the chain in etcd, for any number of chain objects, any    *)
(* set of ids, any choice of those that watch, cache and append, with lost *)
(* replies and restarts.                                                   *)
(*                                                                         *)
(* Batches are of any size on separate storage.  On one storage they are   *)
(* of one item: of several the code puts only the last one, and the chain  *)
(* is broken (MCEtcdChainBatch.cfg shows it), so there is nothing to prove *)
(* of them.                                                                *)
(***************************************************************************)
EXTENDS EtcdChain, CommonLemmas

Sound == separate \/ MaxTogether = 1

\* The chain begins with the head, and as long as that is all of it the
\* head's record is absent or has no next id.
Started ==
  /\ published # <<>> /\ published[1] = HeadKey
  /\ Len(published) = 1 /\ Exists(HeadKey) => record[HeadKey].nextID = NoId

\* Nobody has seen a revision that etcd has not given out.
SeenRevisions ==
  /\ \A k \in DOMAIN record : record[k].mod <= revision /\ record[k].data <= revision
  /\ \A k \in DOMAIN redis : redis[k].revision <= revision
  /\ \A c \in Client : /\ current[c].revision <= revision
                       /\ reply[c] <= revision
                       /\ delivered[c] <= revision

\* Who does not know that the item at hand has a successor has read it at a
\* revision before that of the append; and once the watch has reported, and
\* reported that append, the shortcut of fetchNext is not taken.
Behind(c) == /\ Holds(c) /\ current[c].nextID = NoId
             /\ record[current[c].id].nextID # NoId

LateReaders ==
  \A c \in Client : Behind(c) =>
    /\ current[c].revision < record[current[c].id].mod
    /\ watch[c] = "reporting" /\ delivered[c] >= record[current[c].id].mod
         => latest[c] > current[c].revision

\* The items of s stand on the chain p, one after the other, from place i on.
StandsAt(p, i, s) ==
  /\ i + Len(s) - 1 <= Len(p)
  /\ \A j \in 1..Len(s) : p[i + j - 1] = s[j]

\* What a call has in hand.
CallIsTrue(c) ==
  /\ pc[c] = "fetching" => \E i \in 1..(Len(published) - 1) :
       Holds(c) /\ published[i] = current[c].id /\ published[i + 1] = wanted[c]
  /\ pc[c] = "appending" =>
       /\ Holds(c) /\ current[c].nextID = NoId
       /\ batch[c] \in Seq(Id) /\ batch[c] # <<>> /\ Unrepeated(batch[c])
       /\ ~separate => Len(batch[c]) = 1
  /\ pc[c] = "accepted" =>
       /\ Holds(c) /\ current[c].nextID = NoId /\ batch[c] # <<>>
       /\ reply[c] = record[current[c].id].mod
       /\ \E i \in 1..Len(published) :
            published[i] = current[c].id /\ StandsAt(published, i + 1, batch[c])
  /\ pc[c] = "duplicating" =>
       /\ Len(batch[c]) >= 2
       /\ \E i \in 1..Len(published) : StandsAt(published, i, batch[c])

Calls == \A c \in Client : CallIsTrue(c)

\* The inductive invariant.  That an append goes to the end of the chain
\* needs HeldItemsAreTrue on one storage, where it compares revisions; that a
\* copy made late is still right needs Calls; and the shortcut of the watch
\* needs LateReaders, which needs that revisions only grow.
IndInv == /\ Sound /\ TypeOK /\ OneChain /\ HeldItemsAreTrue /\ CopiesAreFinal
          /\ Started /\ SeenRevisions /\ LateReaders /\ Calls

-----------------------------------------------------------------------------
\* What the invariant says of the chain, for the steps below.
LEMMA ChainFacts ==
  ASSUME IndInv
  PROVE  /\ published \in Seq(Key) /\ published # <<>> /\ published[1] = HeadKey
         /\ Len(published) \in Nat /\ Len(published) >= 1
         /\ Unrepeated(published)
         /\ Key \ {HeadKey} = Id /\ NoId \notin Key /\ Id \subseteq Key
         /\ \A i \in 1..(Len(published) - 1) :
              /\ Exists(published[i]) /\ record[published[i]].nextID = published[i + 1]
              /\ i \in 1..Len(published) /\ i + 1 \in 1..Len(published)
         /\ \A k \in DOMAIN record : \E i \in 1..Len(published) : published[i] = k
<1>1. published \in Seq(Key) /\ published # <<>> /\ published[1] = HeadKey
  BY DEF IndInv, TypeOK, Started
<1>2. Len(published) \in Nat /\ Len(published) >= 1
  BY <1>1
<1>3. /\ Unrepeated(published)
      /\ \A i \in 1..(Len(published) - 1) :
           Exists(published[i]) /\ record[published[i]].nextID = published[i + 1]
      /\ \A k \in DOMAIN record : \E i \in 1..Len(published) : published[i] = k
  BY DEF IndInv, OneChain, Unrepeated
<1>4. \A i \in 1..(Len(published) - 1) :
        i \in 1..Len(published) /\ i + 1 \in 1..Len(published)
  BY <1>2
<1>5. Key \ {HeadKey} = Id /\ NoId \notin Key /\ Id \subseteq Key
  BY EtcdAssumption DEF Key
<1>6. QED
  BY <1>1, <1>2, <1>3, <1>4, <1>5

\* A next id in a record is that of the next item of the chain, which is there.
LEMMA LinkLeadsOn ==
  ASSUME IndInv, NEW k, Exists(k), record[k].nextID # NoId
  PROVE  /\ Exists(record[k].nextID)
         /\ \E i \in 1..(Len(published) - 1) :
              published[i] = k /\ published[i + 1] = record[k].nextID
<1>1. PICK i \in 1..Len(published) : published[i] = k
  BY ChainFacts DEF Exists
<1>2. i # Len(published)
  <2> SUFFICES ASSUME i = Len(published) PROVE FALSE
    OBVIOUS
  <2>1. CASE Len(published) > 1
    BY <1>1, <2>1 DEF IndInv, OneChain
  <2>2. CASE Len(published) = 1
    BY <1>1, <2>2, ChainFacts DEF IndInv, Started
  <2>3. QED
    BY <2>1, <2>2, ChainFacts
<1>3. i \in 1..(Len(published) - 1)
  BY <1>2, ChainFacts
<1>4. record[k].nextID = published[i + 1]
  BY <1>1, <1>3, ChainFacts
<1>5. Exists(published[i + 1])
  <2>1. CASE i + 1 = Len(published)
    <3>1. Len(published) > 1
      BY <2>1, ChainFacts
    <3>2. QED
      BY <2>1, <3>1 DEF IndInv, OneChain
  <2>2. CASE i + 1 # Len(published)
    <3>1. i + 1 \in 1..(Len(published) - 1)
      BY <1>3, <2>2, ChainFacts
    <3>2. QED
      BY <3>1, ChainFacts
  <2>3. QED
    BY <2>1, <2>2
<1>6. QED
  BY <1>1, <1>3, <1>4, <1>5

\* An item whose record has no next id is the last one.
LEMMA EmptyIsLast ==
  ASSUME IndInv, NEW k, Exists(k), record[k].nextID = NoId
  PROVE  /\ k = published[Len(published)]
         /\ \A i \in 1..Len(published) : Exists(published[i])
<1>1. PICK i \in 1..Len(published) : published[i] = k
  BY ChainFacts DEF Exists
<1>2. i = Len(published)
  <2> SUFFICES ASSUME i # Len(published) PROVE FALSE
    OBVIOUS
  <2>1. i \in 1..(Len(published) - 1) /\ i + 1 \in 1..Len(published)
    BY ChainFacts
  <2>2. record[k].nextID = published[i + 1] /\ published[i + 1] \in Key
    BY <1>1, <2>1, ChainFacts
  <2>3. QED
    BY <2>2, ChainFacts
<1>3. ASSUME NEW j \in 1..Len(published) PROVE Exists(published[j])
  <2>1. CASE j = Len(published)
    BY <1>1, <1>2, <2>1
  <2>2. CASE j # Len(published)
    <3>1. j \in 1..(Len(published) - 1)
      BY <2>2, ChainFacts
    <3>2. QED
      BY <3>1, ChainFacts
  <2>3. QED
    BY <2>1, <2>2
<1>4. QED
  BY <1>1, <1>2, <1>3

-----------------------------------------------------------------------------
\* When etcd accepts the transaction of appendAfter, the current item is the
\* last one, by its empty record or by its revision.
LEMMA AppendingFacts ==
  ASSUME IndInv, NEW c \in Client, pc[c] = "appending", CanAppend(c)
  PROVE  /\ batch[c] \in Seq(Id) /\ batch[c] \in Seq(Key) /\ batch[c] # <<>>
         /\ Len(batch[c]) \in Nat /\ Len(batch[c]) >= 1
         /\ Unrepeated(batch[c])
         /\ ~separate => Len(batch[c]) = 1
         /\ Holds(c) /\ current[c].nextID = NoId
         /\ Exists(current[c].id) /\ record[current[c].id].nextID = NoId
         /\ current[c].id = published[Len(published)]
         /\ \A i \in 1..Len(published), j \in 1..Len(batch[c]) :
              published[i] # batch[c][j]
         /\ \A i \in 1..Len(published) : Exists(published[i])
         /\ \A i \in 1..Len(batch[c]) : ~Exists(batch[c][i])
<1>1. /\ batch[c] \in Seq(Id) /\ batch[c] # <<>> /\ Unrepeated(batch[c])
      /\ ~separate => Len(batch[c]) = 1
      /\ Holds(c) /\ current[c].nextID = NoId
  BY DEF IndInv, Calls, CallIsTrue
<1>2. batch[c] \in Seq(Key) /\ Len(batch[c]) \in Nat /\ Len(batch[c]) >= 1
  BY <1>1 DEF Key
<1>3. /\ Exists(current[c].id)
      /\ \A i \in 1..Len(batch[c]) : ~Exists(batch[c][i])
  BY DEF CanAppend
<1>4. record[current[c].id].nextID = NoId
  <2>1. CASE separate
    BY <2>1 DEF CanAppend
  <2>2. CASE ~separate
    <3>1. record[current[c].id].mod = current[c].revision
      BY <2>2 DEF CanAppend
    <3>2. QED
      BY <1>1, <2>2, <3>1 DEF IndInv, HeldItemsAreTrue
  <2>3. QED
    BY <2>1, <2>2
<1>5. /\ current[c].id = published[Len(published)]
      /\ \A i \in 1..Len(published) : Exists(published[i])
  BY <1>3, <1>4, EmptyIsLast
<1>6. QED
  BY <1>1, <1>2, <1>3, <1>4, <1>5

\* The records it writes: the current one gets a new revision and the first
\* item as its next, and each new one names the following.
LEMMA AppendEffect ==
  ASSUME IndInv, NEW c \in Client, pc[c] = "appending", CanAppend(c), AppendSucceeds(c)
  PROVE  /\ published' = published \o batch[c] /\ revision' = revision + 1
         /\ DOMAIN record' =
              DOMAIN record \cup {batch[c][i] : i \in 1..Len(batch[c])}
         /\ record'[current[c].id] =
              Record(revision', record[current[c].id].data, batch[c][1])
         /\ \A k \in DOMAIN record \ {current[c].id} : record'[k] = record[k]
         /\ \A i \in 1..(Len(batch[c]) - 1) :
              record'[batch[c][i]] = Record(revision', revision', batch[c][i + 1])
         /\ record'[batch[c][Len(batch[c])]] = Record(revision', revision', NoId)
<1> DEFINE items == batch[c]
           k == current[c].id
           rev == revision'
           successor(i) == IF i = Len(items) THEN NoId ELSE items[i + 1]
           index(id) == CHOOSE i \in 1..Len(items) : items[i] = id
           new == [id \in {k} \cup {items[i] : i \in 1..Len(items)} |->
                    IF id = k THEN Record(rev, record[k].data, items[1])
                    ELSE Record(rev, rev, successor(index(id)))]
<1>1. /\ published' = published \o items /\ revision' = revision + 1
      /\ record' = Over(NewRecords(c, revision'), record)
  BY DEF AppendSucceeds
<1>2. /\ Len(items) \in Nat /\ Len(items) >= 1 /\ Unrepeated(items)
      /\ ~separate => Len(items) = 1
      /\ k \in DOMAIN record
      /\ \A i \in 1..Len(items) : items[i] \notin DOMAIN record
  BY AppendingFacts DEF Exists
<1>3. Put(items) = 1..Len(items)
  <2>1. Len(items) = 1 => 1..Len(items) = {Len(items)}
    BY <1>2
  <2>2. QED
    BY <1>2, <2>1 DEF Put
<1>4. NewRecords(c, revision') = new
  BY <1>3 DEF NewRecords
<1>5. \A i \in 1..Len(items) : index(items[i]) = i /\ items[i] # k
  BY <1>2 DEF Unrepeated
<1> HIDE DEF items, k, rev, index
<1>6. /\ DOMAIN new = {k} \cup {items[i] : i \in 1..Len(items)}
      /\ new[k] = Record(rev, record[k].data, items[1])
      /\ \A i \in 1..Len(items) : new[items[i]] = Record(rev, rev, successor(i))
  BY <1>5
<1> HIDE DEF new
<1>7. /\ DOMAIN record' = DOMAIN record \cup DOMAIN new
      /\ \A x \in DOMAIN new : record'[x] = new[x]
      /\ \A x \in DOMAIN record \ DOMAIN new : record'[x] = record[x]
  BY <1>1, <1>4 DEF Over
<1>8. DOMAIN record' = DOMAIN record \cup {items[i] : i \in 1..Len(items)}
  BY <1>2, <1>6, <1>7
<1>9. record'[k] = Record(rev, record[k].data, items[1])
  BY <1>6, <1>7
<1>10. \A x \in DOMAIN record \ {k} : record'[x] = record[x]
  BY <1>2, <1>6, <1>7
<1>11. \A i \in 1..Len(items) : record'[items[i]] = Record(rev, rev, successor(i))
  BY <1>6, <1>7
<1>12. ASSUME NEW i \in 1..(Len(items) - 1)
       PROVE  record'[items[i]] = Record(rev, rev, items[i + 1])
  <2>1. i \in 1..Len(items) /\ i # Len(items)
    BY <1>2
  <2>2. QED
    BY <1>11, <2>1
<1>13. record'[items[Len(items)]] = Record(rev, rev, NoId)
  <2>1. Len(items) \in 1..Len(items)
    BY <1>2
  <2>2. QED
    BY <1>11, <2>1
<1>14. QED
  BY <1>1, <1>8, <1>9, <1>10, <1>12, <1>13 DEF items, k, rev

\* Concatenation, for the chain and a batch.
LEMMA Longer ==
  ASSUME IndInv, NEW c \in Client, pc[c] = "appending", CanAppend(c), AppendSucceeds(c)
  PROVE  /\ published' \in Seq(Key) /\ published' # <<>> /\ published'[1] = HeadKey
         /\ Len(published') = Len(published) + Len(batch[c])
         /\ Len(published) < Len(published')
         /\ Unrepeated(published')
         /\ \A i \in 1..Len(published) :
              i \in 1..Len(published') /\ published'[i] = published[i]
         /\ \A i \in 1..Len(batch[c]) :
              /\ Len(published) + i \in 1..Len(published')
              /\ published'[Len(published) + i] = batch[c][i]
         /\ \A i \in 1..Len(published') :
              i \in 1..Len(published)
                \/ \E j \in 1..Len(batch[c]) : i = Len(published) + j
<1> DEFINE p == published
           b == batch[c]
<1>1. /\ p \in Seq(Key) /\ b \in Seq(Key) /\ Unrepeated(p) /\ Unrepeated(b)
      /\ p[1] = HeadKey /\ Len(b) \in Nat /\ Len(b) >= 1
      /\ Len(p) \in Nat /\ Len(p) >= 1 /\ published' = p \o b
      /\ \A i \in 1..Len(p), j \in 1..Len(b) : p[i] # b[j]
  BY ChainFacts, AppendingFacts, AppendEffect
<1> HIDE DEF p, b
<1>2. Unrepeated(p \o b)
  BY <1>1, ConcatUnrepeated
<1>3. /\ p \o b \in Seq(Key) /\ Len(p \o b) = Len(p) + Len(b)
      /\ \A i \in 1..Len(p) : i \in 1..Len(p \o b) /\ (p \o b)[i] = p[i]
      /\ \A i \in 1..Len(b) :
           Len(p) + i \in 1..Len(p \o b) /\ (p \o b)[Len(p) + i] = b[i]
      /\ \A i \in 1..Len(p \o b) :
           i \in 1..Len(p) \/ (i - Len(p) \in 1..Len(b) /\ i = Len(p) + (i - Len(p)))
  BY <1>1, ConcatPlaces
<1>4. p \o b # <<>> /\ (p \o b)[1] = HeadKey /\ Len(p) < Len(p \o b)
  BY <1>1, <1>3
<1>5. QED
  BY <1>1, <1>2, <1>3, <1>4 DEF p, b

-----------------------------------------------------------------------------
\* The initial state satisfies the inductive invariant.
LEMMA InitIndInv == Init /\ Sound => IndInv
<1> SUFFICES ASSUME Init, Sound PROVE IndInv
  OBVIOUS
<1> USE DEF Init, Empty
<1>1. TypeOK
  BY EtcdAssumption DEF TypeOK, Key, NoItem, ItemType, Status, Watching
<1>2. OneChain /\ HeldItemsAreTrue /\ CopiesAreFinal /\ Started
  BY DEF OneChain, HeldItemsAreTrue, CopiesAreFinal, Started, Holds, Exists
<1>3. SeenRevisions
  BY DEF SeenRevisions, NoItem, ItemType
<1>4. LateReaders /\ Calls
  BY DEF LateReaders, Behind, Calls, CallIsTrue, Holds
<1>5. QED
  BY <1>1, <1>2, <1>3, <1>4 DEF IndInv

\* An append that etcd accepts keeps the invariant, whether or not the reply
\* arrives.
LEMMA AppendKeepsIndInv ==
  ASSUME IndInv, NEW c \in Client, AppendSucceeds(c)
  PROVE  IndInv'
<1> DEFINE b == batch[c]
           n == Len(published)
           m == Len(batch[c])
           N == Len(published')
           k == current[c].id
<1>0. /\ pc[c] = "appending" /\ CanAppend(c)
      /\ reply' = [reply EXCEPT ![c] = revision']
      /\ pc' \in {[pc EXCEPT ![c] = "accepted"], [pc EXCEPT ![c] = "refused"]}
      /\ UNCHANGED <<separate, redis, current, wanted, batch, latest, watch,
                     delivered>>
  BY DEF AppendSucceeds
<1>1. /\ published' \in Seq(Key) /\ published' # <<>> /\ published'[1] = HeadKey
      /\ N = n + m /\ n < N /\ Unrepeated(published')
      /\ \A i \in 1..n : i \in 1..N /\ published'[i] = published[i]
      /\ \A i \in 1..m : n + i \in 1..N /\ published'[n + i] = b[i]
      /\ \A i \in 1..N : i \in 1..n \/ \E j \in 1..m : i = n + j
  BY <1>0, Longer
<1>2. /\ published \in Seq(Key) /\ n \in Nat /\ n >= 1 /\ m \in Nat /\ m >= 1
      /\ b \in Seq(Id) /\ N \in Nat /\ revision \in Nat
  <2>1. b \in Seq(Id) /\ m \in Nat /\ m >= 1
    BY <1>0, AppendingFacts
  <2>2. N \in Nat
    BY <1>1
  <2>3. revision \in Nat
    BY DEF IndInv, TypeOK
  <2>4. QED
    BY <2>1, <2>2, <2>3, ChainFacts
<1>3. /\ revision' = revision + 1
      /\ DOMAIN record' = DOMAIN record \cup {b[i] : i \in 1..m}
      /\ record'[k] = Record(revision', record[k].data, b[1])
      /\ \A x \in DOMAIN record \ {k} : record'[x] = record[x]
      /\ \A i \in 1..(m - 1) : record'[b[i]] = Record(revision', revision', b[i + 1])
      /\ record'[b[m]] = Record(revision', revision', NoId)
  BY <1>0, AppendEffect
<1>4. /\ \A i \in 1..n : published[i] \in DOMAIN record
      /\ \A i \in 1..m : b[i] \in Id /\ b[i] \notin DOMAIN record
      /\ k \in DOMAIN record /\ k = published[n] /\ record[k].nextID = NoId
      /\ Holds(c) /\ current[c].nextID = NoId
      /\ b # <<>> /\ b \in Seq(Key) /\ record[k].data \in Nat
  <2>1. \A i \in 1..m : b[i] \in Id
    BY <1>2
  <2>2. QED
    BY <1>0, <2>1, AppendingFacts DEF Exists, IndInv, TypeOK
<1> HIDE DEF b, n, m, N, k
<1>5. \A i \in 1..N : published'[i] \in DOMAIN record'
  <2> SUFFICES ASSUME NEW i \in 1..N PROVE published'[i] \in DOMAIN record'
    OBVIOUS
  <2>1. CASE i \in 1..n
    BY <1>1, <1>3, <1>4, <2>1
  <2>2. ASSUME NEW j \in 1..m, i = n + j PROVE published'[i] \in DOMAIN record'
    BY <1>1, <1>3, <2>2
  <2>3. QED
    BY <1>1, <2>1, <2>2
<1>6. ASSUME NEW i \in 1..(N - 1)
      PROVE  record'[published'[i]].nextID = published'[i + 1]
  <2>1. CASE i < n
    <3>1. i \in 1..(n - 1) /\ i \in 1..n /\ i + 1 \in 1..n /\ n \in 1..n /\ i # n
      BY <1>2, <2>1
    <3>2. published[i] # k
      BY <1>4, <3>1, ChainFacts DEF Unrepeated, n
    <3>3. record'[published[i]] = record[published[i]]
      BY <1>3, <1>4, <3>1, <3>2
    <3>4. record[published[i]].nextID = published[i + 1]
      BY <3>1, ChainFacts DEF n
    <3>5. QED
      BY <1>1, <3>1, <3>3, <3>4
  <2>2. CASE i = n
    <3>1. i \in 1..n /\ 1 \in 1..m
      BY <1>2, <2>2
    <3>2. published'[i] = k /\ published'[i + 1] = b[1]
      BY <1>1, <1>4, <2>2, <3>1
    <3>3. QED
      BY <1>3, <3>2 DEF Record
  <2>3. CASE i > n
    <3> DEFINE j == i - n
    <3>1. j \in 1..(m - 1) /\ j \in 1..m /\ j + 1 \in 1..m
          /\ i = n + j /\ i + 1 = n + (j + 1)
      BY <1>1, <1>2, <2>3
    <3> HIDE DEF j
    <3>2. published'[i] = b[j] /\ published'[i + 1] = b[j + 1]
      BY <1>1, <3>1
    <3>3. record'[b[j]] = Record(revision', revision', b[j + 1])
      BY <1>3, <3>1
    <3>4. QED
      BY <3>2, <3>3 DEF Record
  <2>4. QED
    BY <1>2, <2>1, <2>2, <2>3
<1>7. record'[published'[N]].nextID = NoId
  <2>1. m \in 1..m /\ N = n + m
    BY <1>1, <1>2
  <2>2. published'[N] = b[m]
    BY <1>1, <2>1
  <2>3. QED
    BY <1>3, <2>2 DEF Record
<1>8. \A x \in DOMAIN record' : \E i \in 1..N : published'[i] = x
  <2> SUFFICES ASSUME NEW x \in DOMAIN record'
               PROVE  \E i \in 1..N : published'[i] = x
    OBVIOUS
  <2>1. CASE x \in DOMAIN record
    <3>1. PICK i \in 1..n : published[i] = x
      BY <2>1, ChainFacts DEF n
    <3>2. QED
      BY <1>1, <3>1
  <2>2. CASE x \in {b[i] : i \in 1..m}
    BY <1>1, <2>2
  <2>3. QED
    BY <1>3, <2>1, <2>2
<1>9. OneChain'
  BY <1>5, <1>6, <1>7, <1>8, <1>1, <1>2 DEF OneChain, Exists, N, Unrepeated
<1>10. Started'
  BY <1>1, <1>2 DEF Started, N
<1>11. \A x \in DOMAIN record : /\ x \in DOMAIN record'
                                /\ record[x].nextID # NoId => record'[x] = record[x]
                                /\ x # k => record'[x] = record[x]
  BY <1>3, <1>4
<1>12. /\ record'[k].mod = revision + 1 /\ record'[k].nextID = b[1]
       /\ record'[k].data = record[k].data
  BY <1>3 DEF Record
<1>13. \A d \in Client : /\ current[d].revision \in Nat /\ current[d].revision <= revision
                         /\ delivered[d] \in Nat /\ delivered[d] <= revision
                         /\ reply[d] \in Nat /\ reply[d] <= revision
  BY DEF IndInv, TypeOK, SeenRevisions
<1>14. HeldItemsAreTrue'
  <2> SUFFICES ASSUME NEW d \in Client, Holds(d)
               PROVE  /\ current[d].id \in DOMAIN record'
                      /\ current[d].nextID \in {NoId, record'[current[d].id].nextID}
                      /\ (~separate /\ current[d].revision = record'[current[d].id].mod)
                           => current[d].nextID = record'[current[d].id].nextID
    BY <1>0 DEF HeldItemsAreTrue, Holds, Exists
  <2>1. /\ current[d].id \in DOMAIN record
        /\ current[d].nextID \in {NoId, record[current[d].id].nextID}
        /\ (~separate /\ current[d].revision = record[current[d].id].mod)
             => current[d].nextID = record[current[d].id].nextID
    BY DEF IndInv, HeldItemsAreTrue, Exists
  <2>2. CASE current[d].id = k
    <3>1. current[d].nextID = NoId
      BY <1>4, <2>1, <2>2
    <3>2. current[d].revision # record'[current[d].id].mod
      BY <1>2, <1>12, <1>13, <2>2
    <3>3. QED
      BY <1>11, <2>1, <3>1, <3>2
  <2>3. CASE current[d].id # k
    <3>1. record'[current[d].id] = record[current[d].id]
      BY <1>11, <2>1, <2>3
    <3>2. QED
      BY <1>11, <2>1, <3>1
  <2>4. QED
    BY <2>2, <2>3
<1>15. CopiesAreFinal'
  BY <1>0, <1>11 DEF IndInv, CopiesAreFinal, Exists
<1>16. \A x \in DOMAIN record' :
         record'[x] \in [mod : Nat, data : Nat, nextID : Id \cup {NoId}]
         /\ record'[x].mod <= revision' /\ record'[x].data <= revision'
  <2> SUFFICES ASSUME NEW x \in DOMAIN record'
               PROVE  /\ record'[x] \in [mod : Nat, data : Nat, nextID : Id \cup {NoId}]
                      /\ record'[x].mod <= revision' /\ record'[x].data <= revision'
    OBVIOUS
  <2>1. revision' \in Nat /\ revision <= revision'
    BY <1>2, <1>3
  <2>2. CASE x = k
    <3>1. 1 \in 1..m
      BY <1>2
    <3>2. b[1] \in Id /\ record[k].data \in Nat /\ record[k].data <= revision
      BY <1>4, <3>1 DEF IndInv, SeenRevisions
    <3>3. QED
      BY <1>2, <1>3, <2>1, <2>2, <3>2 DEF Record
  <2>3. CASE x \in DOMAIN record /\ x # k
    <3>1. /\ record[x] \in [mod : Nat, data : Nat, nextID : Id \cup {NoId}]
          /\ record[x].mod <= revision /\ record[x].data <= revision
      BY <2>3 DEF IndInv, TypeOK, SeenRevisions
    <3>2. record'[x] = record[x]
      BY <1>11, <2>3
    <3>3. QED
      BY <1>2, <2>1, <3>1, <3>2
  <2>4. ASSUME NEW i \in 1..m, x = b[i]
        PROVE  /\ record'[x] \in [mod : Nat, data : Nat, nextID : Id \cup {NoId}]
               /\ record'[x].mod <= revision' /\ record'[x].data <= revision'
    <3>1. \E y \in Id \cup {NoId} : record'[x] = Record(revision', revision', y)
      <4>1. CASE i = m
        BY <1>3, <2>4, <4>1
      <4>2. CASE i # m
        <5>1. i \in 1..(m - 1) /\ i + 1 \in 1..m
          BY <1>2, <4>2
        <5>2. QED
          BY <1>3, <1>4, <2>4, <5>1
      <4>3. QED
        BY <4>1, <4>2
    <3>2. QED
      BY <2>1, <3>1 DEF Record
  <2>5. QED
    BY <1>3, <2>2, <2>3, <2>4
<1>17. SeenRevisions'
  <2>1. \A x \in DOMAIN redis' : redis'[x].revision <= revision'
    <3>1. \A x \in DOMAIN redis : redis[x].revision \in Nat /\ redis[x].revision <= revision
      BY DEF IndInv, TypeOK, SeenRevisions
    <3>2. QED
      BY <1>0, <1>2, <1>3, <3>1
  <2>2. \A d \in Client : /\ current'[d].revision <= revision'
                          /\ reply'[d] <= revision'
                          /\ delivered'[d] <= revision'
    <3> SUFFICES ASSUME NEW d \in Client
                 PROVE  /\ current[d].revision <= revision' /\ reply'[d] <= revision'
                        /\ delivered[d] <= revision'
      BY <1>0
    <3>1. reply'[d] = IF d = c THEN revision' ELSE reply[d]
      BY <1>0 DEF IndInv, TypeOK
    <3>2. QED
      BY <1>2, <1>3, <1>13, <3>1
  <2>3. QED
    BY <1>16, <2>1, <2>2 DEF SeenRevisions
<1>18. LateReaders'
  <2> SUFFICES ASSUME NEW d \in Client, Behind(d)'
               PROVE  /\ current[d].revision < record'[current[d].id].mod
                      /\ /\ watch[d] = "reporting"
                         /\ delivered[d] >= record'[current[d].id].mod
                         => latest[d] > current[d].revision
    BY <1>0 DEF LateReaders
  <2>1. /\ Holds(d) /\ current[d].nextID = NoId
        /\ record'[current[d].id].nextID # NoId
        /\ current[d].id \in DOMAIN record
    BY <1>0 DEF Behind, Holds, IndInv, HeldItemsAreTrue, Exists
  <2>2. CASE current[d].id = k
    BY <1>2, <1>12, <1>13, <2>2
  <2>3. CASE current[d].id # k
    <3>1. record'[current[d].id] = record[current[d].id]
      BY <1>11, <2>1, <2>3
    <3>2. Behind(d)
      BY <2>1, <3>1 DEF Behind
    <3>3. QED
      BY <3>1, <3>2 DEF IndInv, LateReaders
  <2>4. QED
    BY <2>2, <2>3
<1>19. Calls'
  <2> SUFFICES ASSUME NEW d \in Client
        PROVE  /\ pc'[d] = "fetching" => \E i \in 1..(N - 1) :
                    /\ Holds(d) /\ published'[i] = current[d].id
                    /\ published'[i + 1] = wanted[d]
               /\ pc'[d] = "appending" =>
                    /\ Holds(d) /\ current[d].nextID = NoId
                    /\ batch[d] \in Seq(Id) /\ batch[d] # <<>> /\ Unrepeated(batch[d])
                    /\ ~separate => Len(batch[d]) = 1
               /\ pc'[d] = "accepted" =>
                    /\ Holds(d) /\ current[d].nextID = NoId /\ batch[d] # <<>>
                    /\ reply'[d] = record'[current[d].id].mod
                    /\ \E i \in 1..N :
                         published'[i] = current[d].id /\ StandsAt(published', i + 1, batch[d])
               /\ pc'[d] = "duplicating" =>
                    /\ Len(batch[d]) >= 2
                    /\ \E i \in 1..N : StandsAt(published', i, batch[d])
    BY <1>0 DEF Calls, CallIsTrue, Holds, N
  <2>1. \A s \in Seq(Key) : \A i \in Nat :
          i >= 1 /\ StandsAt(published, i, s) => StandsAt(published', i, s)
    <3> SUFFICES ASSUME NEW s \in Seq(Key), NEW i \in Nat, i >= 1, StandsAt(published, i, s)
                 PROVE  StandsAt(published', i, s)
      OBVIOUS
    <3>1. i + Len(s) - 1 <= n /\ \A j \in 1..Len(s) : published[i + j - 1] = s[j]
      BY DEF StandsAt, n
    <3>2. Len(s) \in Nat /\ i + Len(s) - 1 <= N
      BY <1>1, <1>2, <3>1
    <3>3. ASSUME NEW j \in 1..Len(s) PROVE published'[i + j - 1] = s[j]
      <4>1. i + j - 1 \in 1..n
        BY <1>2, <3>1, <3>2
      <4>2. QED
        BY <1>1, <3>1, <4>1
    <3>4. QED
      BY <3>2, <3>3 DEF StandsAt, N
  <2>2. CASE d # c
    <3>1. pc'[d] = pc[d] /\ reply'[d] = reply[d]
      BY <1>0, <2>2 DEF IndInv, TypeOK
    <3>2. pc[d] = "fetching" => \E i \in 1..(N - 1) :
             /\ Holds(d) /\ published'[i] = current[d].id
             /\ published'[i + 1] = wanted[d]
      <4> SUFFICES ASSUME pc[d] = "fetching"
                   PROVE  \E i \in 1..(N - 1) :
                            /\ Holds(d) /\ published'[i] = current[d].id
                            /\ published'[i + 1] = wanted[d]
        OBVIOUS
      <4>1. PICK i \in 1..(n - 1) :
              Holds(d) /\ published[i] = current[d].id /\ published[i + 1] = wanted[d]
        BY DEF IndInv, Calls, CallIsTrue, n
      <4>2. i \in 1..n /\ i + 1 \in 1..n /\ i \in 1..(N - 1)
        BY <1>1, <1>2
      <4>3. QED
        BY <1>1, <4>1, <4>2
    <3>3. pc[d] = "accepted" => reply[d] = record'[current[d].id].mod
      <4> SUFFICES ASSUME pc[d] = "accepted"
                   PROVE  reply[d] = record'[current[d].id].mod
        OBVIOUS
      <4>1. PICK i \in 1..n :
              published[i] = current[d].id /\ StandsAt(published, i + 1, batch[d])
        BY DEF IndInv, Calls, CallIsTrue, n
      <4>2. batch[d] # <<>> /\ batch[d] \in Seq(Key) /\ Holds(d)
            /\ reply[d] = record[current[d].id].mod
        BY DEF IndInv, Calls, CallIsTrue, TypeOK
      <4>3. i + 1 <= n
        <5>1. Len(batch[d]) \in Nat /\ Len(batch[d]) >= 1
          BY <4>2
        <5>2. (i + 1) + Len(batch[d]) - 1 <= n
          BY <4>1 DEF StandsAt, n
        <5>3. \A l \in Nat : l >= 1 /\ (i + 1) + l - 1 <= n => i + 1 <= n
          BY <1>2
        <5>4. QED
          BY <5>1, <5>2, <5>3
      <4>4. i \in 1..n /\ n \in 1..n /\ i # n
        BY <1>2, <4>3
      <4>5. current[d].id # k
        BY <1>4, <4>1, <4>4, ChainFacts DEF Unrepeated, n
      <4>6. current[d].id \in DOMAIN record
        BY <4>2 DEF IndInv, HeldItemsAreTrue, Exists
      <4>7. QED
        BY <1>11, <4>2, <4>5, <4>6
    <3>4. ASSUME NEW i \in 1..n PROVE i \in 1..N /\ i + 1 \in Nat /\ i + 1 >= 1 /\ i \in Nat
      BY <1>1, <1>2
    <3>5. batch[d] \in Seq(Key)
      BY DEF IndInv, TypeOK
    <3>6. pc[d] = "accepted" => \E i \in 1..N :
             published'[i] = current[d].id /\ StandsAt(published', i + 1, batch[d])
      <4> SUFFICES ASSUME pc[d] = "accepted"
                   PROVE  \E i \in 1..N :
                            published'[i] = current[d].id /\ StandsAt(published', i + 1, batch[d])
        OBVIOUS
      <4>1. PICK i \in 1..n :
              published[i] = current[d].id /\ StandsAt(published, i + 1, batch[d])
        BY DEF IndInv, Calls, CallIsTrue, n
      <4>2. StandsAt(published', i + 1, batch[d])
        BY <2>1, <3>4, <3>5, <4>1
      <4>3. QED
        BY <1>1, <3>4, <4>1, <4>2
    <3>7. pc[d] = "duplicating" => \E i \in 1..N : StandsAt(published', i, batch[d])
      <4> SUFFICES ASSUME pc[d] = "duplicating"
                   PROVE  \E i \in 1..N : StandsAt(published', i, batch[d])
        OBVIOUS
      <4>1. PICK i \in 1..n : StandsAt(published, i, batch[d])
        BY DEF IndInv, Calls, CallIsTrue, n
      <4>2. i \in Nat /\ i >= 1
        BY <1>2
      <4>3. QED
        BY <2>1, <3>4, <3>5, <4>1, <4>2
    <3>8. pc[d] = "appending" =>
             /\ Holds(d) /\ current[d].nextID = NoId
             /\ batch[d] \in Seq(Id) /\ batch[d] # <<>> /\ Unrepeated(batch[d])
             /\ ~separate => Len(batch[d]) = 1
      BY DEF IndInv, Calls, CallIsTrue
    <3>9. /\ pc[d] = "accepted" =>
               Holds(d) /\ current[d].nextID = NoId /\ batch[d] # <<>>
          /\ pc[d] = "duplicating" => Len(batch[d]) >= 2
      BY DEF IndInv, Calls, CallIsTrue
    <3>10. QED
      BY <3>1, <3>2, <3>3, <3>6, <3>7, <3>8, <3>9
  <2>3. CASE d = c
    <3>1. pc'[d] \in {"accepted", "refused"} /\ reply'[d] = revision'
      BY <1>0, <2>3 DEF IndInv, TypeOK
    <3>2. reply'[d] = record'[current[d].id].mod
      BY <1>3, <1>12, <2>3, <3>1 DEF k
    <3>3. n \in 1..N /\ published'[n] = current[d].id
      <4>1. n \in 1..n
        BY <1>2
      <4>2. QED
        BY <1>1, <1>4, <2>3, <4>1 DEF k
    <3>4. StandsAt(published', n + 1, batch[d])
      <4>1. (n + 1) + m - 1 <= N
        BY <1>1, <1>2
      <4>2. ASSUME NEW j \in 1..m PROVE published'[(n + 1) + j - 1] = b[j]
        <5>1. (n + 1) + j - 1 = n + j
          BY <1>2
        <5>2. QED
          BY <1>1, <5>1
      <4>3. Len(b) = m /\ batch[d] = b
        BY <2>3 DEF b, m
      <4>4. QED
        BY <4>1, <4>2, <4>3 DEF StandsAt, N
    <3>5. QED
      <4>1. batch[d] # <<>> /\ Holds(d) /\ current[d].nextID = NoId
        BY <1>4, <2>3 DEF b
      <4>2. \E i \in 1..N : /\ published'[i] = current[d].id
                            /\ StandsAt(published', i + 1, batch[d])
        BY <3>3, <3>4
      <4>3. QED
        BY <3>1, <3>2, <4>1, <4>2
  <2>4. QED
    BY <2>2, <2>3
<1>20. TypeOK'
  <2>1. DOMAIN record' \subseteq Key
    <3>1. DOMAIN record \subseteq Key /\ Id \subseteq Key
      BY DEF IndInv, TypeOK, Key
    <3>2. QED
      BY <1>3, <1>4, <3>1
  <2>2. revision' \in Nat /\ reply' \in [Client -> Nat] /\ pc' \in [Client -> Status]
    <3>1. revision' \in Nat
      BY <1>2, <1>3
    <3>2. reply' \in [Client -> Nat] /\ pc' \in [Client -> Status]
      BY <1>0, <3>1 DEF IndInv, TypeOK, Status
    <3>3. QED
      BY <3>1, <3>2
  <2>3. QED
    BY <1>0, <1>1, <1>16, <2>1, <2>2 DEF IndInv, TypeOK
<1>21. Sound'
  BY <1>0 DEF IndInv, Sound
<1>22. QED
  BY <1>9, <1>10, <1>14, <1>15, <1>17, <1>18, <1>19, <1>20, <1>21 DEF IndInv

-----------------------------------------------------------------------------
\* What a step that leaves etcd alone cannot disturb.
LEMMA ServerSame ==
  ASSUME IndInv, UNCHANGED server
  PROVE  Sound' /\ OneChain' /\ Started'
  BY DEF IndInv, server, Sound, OneChain, Exists, Started

\* A client that takes an item as etcd or Redis has it keeps the invariant.
LEMMA TakeKeepsIndInv ==
  ASSUME IndInv, NEW c \in Client, NEW item,
         UNCHANGED <<server, redis, batch, reply, latest, watch, delivered>>,
         Take(c, item), pc' = [pc EXCEPT ![c] = "idle"],
         \/ wanted' = wanted
         \/ wanted' = [wanted EXCEPT ![c] = NoId],
         item \in [revision : Nat, id : Key \cup {NoId}, nextID : Id \cup {NoId}],
         item.revision <= revision, Exists(item.id),
         item.nextID = record[item.id].nextID
  PROVE  IndInv'
<1>1. /\ current'[c] = item
      /\ \A d \in Client \ {c} : current'[d] = current[d]
      /\ \A d \in Client : pc'[d] # "idle" =>
           d # c /\ pc'[d] = pc[d] /\ wanted'[d] = wanted[d]
      /\ UNCHANGED <<separate, revision, record, published>>
      /\ batch' = batch /\ reply' = reply /\ latest' = latest
      /\ watch' = watch /\ delivered' = delivered /\ redis' = redis
  BY DEF Take, IndInv, TypeOK, server
<1>2. TypeOK'
  <2>1. current' \in [Client -> [revision : Nat, id : Key \cup {NoId},
                                 nextID : Id \cup {NoId}]]
    BY DEF Take, IndInv, TypeOK
  <2>2. pc' \in [Client -> Status]
    BY DEF IndInv, TypeOK, Status
  <2>3. wanted' \in [Client -> Id \cup {NoId}]
    BY DEF IndInv, TypeOK
  <2>4. QED
    BY <1>1, <2>1, <2>2, <2>3 DEF IndInv, TypeOK
<1>3. HeldItemsAreTrue'
  BY <1>1 DEF IndInv, HeldItemsAreTrue, Holds, Exists
<1>4. CopiesAreFinal'
  BY <1>1 DEF IndInv, CopiesAreFinal, Exists
<1>5. SeenRevisions'
  BY <1>1 DEF IndInv, SeenRevisions
<1>6. LateReaders'
  BY <1>1 DEF IndInv, LateReaders, Behind, Holds
<1>7. Calls'
  BY <1>1 DEF IndInv, Calls, CallIsTrue, Holds
<1>8. QED
  BY <1>2, <1>3, <1>4, <1>5, <1>6, <1>7, ServerSame DEF IndInv

\* What a read of etcd or of Redis gives.
LEMMA EtcdItems ==
  ASSUME IndInv, NEW k, Exists(k)
  PROVE  /\ FromEtcd(k) \in [revision : Nat, id : Key \cup {NoId},
                             nextID : Id \cup {NoId}]
         /\ FromEtcd(k).revision <= revision
         /\ FromEtcd(k).id = k /\ FromEtcd(k).nextID = record[k].nextID
  BY DEF IndInv, TypeOK, SeenRevisions, FromEtcd, ItemType, Exists

\* What the shortcut keys in Redis are read as.
LEMMA RedisItems ==
  ASSUME IndInv, NEW k, k \in DOMAIN redis
  PROVE  /\ FromRedis(k) \in [revision : Nat, id : Key \cup {NoId},
                              nextID : Id \cup {NoId}]
         /\ FromRedis(k).revision <= revision /\ Exists(k)
         /\ FromRedis(k).id = k /\ FromRedis(k).nextID = record[k].nextID
  BY DEF IndInv, TypeOK, SeenRevisions, CopiesAreFinal, FromRedis, ItemType

\* fetchNext looks for the successor of the item at hand, wherever it has its
\* id from.
LEMMA NextIsSuccessor ==
  ASSUME IndInv, NEW c \in Client, Holds(c), NEW next \in Id,
         \/ next = KnownNext(c)
         \/ next = record[current[c].id].nextID
  PROVE  /\ next = record[current[c].id].nextID /\ Exists(next)
         /\ \E i \in 1..(Len(published) - 1) :
              published[i] = current[c].id /\ published[i + 1] = next
<1>1. /\ Exists(current[c].id)
      /\ current[c].nextID \in {NoId, record[current[c].id].nextID}
  BY DEF IndInv, HeldItemsAreTrue
<1>2. next # NoId
  BY EtcdAssumption
<1>3. next = record[current[c].id].nextID
  <2>1. CASE next = KnownNext(c)
    <3>1. CASE current[c].nextID # NoId
      BY <1>1, <2>1, <3>1 DEF KnownNext
    <3>2. CASE current[c].nextID = NoId /\ InRedis(c, current[c].id)
      BY <2>1, <3>2 DEF KnownNext, InRedis, IndInv, CopiesAreFinal
    <3>3. CASE current[c].nextID = NoId /\ ~InRedis(c, current[c].id)
      BY <1>2, <2>1, <3>3 DEF KnownNext
    <3>4. QED
      BY <3>1, <3>2, <3>3
  <2>2. QED
    BY <2>1
<1>4. QED
  BY <1>1, <1>2, <1>3, LinkLeadsOn

\* head() keeps the invariant, when it finds the head and when it creates it.
LEMMA HeadKeepsIndInv ==
  ASSUME IndInv, NEW c \in Client, HeadItem(c)
  PROVE  IndInv'
<1>1. /\ pc[c] = "idle" /\ pc' = pc /\ wanted' = wanted
      /\ UNCHANGED <<separate, redis, batch, reply, latest, watch, delivered,
                     published>>
  BY DEF HeadItem
<1>2. pc' = [pc EXCEPT ![c] = "idle"]
  BY <1>1 DEF IndInv, TypeOK
<1>3. CASE InRedis(c, HeadKey)
  <2>1. Take(c, FromRedis(HeadKey)) /\ UNCHANGED <<revision, record>>
    BY <1>3 DEF HeadItem
  <2>2. HeadKey \in DOMAIN redis
    BY <1>3 DEF InRedis
  <2>3. QED
    BY <1>1, <1>2, <2>1, <2>2, RedisItems, TakeKeepsIndInv DEF server
<1>4. CASE ~InRedis(c, HeadKey) /\ Exists(HeadKey)
  <2>1. Take(c, FromEtcd(HeadKey)) /\ UNCHANGED <<revision, record>>
    BY <1>4 DEF HeadItem
  <2>2. /\ FromEtcd(HeadKey) \in [revision : Nat, id : Key \cup {NoId},
                                   nextID : Id \cup {NoId}]
        /\ FromEtcd(HeadKey).revision <= revision /\ Exists(FromEtcd(HeadKey).id)
        /\ FromEtcd(HeadKey).nextID = record[FromEtcd(HeadKey).id].nextID
    BY <1>4, EtcdItems
  <2>3. QED
    BY <1>1, <1>2, <2>1, <2>2, TakeKeepsIndInv DEF server
<1>5. CASE ~InRedis(c, HeadKey) /\ ~Exists(HeadKey)
  <2>1. /\ revision' = revision + 1
        /\ record' = Over([k \in {HeadKey} |-> Record(revision', revision', NoId)],
                          record)
        /\ Take(c, ItemType(revision', HeadKey, NoId))
    BY <1>5 DEF HeadItem
  <2>2. Len(published) = 1
    <3>1. Len(published) \in Nat /\ Len(published) >= 1
      BY ChainFacts
    <3>2. \A n \in Nat : n >= 1 => n = 1 \/ (n > 1 /\ 1 \in 1..(n - 1))
      OBVIOUS
    <3>3. ~ Len(published) > 1
      BY <1>5, <3>1, <3>2, ChainFacts
    <3>4. QED
      BY <3>1, <3>2, <3>3
  <2>3. DOMAIN record = {}
    <3>1. \A k \in DOMAIN record : k = HeadKey
      BY <2>2, ChainFacts
    <3>2. QED
      BY <1>5, <3>1 DEF Exists
  <2>4. /\ DOMAIN record' = {HeadKey}
        /\ record'[HeadKey] = Record(revision', revision', NoId)
    BY <2>1, <2>3 DEF Over
  <2>5. DOMAIN redis = {} /\ \A d \in Client : ~Holds(d)
    BY <2>3 DEF IndInv, CopiesAreFinal, HeldItemsAreTrue, Exists
  <2>6. /\ current'[c] = ItemType(revision', HeadKey, NoId)
        /\ \A d \in Client \ {c} : current'[d] = current[d] /\ ~Holds(d)'
        /\ revision' \in Nat /\ revision <= revision'
    BY <2>1, <2>5 DEF Take, IndInv, TypeOK, Holds
  <2>7. TypeOK'
    <3>1. ItemType(revision', HeadKey, NoId) \in
            [revision : Nat, id : Key \cup {NoId}, nextID : Id \cup {NoId}]
      BY <2>6 DEF ItemType, Key
    <3>2. current' \in [Client -> [revision : Nat, id : Key \cup {NoId},
                                   nextID : Id \cup {NoId}]]
      BY <2>1, <3>1 DEF Take, IndInv, TypeOK
    <3>3. /\ DOMAIN record' \subseteq Key
          /\ \A k \in DOMAIN record' :
               record'[k] \in [mod : Nat, data : Nat, nextID : Id \cup {NoId}]
      BY <2>4, <2>6 DEF Record, Key
    <3>4. QED
      BY <1>1, <2>6, <3>2, <3>3 DEF IndInv, TypeOK
  <2>8. OneChain' /\ Started' /\ Sound'
    <3>1. published' = published /\ published[1] = HeadKey /\ separate' = separate
      BY <1>1, ChainFacts
    <3>2. record'[HeadKey].nextID = NoId
      BY <2>4 DEF Record
    <3>3. OneChain'
      <4>1. \A i \in 1..1 : i = 1
        OBVIOUS
      <4>2. {published'[i] : i \in 1..Len(published')} = {HeadKey}
        BY <2>2, <3>1, <4>1
      <4>3. 1..(Len(published') - 1) = {}
        <5>1. Len(published') - 1 = 0
          BY <2>2, <3>1
        <5>2. 1..0 = {}
          OBVIOUS
        <5>3. QED
          BY <5>1, <5>2
      <4>4. ~ Len(published') > 1
        BY <2>2, <3>1
      <4>5. \A i, j \in 1..Len(published') : i = j
        BY <2>2, <3>1, <4>1
      <4>6. QED
        BY <2>4, <4>2, <4>3, <4>4, <4>5 DEF OneChain
    <3>4. QED
      BY <3>1, <3>2, <3>3 DEF IndInv, Started, Sound
  <2>9. HeldItemsAreTrue'
    <3>1. /\ record'[HeadKey].nextID = NoId /\ HeadKey \in DOMAIN record'
          /\ current'[c].id = HeadKey /\ current'[c].nextID = NoId
      BY <2>4, <2>6 DEF ItemType, Record
    <3>2. QED
      BY <2>6, <3>1 DEF HeldItemsAreTrue, Exists
  <2>10. CopiesAreFinal'
    BY <1>1, <2>5 DEF CopiesAreFinal
  <2>11. SeenRevisions'
    <3>1. \A d \in Client : current'[d].revision <= revision'
      <4>1. \A d \in Client : current[d].revision \in Nat /\ current[d].revision <= revision
        BY DEF IndInv, TypeOK, SeenRevisions
      <4>2. revision \in Nat /\ current'[c].revision = revision'
        BY <2>6 DEF IndInv, TypeOK, ItemType
      <4>3. QED
        BY <2>6, <4>1, <4>2
    <3>2. \A d \in Client : reply'[d] <= revision' /\ delivered'[d] <= revision'
      <4>1. \A d \in Client : /\ reply[d] \in Nat /\ reply[d] <= revision
                              /\ delivered[d] \in Nat /\ delivered[d] <= revision
        BY DEF IndInv, TypeOK, SeenRevisions
      <4>2. revision \in Nat
        BY DEF IndInv, TypeOK
      <4>3. QED
        BY <1>1, <2>6, <4>1, <4>2
    <3>3. QED
      BY <1>1, <2>4, <2>5, <2>6, <3>1, <3>2 DEF SeenRevisions, Record
  <2>12. LateReaders'
    <3>1. record'[HeadKey].nextID = NoId /\ current'[c].id = HeadKey
      BY <2>4, <2>6 DEF ItemType, Record
    <3>2. \A d \in Client : ~Behind(d)'
      BY <2>6, <3>1 DEF Behind
    <3>3. QED
      BY <3>2 DEF LateReaders
  <2>13. Calls'
    <3>1. \A d \in Client : pc[d] \notin {"fetching", "appending", "accepted"}
      BY <2>5 DEF IndInv, Calls, CallIsTrue
    <3>2. QED
      BY <1>1, <3>1 DEF IndInv, Calls, CallIsTrue
  <2>14. QED
    BY <2>7, <2>8, <2>9, <2>10, <2>11, <2>12, <2>13 DEF IndInv
<1>6. QED
  BY <1>3, <1>4, <1>5

-----------------------------------------------------------------------------
\* Every step of the chain keeps the invariant.
LEMMA NextKeepsIndInv == IndInv /\ [Next]_vars => IndInv'
<1> SUFFICES ASSUME IndInv, [Next]_vars PROVE IndInv'
  OBVIOUS
<1>1. ASSUME NEW c \in Client, LoadUntil(c) PROVE IndInv'
  <2>1. PICK i \in 2..Len(published) :
          LET k == published[i] IN
            /\ InRedis(c, k) \/ Exists(k)
            /\ Take(c, IF InRedis(c, k) THEN FromRedis(k) ELSE FromEtcd(k))
    BY <1>1 DEF LoadUntil
  <2> DEFINE k == published[i]
             item == IF InRedis(c, k) THEN FromRedis(k) ELSE FromEtcd(k)
  <2>2. /\ Take(c, item) /\ (InRedis(c, k) \/ Exists(k))
        /\ pc[c] = "idle" /\ wanted' = wanted /\ pc' = pc
        /\ UNCHANGED <<server, redis, batch, reply, latest, watch, delivered>>
    BY <1>1, <2>1 DEF LoadUntil
  <2>3. pc' = [pc EXCEPT ![c] = "idle"]
    BY <2>2 DEF IndInv, TypeOK
  <2> HIDE DEF k
  <2>4. /\ item \in [revision : Nat, id : Key \cup {NoId}, nextID : Id \cup {NoId}]
        /\ item.revision <= revision /\ item.id = k /\ Exists(k)
        /\ item.nextID = record[k].nextID
    <3>1. CASE InRedis(c, k)
      BY <3>1, RedisItems DEF InRedis
    <3>2. CASE ~InRedis(c, k)
      BY <2>2, <3>2, EtcdItems
    <3>3. QED
      BY <3>1, <3>2
  <2> HIDE DEF item
  <2>5. QED
    BY <2>2, <2>3, <2>4, TakeKeepsIndInv
<1>2. ASSUME NEW c \in Client, FetchFromRedis(c) PROVE IndInv'
  <2> DEFINE k == KnownNext(c)
  <2>1. /\ k \in DOMAIN redis /\ Take(c, FromRedis(k))
        /\ pc[c] = "idle" /\ wanted' = wanted /\ pc' = pc
        /\ UNCHANGED <<server, redis, batch, reply, latest, watch, delivered>>
    BY <1>2 DEF FetchFromRedis, InRedis
  <2>2. pc' = [pc EXCEPT ![c] = "idle"]
    BY <2>1 DEF IndInv, TypeOK
  <2> HIDE DEF k
  <2>3. QED
    BY <2>1, <2>2, RedisItems, TakeKeepsIndInv
<1>3. ASSUME NEW c \in Client, FindNext(c) PROVE IndInv'
  <2>1. PICK next \in Id :
          /\ IF current[c].nextID # NoId THEN next = current[c].nextID
             ELSE Exists(current[c].id) /\ next = record[current[c].id].nextID
          /\ wanted' = [wanted EXCEPT ![c] = next]
    BY <1>3 DEF FindNext
  <2>2. /\ Holds(c) /\ pc' = [pc EXCEPT ![c] = "fetching"]
        /\ UNCHANGED <<server, redis, current, batch, reply, latest, watch,
                       delivered>>
    BY <1>3 DEF FindNext, Goto
  <2>3. next = KnownNext(c) \/ next = record[current[c].id].nextID
    BY <2>1 DEF KnownNext
  <2>4. \E i \in 1..(Len(published) - 1) :
          published[i] = current[c].id /\ published[i + 1] = next
    BY <2>2, <2>3, NextIsSuccessor
  <2>5. TypeOK'
    BY <2>1, <2>2 DEF IndInv, TypeOK, server, Status
  <2>6. Calls'
    <3>1. /\ pc'[c] = "fetching" /\ wanted'[c] = next
          /\ \A d \in Client \ {c} : pc'[d] = pc[d] /\ wanted'[d] = wanted[d]
      BY <2>1, <2>2 DEF IndInv, TypeOK
    <3>2. QED
      BY <2>2, <2>4, <3>1 DEF IndInv, Calls, CallIsTrue, Holds, server
  <2>7. HeldItemsAreTrue' /\ CopiesAreFinal' /\ SeenRevisions' /\ LateReaders'
    BY <2>2 DEF IndInv, HeldItemsAreTrue, Holds, Exists, CopiesAreFinal,
                SeenRevisions, LateReaders, Behind, server
  <2>8. QED
    BY <2>2, <2>5, <2>6, <2>7, ServerSame DEF IndInv
<1>4. ASSUME NEW c \in Client, FetchFromEtcd(c) PROVE IndInv'
  <2>1. /\ Exists(wanted[c]) /\ Take(c, FromEtcd(wanted[c]))
        /\ pc' = [pc EXCEPT ![c] = "idle"] /\ wanted' = [wanted EXCEPT ![c] = NoId]
        /\ UNCHANGED <<server, redis, batch, reply, latest, watch, delivered>>
    BY <1>4 DEF FetchFromEtcd, Goto
  <2>2. /\ FromEtcd(wanted[c]) \in [revision : Nat, id : Key \cup {NoId},
                                    nextID : Id \cup {NoId}]
        /\ FromEtcd(wanted[c]).revision <= revision
        /\ Exists(FromEtcd(wanted[c]).id)
        /\ FromEtcd(wanted[c]).nextID = record[FromEtcd(wanted[c]).id].nextID
    BY <2>1, EtcdItems
  <2>3. QED
    BY <2>1, <2>2, TakeKeepsIndInv
<1>5. ASSUME NEW c \in Client, CallAppendAfter(c) PROVE IndInv'
  <2>1. PICK n \in 1..(IF separate THEN MaxBatch ELSE MaxTogether) :
          \E ids \in [1..n -> Id] :
            /\ \A i, j \in 1..n : ids[i] = ids[j] => i = j
            /\ batch' = [batch EXCEPT ![c] = ids]
    BY <1>5 DEF CallAppendAfter
  <2>2. PICK ids \in [1..n -> Id] :
          /\ \A i, j \in 1..n : ids[i] = ids[j] => i = j
          /\ batch' = [batch EXCEPT ![c] = ids]
    BY <2>1
  <2>3. /\ Holds(c) /\ current[c].nextID = NoId
        /\ pc' = [pc EXCEPT ![c] = "appending"]
        /\ UNCHANGED <<server, redis, current, wanted, reply, latest, watch,
                       delivered>>
    BY <1>5 DEF CallAppendAfter, Goto
  <2>4. /\ ids \in Seq(Id) /\ Len(ids) = n /\ ids # <<>>
        /\ ~separate => n = 1
    <3>1. n \in Nat /\ n >= 1 /\ (~separate => n = 1)
      BY EtcdAssumption DEF IndInv, Sound
    <3>2. QED
      BY <2>2, <3>1
  <2>5. Unrepeated(ids) /\ ids \in Seq(Key)
    BY <2>2, <2>4 DEF Unrepeated, Key
  <2>6. TypeOK'
    BY <2>2, <2>3, <2>5 DEF IndInv, TypeOK, server, Status
  <2>7. Calls'
    <3>1. /\ pc'[c] = "appending" /\ batch'[c] = ids
          /\ \A d \in Client \ {c} : pc'[d] = pc[d] /\ batch'[d] = batch[d]
      BY <2>2, <2>3 DEF IndInv, TypeOK
    <3>2. CallIsTrue(c)'
      BY <2>3, <2>4, <2>5, <3>1 DEF CallIsTrue, Holds, server
    <3>3. ASSUME NEW d \in Client \ {c} PROVE CallIsTrue(d)'
      <4>1. CallIsTrue(d)
        BY <3>3 DEF IndInv, Calls
      <4>2. QED
        BY <2>3, <3>1, <4>1 DEF CallIsTrue, Holds, server
    <3>4. QED
      BY <3>2, <3>3 DEF Calls
  <2>8. HeldItemsAreTrue' /\ CopiesAreFinal' /\ SeenRevisions' /\ LateReaders'
    BY <2>3 DEF IndInv, HeldItemsAreTrue, Holds, Exists, CopiesAreFinal,
                SeenRevisions, LateReaders, Behind, server
  <2>9. QED
    BY <2>3, <2>6, <2>7, <2>8, ServerSame DEF IndInv
<1>6. ASSUME NEW c \in Client, AppendFails(c) PROVE IndInv'
  <2>1. /\ pc' = [pc EXCEPT ![c] = "refused"]
        /\ UNCHANGED <<server, redis, current, wanted, batch, reply, latest,
                       watch, delivered>>
    BY <1>6 DEF AppendFails, Goto
  <2>2. TypeOK'
    BY <2>1 DEF IndInv, TypeOK, server, Status
  <2>3. Calls'
    <3>1. pc'[c] = "refused" /\ \A d \in Client \ {c} : pc'[d] = pc[d]
      BY <2>1 DEF IndInv, TypeOK
    <3>2. QED
      BY <2>1, <3>1 DEF IndInv, Calls, CallIsTrue, Holds, server
  <2>4. HeldItemsAreTrue' /\ CopiesAreFinal' /\ SeenRevisions' /\ LateReaders'
    BY <2>1 DEF IndInv, HeldItemsAreTrue, Holds, Exists, CopiesAreFinal,
                SeenRevisions, LateReaders, Behind, server
  <2>5. QED
    BY <2>1, <2>2, <2>3, <2>4, ServerSame DEF IndInv
<1>7. ASSUME NEW c \in Client, AcceptReply(c) PROVE IndInv'
  <2>1. /\ pc[c] = "accepted"
        /\ latest' = IF c \in Watcher THEN [latest EXCEPT ![c] = reply[c]] ELSE latest
        /\ UNCHANGED <<server, redis, current, wanted, watch, delivered>>
        /\ \/ /\ pc' = [pc EXCEPT ![c] = "duplicating"]
              /\ batch' = [batch EXCEPT ![c] = <<current[c].id>> \o batch[c]]
              /\ reply' = reply
           \/ EndAppend(c)
    BY <1>7 DEF AcceptReply, Goto
  <2>2. /\ Holds(c) /\ current[c].nextID = NoId /\ batch[c] # <<>>
        /\ reply[c] = record[current[c].id].mod /\ Exists(current[c].id)
        /\ batch[c] \in Seq(Key) /\ current[c].id \in Key
    BY <2>1 DEF IndInv, Calls, CallIsTrue, TypeOK, HeldItemsAreTrue, Exists
  <2>3. PICK i \in 1..Len(published) :
          published[i] = current[c].id /\ StandsAt(published, i + 1, batch[c])
    BY <2>1 DEF IndInv, Calls, CallIsTrue
  <2> DEFINE s == <<current[c].id>> \o batch[c]
  <2>4. /\ s \in Seq(Key) /\ Len(s) = Len(batch[c]) + 1 /\ s[1] = current[c].id
        /\ \A j \in 1..Len(batch[c]) : s[j + 1] = batch[c][j]
        /\ Len(batch[c]) \in Nat /\ Len(batch[c]) >= 1
    BY <2>2
  <2> HIDE DEF s
  <2>5. StandsAt(published, i, s) /\ Len(s) >= 2
    <3>1. /\ (i + 1) + Len(batch[c]) - 1 <= Len(published)
          /\ \A j \in 1..Len(batch[c]) : published[(i + 1) + j - 1] = batch[c][j]
      BY <2>3 DEF StandsAt
    <3>2. Len(published) \in Nat /\ i \in Nat
      BY ChainFacts
    <3>3. i + Len(s) - 1 <= Len(published)
      <4>1. \A l, p \in Nat : (i + 1) + l - 1 <= p => i + (l + 1) - 1 <= p
        BY <3>2
      <4>2. Len(batch[c]) \in Nat /\ Len(s) = Len(batch[c]) + 1
        BY <2>4
      <4>3. QED
        BY <3>1, <3>2, <4>1, <4>2
    <3>4. ASSUME NEW j \in 1..Len(s) PROVE published[i + j - 1] = s[j]
      <4>1. CASE j = 1
        BY <2>3, <2>4, <3>2, <4>1
      <4>2. CASE j # 1
        <5> DEFINE l == j - 1
        <5>1. l \in 1..Len(batch[c]) /\ j = l + 1 /\ i + j - 1 = (i + 1) + l - 1
          BY <2>4, <3>2, <4>2
        <5> HIDE DEF l
        <5>2. QED
          BY <2>4, <3>1, <5>1
      <4>3. QED
        BY <4>1, <4>2
    <3>5. QED
      BY <2>4, <3>3, <3>4 DEF StandsAt
  <2>6. /\ \A d \in Client \ {c} : /\ pc'[d] = pc[d] /\ batch'[d] = batch[d]
                                   /\ reply'[d] = reply[d] /\ latest'[d] = latest[d]
        /\ \/ pc'[c] = "duplicating" /\ batch'[c] = s /\ reply'[c] = reply[c]
           \/ pc'[c] = "idle" /\ reply'[c] = 0
        /\ latest'[c] \in {reply[c], latest[c]}
    BY <2>1 DEF EndAppend, Goto, IndInv, TypeOK, s
  <2>7. TypeOK'
    <3>1. latest' \in [Client -> Nat] /\ reply' \in [Client -> Nat]
      <4>1. latest' = [latest EXCEPT ![c] = reply[c]] \/ latest' = latest
        BY <2>1
      <4>2. reply' = [reply EXCEPT ![c] = 0] \/ reply' = reply
        BY <2>1 DEF EndAppend
      <4>3. latest \in [Client -> Nat] /\ reply \in [Client -> Nat]
        BY DEF IndInv, TypeOK
      <4>4. latest' \in [Client -> Nat]
        BY <4>1, <4>3
      <4>5. reply' \in [Client -> Nat]
        BY <4>2, <4>3
      <4>6. QED
        BY <4>4, <4>5
    <3>2. pc' \in [Client -> Status]
      BY <2>1 DEF IndInv, TypeOK, EndAppend, Goto, Status
    <3>3. batch' \in [Client -> Seq(Key)]
      <4>1. batch' = [batch EXCEPT ![c] = s] \/ batch' = [batch EXCEPT ![c] = <<>>]
        BY <2>1 DEF EndAppend, s
      <4>2. <<>> \in Seq(Key)
        OBVIOUS
      <4>3. QED
        BY <2>4, <4>1, <4>2 DEF IndInv, TypeOK
    <3>4. QED
      BY <2>1, <3>1, <3>2, <3>3 DEF IndInv, TypeOK, server
  <2>8. Calls'
    <3>1. UNCHANGED <<separate, record, published, current, wanted>>
      BY <2>1 DEF server
    <3>2. CallIsTrue(c)'
      BY <2>5, <2>6, <3>1 DEF CallIsTrue
    <3>3. ASSUME NEW d \in Client \ {c} PROVE CallIsTrue(d)'
      <4>1. CallIsTrue(d)
        BY <3>3 DEF IndInv, Calls
      <4>2. QED
        BY <2>6, <3>1, <4>1 DEF CallIsTrue, Holds
    <3>4. QED
      BY <3>2, <3>3 DEF Calls
  <2>9. HeldItemsAreTrue' /\ CopiesAreFinal'
    BY <2>1 DEF IndInv, HeldItemsAreTrue, Holds, Exists, CopiesAreFinal, server
  <2>10. SeenRevisions'
    <3>1. 0 <= revision
      BY DEF IndInv, TypeOK
    <3>2. \A d \in Client : reply'[d] <= revision
      BY <2>6, <3>1 DEF IndInv, SeenRevisions
    <3>3. QED
      BY <2>1, <3>2 DEF IndInv, SeenRevisions, server
  <2>11. LateReaders'
    <3> SUFFICES ASSUME NEW d \in Client, Behind(d)'
                 PROVE  /\ current[d].revision < record[current[d].id].mod
                        /\ /\ watch[d] = "reporting"
                           /\ delivered[d] >= record[current[d].id].mod
                           => latest'[d] > current[d].revision
      BY <2>1 DEF LateReaders, server
    <3>1. Behind(d)
      BY <2>1 DEF Behind, Holds, server
    <3>2. CASE d = c
      <4>1. /\ current[c].revision < record[current[c].id].mod
            /\ /\ watch[c] = "reporting"
               /\ delivered[c] >= record[current[c].id].mod
               => latest[c] > current[c].revision
        BY <3>1, <3>2 DEF IndInv, LateReaders
      <4>2. current[c].revision \in Nat /\ reply[c] \in Nat
        BY DEF IndInv, TypeOK
      <4>3. QED
        BY <2>2, <2>6, <3>2, <4>1, <4>2
    <3>3. CASE d # c
      BY <2>6, <3>1, <3>3 DEF IndInv, LateReaders
    <3>4. QED
      BY <3>2, <3>3
  <2>12. QED
    BY <2>1, <2>7, <2>8, <2>9, <2>10, <2>11, ServerSame DEF IndInv
<1>8. ASSUME NEW c \in Client, ReturnFalse(c) PROVE IndInv'
  <2>1. /\ pc' = [pc EXCEPT ![c] = "idle"] /\ batch' = [batch EXCEPT ![c] = <<>>]
        /\ reply' = [reply EXCEPT ![c] = 0]
        /\ UNCHANGED <<server, redis, current, wanted, latest, watch,
                       delivered>>
    BY <1>8 DEF ReturnFalse, EndAppend, Goto
  <2>2. TypeOK'
    <3>1. batch' \in [Client -> Seq(Key)] /\ reply' \in [Client -> Nat]
      BY <2>1 DEF IndInv, TypeOK
    <3>2. pc' \in [Client -> Status]
      BY <2>1 DEF IndInv, TypeOK, Status
    <3>3. QED
      BY <2>1, <3>1, <3>2 DEF IndInv, TypeOK, server
  <2>3. /\ pc'[c] = "idle" /\ reply'[c] = 0
        /\ \A d \in Client \ {c} :
             pc'[d] = pc[d] /\ batch'[d] = batch[d] /\ reply'[d] = reply[d]
    BY <2>1 DEF IndInv, TypeOK
  <2>4. Calls'
    BY <2>1, <2>3 DEF IndInv, Calls, CallIsTrue, Holds, server
  <2>5. SeenRevisions'
    <3>1. 0 <= revision
      BY DEF IndInv, TypeOK
    <3>2. QED
      BY <2>1, <2>3, <3>1 DEF IndInv, SeenRevisions, server
  <2>6. HeldItemsAreTrue' /\ CopiesAreFinal' /\ LateReaders'
    BY <2>1 DEF IndInv, HeldItemsAreTrue, Holds, Exists, CopiesAreFinal,
                LateReaders, Behind, server
  <2>7. QED
    BY <2>1, <2>2, <2>4, <2>5, <2>6, ServerSame DEF IndInv
<1>9. ASSUME NEW c \in Client, DuplicateToRedis(c) PROVE IndInv'
  <2> DEFINE b == batch[c]
             copy == [revision |-> reply[c], nextID |-> b[2]]
  <2>1. /\ pc[c] = "duplicating"
        /\ redis' = Over([k \in {b[1]} |-> copy], redis)
        /\ UNCHANGED <<server, current, wanted, latest, watch, delivered>>
        /\ \/ /\ Len(b) > 2 /\ batch' = [batch EXCEPT ![c] = Tail(b)]
              /\ pc' = pc /\ reply' = reply
           \/ EndAppend(c)
    BY <1>9 DEF DuplicateToRedis
  <2>2. /\ Len(b) >= 2 /\ b \in Seq(Key)
        /\ \E i \in 1..Len(published) : StandsAt(published, i, b)
    BY <2>1 DEF IndInv, Calls, CallIsTrue, TypeOK
  <2>3. PICK i \in 1..Len(published) : StandsAt(published, i, b)
    BY <2>2
  <2> HIDE DEF b
  <2>4. /\ Len(b) \in Nat /\ i \in 1..(Len(published) - 1)
        /\ b[1] = published[i] /\ b[2] = published[i + 1]
    <3>1. /\ i + Len(b) - 1 <= Len(published)
          /\ \A j \in 1..Len(b) : published[i + j - 1] = b[j]
      BY <2>3 DEF StandsAt
    <3>2. Len(b) \in Nat /\ Len(published) \in Nat
      BY <2>2, ChainFacts
    <3>3. 1 \in 1..Len(b) /\ 2 \in 1..Len(b) /\ i + 1 - 1 = i /\ i + 2 - 1 = i + 1
      BY <2>2, <3>2
    <3>4. i \in 1..(Len(published) - 1)
      BY <2>2, <3>1, <3>2
    <3>5. published[i + 1 - 1] = b[1] /\ published[i + 2 - 1] = b[2]
      BY <3>1, <3>3
    <3>6. QED
      BY <3>2, <3>3, <3>4, <3>5
  <2>5. /\ Exists(b[1]) /\ record[b[1]].nextID = b[2]
        /\ b[1] \in Key /\ b[2] \in Id
    <3>1. Exists(b[1]) /\ record[b[1]].nextID = b[2] /\ b[2] \in Key
      BY <2>4, ChainFacts
    <3>2. b[1] \in Key /\ record[b[1]].nextID \in Id \cup {NoId}
      BY <3>1 DEF IndInv, TypeOK, Exists
    <3>3. QED
      BY <3>1, <3>2, ChainFacts
  <2>6. reply[c] \in Nat /\ reply[c] <= revision
    BY DEF IndInv, TypeOK, SeenRevisions
  <2>7. /\ DOMAIN redis' = DOMAIN redis \cup {b[1]}
        /\ redis'[b[1]] = [revision |-> reply[c], nextID |-> b[2]]
        /\ \A k \in DOMAIN redis \ {b[1]} : redis'[k] = redis[k]
    BY <2>1 DEF Over
  <2>8. CopiesAreFinal'
    <3>1. b[2] # NoId /\ UNCHANGED record
      BY <2>1, <2>5, EtcdAssumption DEF server
    <3>2. QED
      BY <2>5, <2>7, <3>1 DEF IndInv, CopiesAreFinal, Exists
  <2>9. /\ \A d \in Client \ {c} :
             pc'[d] = pc[d] /\ batch'[d] = batch[d] /\ reply'[d] = reply[d]
        /\ \/ pc'[c] = "duplicating" /\ Len(b) > 2 /\ batch'[c] = Tail(b)
              /\ reply'[c] = reply[c]
           \/ pc'[c] = "idle" /\ reply'[c] = 0
    BY <2>1 DEF EndAppend, Goto, IndInv, TypeOK
  <2>10. SeenRevisions'
    <3>1. UNCHANGED <<record, revision, current, delivered>>
      BY <2>1 DEF server
    <3>2. \A k \in DOMAIN redis' : redis'[k].revision <= revision
      BY <2>6, <2>7 DEF IndInv, SeenRevisions
    <3>3. 0 <= revision
      BY DEF IndInv, TypeOK
    <3>4. \A d \in Client : reply'[d] <= revision
      BY <2>6, <2>9, <3>3 DEF IndInv, SeenRevisions
    <3>5. QED
      BY <3>1, <3>2, <3>4 DEF IndInv, SeenRevisions
  <2>11. Len(b) > 2 => /\ Tail(b) \in Seq(Key) /\ Len(Tail(b)) >= 2
                      /\ i + 1 \in 1..Len(published)
                      /\ StandsAt(published, i + 1, Tail(b))
    <3> SUFFICES ASSUME Len(b) > 2
                 PROVE  /\ Tail(b) \in Seq(Key) /\ Len(Tail(b)) >= 2
                        /\ i + 1 \in 1..Len(published)
                        /\ StandsAt(published, i + 1, Tail(b))
      OBVIOUS
    <3>1. /\ Tail(b) \in Seq(Key) /\ Len(Tail(b)) = Len(b) - 1
          /\ \A j \in 1..Len(Tail(b)) : Tail(b)[j] = b[j + 1]
      BY <2>2, HeadTailProperties
    <3>2. i + 1 \in 1..Len(published) /\ i \in Nat /\ Len(published) \in Nat
      BY <2>4, ChainFacts
    <3>3. /\ i + Len(b) - 1 <= Len(published)
          /\ \A j \in 1..Len(b) : published[i + j - 1] = b[j]
      BY <2>3 DEF StandsAt
    <3>4. (i + 1) + Len(Tail(b)) - 1 <= Len(published) /\ Len(Tail(b)) >= 2
      BY <2>4, <3>1, <3>2, <3>3
    <3>5. ASSUME NEW j \in 1..Len(Tail(b))
          PROVE  published[(i + 1) + j - 1] = Tail(b)[j]
      <4>1. j + 1 \in 1..Len(b) /\ (i + 1) + j - 1 = i + (j + 1) - 1
        BY <2>4, <3>1, <3>2
      <4>2. QED
        BY <3>1, <3>3, <4>1
    <3>6. QED
      BY <3>1, <3>2, <3>4, <3>5 DEF StandsAt
  <2>12. Calls'
    <3>1. UNCHANGED <<separate, record, published, current, wanted>>
      BY <2>1 DEF server
    <3>2. CallIsTrue(c)'
      BY <2>9, <2>11, <3>1 DEF CallIsTrue
    <3>3. ASSUME NEW d \in Client \ {c} PROVE CallIsTrue(d)'
      <4>1. CallIsTrue(d)
        BY <3>3 DEF IndInv, Calls
      <4>2. QED
        BY <2>9, <3>1, <4>1 DEF CallIsTrue, Holds
    <3>4. QED
      BY <3>2, <3>3 DEF Calls
  <2>13. TypeOK'
    <3>1. DOMAIN redis' \subseteq Key /\ \A k \in DOMAIN redis' :
             redis'[k] \in [revision : Nat, nextID : Id \cup {NoId}]
      BY <2>5, <2>6, <2>7 DEF IndInv, TypeOK
    <3>2. batch' \in [Client -> Seq(Key)]
      <4>1. \/ Len(b) > 2 /\ batch' = [batch EXCEPT ![c] = Tail(b)]
            \/ batch' = [batch EXCEPT ![c] = <<>>]
        BY <2>1 DEF EndAppend
      <4>2. <<>> \in Seq(Key)
        OBVIOUS
      <4>3. QED
        BY <2>11, <4>1, <4>2 DEF IndInv, TypeOK
    <3>3. pc' \in [Client -> Status]
      BY <2>1 DEF EndAppend, Goto, IndInv, TypeOK, Status
    <3>4. reply' \in [Client -> Nat]
      <4>1. reply' = [reply EXCEPT ![c] = 0] \/ reply' = reply
        BY <2>1 DEF EndAppend
      <4>2. reply \in [Client -> Nat]
        BY DEF IndInv, TypeOK
      <4>3. QED
        BY <4>1, <4>2
    <3>5. QED
      BY <2>1, <3>1, <3>2, <3>3, <3>4 DEF IndInv, TypeOK, server
  <2>14. HeldItemsAreTrue' /\ LateReaders'
    BY <2>1 DEF IndInv, HeldItemsAreTrue, Holds, Exists, LateReaders, Behind, server
  <2>15. QED
    BY <2>1, <2>8, <2>10, <2>12, <2>13, <2>14, ServerSame DEF IndInv
<1>10. ASSUME NEW c \in Client, WatchEvent(c) PROVE IndInv'
  <2>1. PICK r \in (delivered[c] + 1)..revision :
          /\ latest' = [latest EXCEPT ![c] = r]
          /\ delivered' = [delivered EXCEPT ![c] = r]
    BY <1>10 DEF WatchEvent
  <2>2. /\ watch' = [watch EXCEPT ![c] = "reporting"]
        /\ UNCHANGED <<server, redis, current, pc, wanted, batch, reply>>
    BY <1>10 DEF WatchEvent
  <2>3. r \in Nat /\ r <= revision
    BY <2>1 DEF IndInv, TypeOK
  <2>4. TypeOK'
    BY <2>1, <2>2, <2>3 DEF IndInv, TypeOK, Watching, server
  <2>5. SeenRevisions'
    <3>1. \A d \in Client : delivered'[d] <= revision
      BY <2>1, <2>3 DEF IndInv, TypeOK, SeenRevisions
    <3>2. QED
      BY <2>2, <3>1 DEF IndInv, SeenRevisions, server
  <2>6. LateReaders'
    <3> SUFFICES ASSUME NEW d \in Client, Behind(d)'
                 PROVE  /\ current[d].revision < record[current[d].id].mod
                        /\ /\ watch'[d] = "reporting"
                           /\ delivered'[d] >= record[current[d].id].mod
                           => latest'[d] > current[d].revision
      BY <2>2 DEF LateReaders, server
    <3>1. Behind(d)
      BY <2>2 DEF Behind, Holds, server
    <3>2. /\ current[d].revision < record[current[d].id].mod
          /\ /\ watch[d] = "reporting"
             /\ delivered[d] >= record[current[d].id].mod
             => latest[d] > current[d].revision
      BY <3>1 DEF IndInv, LateReaders
    <3>3. CASE d = c
      <4>1. delivered'[d] = r /\ latest'[d] = r
        BY <2>1, <3>3 DEF IndInv, TypeOK
      <4>2. current[d].revision \in Nat /\ record[current[d].id].mod \in Nat
        BY <3>1 DEF Behind, IndInv, TypeOK, HeldItemsAreTrue, Exists
      <4>3. QED
        BY <2>3, <3>2, <4>1, <4>2
    <3>4. CASE d # c
      <4>1. /\ delivered'[d] = delivered[d] /\ latest'[d] = latest[d]
            /\ watch'[d] = watch[d]
        BY <2>1, <2>2, <3>4 DEF IndInv, TypeOK
      <4>2. QED
        BY <3>2, <4>1
    <3>5. QED
      BY <3>3, <3>4
  <2>7. HeldItemsAreTrue' /\ CopiesAreFinal' /\ Calls'
    BY <2>2 DEF IndInv, HeldItemsAreTrue, Holds, Exists, CopiesAreFinal,
                Calls, CallIsTrue, server
  <2>8. QED
    BY <2>2, <2>4, <2>5, <2>6, <2>7, ServerSame DEF IndInv
<1>11. ASSUME NEW c \in Client, Restart(c) PROVE IndInv'
  <2>1. /\ current' = [current EXCEPT ![c] = NoItem]
        /\ pc' = [pc EXCEPT ![c] = "idle"]
        /\ wanted' = [wanted EXCEPT ![c] = NoId]
        /\ batch' = [batch EXCEPT ![c] = <<>>]
        /\ reply' = [reply EXCEPT ![c] = 0]
        /\ latest' = [latest EXCEPT ![c] = 0]
        /\ watch' = [watch EXCEPT ![c] = IF c \in Watcher THEN "starting"
                                         ELSE "none"]
        /\ delivered' = [delivered EXCEPT ![c] = 0]
        /\ UNCHANGED <<server, redis>>
    BY <1>11 DEF Restart, Take, Goto
  <2>2. /\ current'[c] = NoItem /\ pc'[c] = "idle" /\ reply'[c] = 0
        /\ delivered'[c] = 0
        /\ \A d \in Client \ {c} :
             /\ current'[d] = current[d] /\ pc'[d] = pc[d] /\ wanted'[d] = wanted[d]
             /\ batch'[d] = batch[d] /\ reply'[d] = reply[d]
             /\ latest'[d] = latest[d] /\ delivered'[d] = delivered[d]
             /\ watch'[d] = watch[d]
    BY <2>1 DEF IndInv, TypeOK
  <2>3. TypeOK'
    <3>1. current' \in [Client -> [revision : Nat, id : Key \cup {NoId},
                                   nextID : Id \cup {NoId}]]
      BY <2>1 DEF IndInv, TypeOK, NoItem, ItemType
    <3>2. pc' \in [Client -> Status]
      BY <2>1 DEF IndInv, TypeOK, Status
    <3>3. batch' \in [Client -> Seq(Key)] /\ wanted' \in [Client -> Id \cup {NoId}]
      BY <2>1 DEF IndInv, TypeOK
    <3>4. /\ reply' \in [Client -> Nat] /\ latest' \in [Client -> Nat]
          /\ delivered' \in [Client -> Nat] /\ watch' \in [Client -> Watching]
      BY <2>1 DEF IndInv, TypeOK, Watching
    <3>5. QED
      BY <2>1, <3>1, <3>2, <3>3, <3>4 DEF IndInv, TypeOK, server
  <2>4. SeenRevisions'
    <3>1. revision \in Nat /\ NoItem.revision = 0
      BY DEF IndInv, TypeOK, NoItem, ItemType
    <3>2. \A d \in Client : /\ current'[d].revision <= revision
                            /\ reply'[d] <= revision /\ delivered'[d] <= revision
      BY <2>2, <3>1 DEF IndInv, SeenRevisions
    <3>3. QED
      BY <2>1, <3>2 DEF IndInv, SeenRevisions, server
  <2>5. HeldItemsAreTrue' /\ CopiesAreFinal'
    BY <2>1, <2>2 DEF IndInv, HeldItemsAreTrue, Holds, Exists, CopiesAreFinal, server
  <2>6. LateReaders'
    BY <2>1, <2>2 DEF IndInv, LateReaders, Behind, Holds, server
  <2>7. Calls'
    BY <2>1, <2>2 DEF IndInv, Calls, CallIsTrue, Holds, server
  <2>8. QED
    BY <2>1, <2>3, <2>4, <2>5, <2>6, <2>7, ServerSame DEF IndInv
<1>12. ASSUME NEW k \in Key, Expire(k) PROVE IndInv'
  <2>1. /\ redis' = [j \in DOMAIN redis \ {k} |-> redis[j]]
        /\ UNCHANGED <<server, current, pc, wanted, batch, reply, latest,
                       watch, delivered>>
    BY <1>12 DEF Expire
  <2>2. TypeOK'
    BY <2>1 DEF IndInv, TypeOK, server
  <2>3. CopiesAreFinal' /\ SeenRevisions'
    BY <2>1 DEF IndInv, CopiesAreFinal, SeenRevisions, Exists, server
  <2>4. HeldItemsAreTrue' /\ LateReaders' /\ Calls'
    BY <2>1 DEF IndInv, HeldItemsAreTrue, Holds, Exists, LateReaders, Behind,
                Calls, CallIsTrue, server
  <2>5. QED
    BY <2>1, <2>2, <2>3, <2>4, ServerSame DEF IndInv
<1>13. ASSUME NEW c \in Client, RegisterWatch(c) \/ WatchEnds(c) PROVE IndInv'
  <2>1. PICK r \in {revision, 0}, w \in {"quiet", "none"} :
          /\ delivered' = [delivered EXCEPT ![c] = r]
          /\ watch' = [watch EXCEPT ![c] = w]
    BY <1>13 DEF RegisterWatch, WatchEnds
  <2>2. UNCHANGED <<server, redis, current, pc, wanted, batch, reply, latest>>
    BY <1>13 DEF RegisterWatch, WatchEnds
  <2>3. revision \in Nat /\ r \in Nat /\ r <= revision
    BY <2>1 DEF IndInv, TypeOK
  <2>4. TypeOK'
    BY <2>1, <2>2, <2>3 DEF IndInv, TypeOK, Watching, server
  <2>5. SeenRevisions'
    <3>1. \A d \in Client : delivered'[d] <= revision
      BY <2>1, <2>3 DEF IndInv, TypeOK, SeenRevisions
    <3>2. QED
      BY <2>2, <3>1 DEF IndInv, SeenRevisions, server
  <2>6. LateReaders'
    <3>1. \A d \in Client : watch'[d] = "reporting" =>
            watch[d] = "reporting" /\ delivered'[d] = delivered[d]
      BY <2>1 DEF IndInv, TypeOK
    <3>2. QED
      BY <2>2, <3>1 DEF IndInv, LateReaders, Behind, Holds, server
  <2>7. HeldItemsAreTrue' /\ CopiesAreFinal' /\ Calls'
    BY <2>2 DEF IndInv, HeldItemsAreTrue, Holds, Exists, CopiesAreFinal,
                Calls, CallIsTrue, server
  <2>8. QED
    BY <2>2, <2>4, <2>5, <2>6, <2>7, ServerSame DEF IndInv
<1>14. CASE UNCHANGED vars
  <2>1. UNCHANGED <<server, redis, current, pc, wanted, batch, reply, latest,
                   watch, delivered>>
    BY <1>14 DEF vars, server
  <2>2. TypeOK' /\ CopiesAreFinal' /\ SeenRevisions'
    BY <2>1 DEF IndInv, TypeOK, CopiesAreFinal, SeenRevisions, Exists, server
  <2>3. HeldItemsAreTrue' /\ LateReaders' /\ Calls'
    BY <2>1 DEF IndInv, HeldItemsAreTrue, Holds, Exists, LateReaders, Behind,
                Calls, CallIsTrue, server
  <2>4. QED
    BY <2>1, <2>2, <2>3, ServerSame DEF IndInv
<1>15. QED
  BY <1>1, <1>2, <1>3, <1>4, <1>5, <1>6, <1>7, <1>8, <1>9, <1>10, <1>11, <1>12,
     <1>13, <1>14, HeadKeepsIndInv, AppendKeepsIndInv DEF Next, Fetch, FinishAppend

\* The inductive invariant holds, for every chain but one with batches on one
\* storage (appendAfter's puts).
THEOREM IndInvHolds == Sound /\ Spec => []IndInv
  BY InitIndInv, NextKeepsIndInv, PTL DEF Spec

\* Every variable keeps its type.
THEOREM TypeCorrect == Sound /\ Spec => []TypeOK
<1>1. IndInv => TypeOK
  BY DEF IndInv
<1>2. QED
  BY <1>1, IndInvHolds, PTL

\* The records are one list without repetition: of two transactions of
\* appendAfter that compare the same end of the chain one is refused, and an
\* append repeated because its reply was lost is refused too.
THEOREM ChainIsOne == Sound /\ Spec => []OneChain
<1>1. IndInv => OneChain
  BY DEF IndInv
<1>2. QED
  BY <1>1, IndInvHolds, PTL

\* What fetchNext and head() hand out, from etcd or from a copy in Redis, may
\* be old and is never wrong.
THEOREM ItemsAreTrue == Sound /\ Spec => []HeldItemsAreTrue
<1>1. IndInv => HeldItemsAreTrue
  BY DEF IndInv
<1>2. QED
  BY <1>1, IndInvHolds, PTL

\* duplicateToRedis copies only what will never change again, however late
\* it runs.
THEOREM CopiesStayFinal == Sound /\ Spec => []CopiesAreFinal
<1>1. IndInv => CopiesAreFinal
  BY DEF IndInv
<1>2. QED
  BY <1>1, IndInvHolds, PTL

\* The watch's shortcut in fetchNext is taken only at the end of the chain,
\* once the watch has reported anything and all there is: although it reports
\* nothing of before its request reached etcd, and although appendAfter stores
\* its own revision over a later one.
THEOREM ShortcutStaysRight == Sound /\ Spec => []ShortcutIsRight
<1>1. IndInv => ShortcutIsRight
  <2> SUFFICES ASSUME IndInv, NEW c \in Watcher, watch[c] = "reporting",
                      delivered[c] = revision, Holds(c), NothingNew(c),
                      record[current[c].id].nextID # NoId
               PROVE  FALSE
    BY DEF ShortcutIsRight
  <2>1. c \in Client
    BY EtcdAssumption
  <2>2. Behind(c) /\ Exists(current[c].id) /\ current[c].revision >= latest[c]
    BY <2>1 DEF Behind, NothingNew, IndInv, HeldItemsAreTrue
  <2>3. delivered[c] >= record[current[c].id].mod
    <3>1. /\ revision \in Nat /\ record[current[c].id].mod \in Nat
          /\ record[current[c].id].mod <= revision
      BY <2>2 DEF IndInv, TypeOK, SeenRevisions, Exists
    <3>2. QED
      BY <3>1
  <2>4. latest[c] > current[c].revision
    BY <2>1, <2>2, <2>3 DEF IndInv, LateReaders
  <2>5. latest[c] \in Nat /\ current[c].revision \in Nat
    BY <2>1 DEF IndInv, TypeOK
  <2>6. QED
    BY <2>2, <2>4, <2>5
<1>2. QED
  BY <1>1, IndInvHolds, PTL

-----------------------------------------------------------------------------
\* The chain implements SharedChain.  The place of an item is its place
\* among the appends, and that of a client is the place of its item.
PlaceIn(s, item) == IF item = NoItem THEN 0 ELSE IndexOf(s, item.id) - 1

\* The place of a client depends on the appends and on its item only.
LEMMA PlaceOfClient ==
  ASSUME NEW c \in Client
  PROVE  /\ PositionOf(current[c]) = PlaceIn(published, current[c])
         /\ PositionOf(current[c])' = PlaceIn(published', current'[c])
<1>1. PositionOf(current[c]) = PlaceIn(published, current[c])
  BY DEF PositionOf, PlaceIn, IndexOf
<1>2. PositionOf(current[c])' = PlaceIn(published', current'[c])
  BY DEF PositionOf, PlaceIn, IndexOf
<1>3. QED
  BY <1>1, <1>2

\* The place of an item of the chain is between the head's and that of the
\* last item, and what a client holds is on the chain.
LEMMA Places ==
  ASSUME IndInv
  PROVE  /\ Len(Tail(published)) = Len(published) - 1
         /\ \A item : \A i \in 1..Len(published) :
              item.id = published[i] => PlaceIn(published, item) = i - 1
         /\ PlaceIn(published, NoItem) = 0
         /\ \A c \in Client :
              Holds(c) => \E i \in 1..Len(published) : published[i] = current[c].id
<1>1. ASSUME NEW i \in 1..Len(published), NEW item, item.id = published[i]
      PROVE  PlaceIn(published, item) = i - 1
  <2>1. published[i] # NoId
    BY ChainFacts
  <2>2. item # NoItem
    BY <1>1, <2>1 DEF ItemType, NoItem
  <2>3. IndexOf(published, published[i]) = i
    BY ChainFacts, IndexIsRight
  <2>4. QED
    BY <1>1, <2>2, <2>3 DEF PlaceIn
<1>2. PlaceIn(published, NoItem) = 0
  BY DEF PlaceIn
<1>3. \A c \in Client :
        Holds(c) => \E i \in 1..Len(published) : published[i] = current[c].id
  BY ChainFacts DEF IndInv, HeldItemsAreTrue, Exists
<1>4. Len(Tail(published)) = Len(published) - 1
  <2>1. published \in Seq(Key) /\ published # <<>>
    BY ChainFacts
  <2>2. QED
    BY <2>1
<1>5. QED
  BY <1>1, <1>2, <1>3, <1>4

\* A client that begins anew, at the head, at an id it remembers or with no
\* item at all, resumes from some place of the chain.
LEMMA MoveIsSeek ==
  ASSUME IndInv, NEW c \in Client, NEW item,
         current' = [current EXCEPT ![c] = item], published' = published,
         item = NoItem \/ \E i \in 1..Len(published) : item.id = published[i]
  PROVE  Abstract!Seek(c)
<1> DEFINE k == PlaceIn(published, item)
<1>1. k \in 0..Len(Tail(published))
  <2>1. CASE item = NoItem
    BY <2>1, Places, ChainFacts
  <2>2. ASSUME NEW i \in 1..Len(published), item.id = published[i]
        PROVE  k \in 0..Len(Tail(published))
    <3>1. k = i - 1
      BY <2>2, Places
    <3> HIDE DEF k
    <3>2. QED
      BY <3>1, Places, ChainFacts
  <2>3. QED
    BY <2>1, <2>2
<1>2. \A d \in Client :
        PositionOf(current[d])' = IF d = c THEN k ELSE PositionOf(current[d])
  <2>1. \A d \in Client : current'[d] = IF d = c THEN item ELSE current[d]
    BY DEF IndInv, TypeOK
  <2>2. QED
    BY <2>1, PlaceOfClient
<1> HIDE DEF k
<1>3. [d \in Client |-> PositionOf(current[d])]'
        = [[d \in Client |-> PositionOf(current[d])] EXCEPT ![c] = k]
  BY <1>2
<1>4. QED
  BY <1>1, <1>3 DEF Abstract!Seek

\* A client that turns to the item after its own has walked over one.
LEMMA MoveIsAdvance ==
  ASSUME IndInv, NEW c \in Client, NEW item, NEW i \in 1..(Len(published) - 1),
         current' = [current EXCEPT ![c] = item], published' = published,
         published[i] = current[c].id, published[i + 1] = item.id
  PROVE  Abstract!Advance(c)
<1>1. /\ i \in 1..Len(published) /\ i + 1 \in 1..Len(published)
      /\ (i + 1) - 1 = (i - 1) + 1 /\ i - 1 < Len(Tail(published))
  BY Places, ChainFacts
<1>2. current'[c] = item /\ \A d \in Client \ {c} : current'[d] = current[d]
  BY DEF IndInv, TypeOK
<1>3. /\ PlaceIn(published, current[c]) = i - 1
      /\ PlaceIn(published, current'[c]) = (i + 1) - 1
  BY <1>1, <1>2, Places
<1>4. \A d \in Client : PositionOf(current[d])' =
        IF d = c THEN PositionOf(current[c]) + 1 ELSE PositionOf(current[d])
  <2>1. PositionOf(current[c])' = PositionOf(current[c]) + 1
    BY <1>1, <1>3, PlaceOfClient
  <2>2. QED
    BY <1>2, <2>1, PlaceOfClient
<1>5. [d \in Client |-> PositionOf(current[d])]'
        = [[d \in Client |-> PositionOf(current[d])] EXCEPT ![c] = @ + 1]
  BY <1>4
<1>6. [d \in Client |-> PositionOf(current[d])][c] < Len(Tail(published))
  BY <1>1, <1>3, PlaceOfClient
<1>7. QED
  BY <1>5, <1>6 DEF Abstract!Advance

\* fetchNext walks over exactly one item, the next one, whether Redis or etcd
\* answers, and whatever was appended while it read.
LEMMA FetchIsAdvance ==
  ASSUME IndInv, NEW c \in Client, FetchFromRedis(c) \/ FetchFromEtcd(c)
  PROVE  Abstract!Advance(c)
<1>1. CASE FetchFromRedis(c)
  <2>1. /\ Holds(c) /\ KnownNext(c) \in DOMAIN redis /\ published' = published
        /\ current' = [current EXCEPT ![c] = FromRedis(KnownNext(c))]
    BY <1>1 DEF FetchFromRedis, InRedis, Take, server
  <2>2. FromRedis(KnownNext(c)).id = KnownNext(c)
    BY <2>1, RedisItems
  <2>3. KnownNext(c) \in Id
    <3>1. KnownNext(c) # NoId
      BY <2>1, EtcdAssumption DEF IndInv, TypeOK, Key
    <3>2. KnownNext(c) \in Id \cup {NoId}
      BY DEF KnownNext, InRedis, IndInv, TypeOK
    <3>3. QED
      BY <3>1, <3>2
  <2>4. PICK i \in 1..(Len(published) - 1) :
          published[i] = current[c].id /\ published[i + 1] = KnownNext(c)
    BY <2>1, <2>3, NextIsSuccessor
  <2>5. QED
    BY <2>1, <2>2, <2>4, MoveIsAdvance
<1>2. CASE FetchFromEtcd(c)
  <2>1. /\ pc[c] = "fetching" /\ Exists(wanted[c]) /\ published' = published
        /\ current' = [current EXCEPT ![c] = FromEtcd(wanted[c])]
    BY <1>2 DEF FetchFromEtcd, Take, server
  <2>2. FromEtcd(wanted[c]).id = wanted[c]
    BY <2>1, EtcdItems
  <2>3. PICK i \in 1..(Len(published) - 1) :
          published[i] = current[c].id /\ published[i + 1] = wanted[c]
    BY <2>1 DEF IndInv, Calls, CallIsTrue
  <2>4. QED
    BY <2>1, <2>2, <2>3, MoveIsAdvance
<1>3. QED
  BY <1>1, <1>2

\* The transaction of appendAfter, answered or not: the client had walked
\* over every item, and its items come next, all of them and no other.
LEMMA AppendIsExtend ==
  ASSUME IndInv, NEW c \in Client, AppendSucceeds(c)
  PROVE  Abstract!Extend(c)
<1> DEFINE p == published
           b == batch[c]
<1>1. /\ published' = p \o b /\ Unrepeated(p \o b)
      /\ b \in Seq(Key) /\ b # <<>> /\ p \in Seq(Key) /\ p # <<>> /\ p[1] = HeadKey
      /\ current[c].id = p[Len(p)] /\ current' = current
      /\ Len(p) \in Nat /\ Len(p) \in 1..Len(p)
  <2>1. pc[c] = "appending" /\ CanAppend(c) /\ current' = current
    BY DEF AppendSucceeds
  <2>2. published' = p \o b /\ Unrepeated(p \o b)
    BY <2>1, Longer, AppendEffect
  <2>3. b \in Seq(Key) /\ b # <<>> /\ current[c].id = p[Len(p)]
    BY <2>1, AppendingFacts
  <2>4. /\ p \in Seq(Key) /\ p # <<>> /\ p[1] = HeadKey
        /\ Len(p) \in Nat /\ Len(p) \in 1..Len(p)
    BY ChainFacts
  <2>5. QED
    BY <2>1, <2>2, <2>3, <2>4
<1> HIDE DEF b, p
<1>2. /\ Tail(p \o b) \in Seq(Key \ {p[1]})
      /\ Len(Tail(p \o b)) > Len(Tail(p))
      /\ \A i \in 1..Len(Tail(p)) : Tail(p \o b)[i] = Tail(p)[i]
      /\ Unrepeated(Tail(p \o b))
  BY <1>1, ChainExtended
<1>3. Tail(published') \in Seq(Id)
  BY <1>1, <1>2, ChainFacts
<1>4. PositionOf(current[c]) = Len(Tail(p))
  <2>1. PlaceIn(p, current[c]) = Len(p) - 1 /\ Len(Tail(p)) = Len(p) - 1
    BY <1>1, Places DEF p
  <2>2. QED
    BY <2>1, PlaceOfClient DEF p
<1>5. ASSUME NEW d \in Client
      PROVE  PositionOf(current[d])' = PositionOf(current[d])
  <2>1. CASE current[d] = NoItem
    BY <1>1, <2>1, PlaceOfClient DEF PlaceIn
  <2>2. CASE current[d] # NoItem
    <3>1. current[d].id \in ElementsOf(p)
      BY <2>2, Places DEF Holds, ElementsOf, p
    <3>2. IndexOf(p \o b, current[d].id) = IndexOf(p, current[d].id)
      BY <1>1, <3>1, IndexStays
    <3>3. QED
      BY <1>1, <2>2, <3>2, PlaceOfClient DEF PlaceIn, p
  <2>3. QED
    BY <2>1, <2>2
<1>6. QED
  <2>1. [d \in Client |-> PositionOf(current[d])]'
          = [d \in Client |-> PositionOf(current[d])]
    BY <1>5
  <2>2. [d \in Client |-> PositionOf(current[d])][c] = Len(Tail(published))
    BY <1>4 DEF p
  <2>3. /\ Len(Tail(published')) > Len(Tail(published))
        /\ \A i \in 1..Len(Tail(published)) : Tail(published')[i] = Tail(published)[i]
        /\ Abstract!Distinct(Tail(published'))
    BY <1>1, <1>2 DEF Abstract!Distinct, Unrepeated, p
  <2>4. QED
    BY <1>3, <2>1, <2>2, <2>3 DEF Abstract!Extend

\* Every step of the chain is a step of SharedChain, or changes nothing of it.
LEMMA StepIsChainStep ==
  IndInv /\ [Next]_vars => [Abstract!ChainNext]_(Abstract!chainVars)
<1> SUFFICES ASSUME IndInv, [Next]_vars
             PROVE  [Abstract!ChainNext]_(Abstract!chainVars)
  OBVIOUS
<1>1. ASSUME NEW c \in Client, HeadItem(c) PROVE Abstract!Seek(c)
  <2>1. PICK item \in {FromRedis(HeadKey), FromEtcd(HeadKey),
                       ItemType(revision', HeadKey, NoId)} :
          current' = [current EXCEPT ![c] = item]
    BY <1>1 DEF HeadItem, Take
  <2>2. item.id = HeadKey
    BY <2>1 DEF FromRedis, FromEtcd, ItemType
  <2>3. HeadKey = published[1] /\ 1 \in 1..Len(published)
    BY ChainFacts
  <2>4. published' = published
    BY <1>1 DEF HeadItem
  <2>5. QED
    BY <2>1, <2>2, <2>3, <2>4, MoveIsSeek
<1>2. ASSUME NEW c \in Client, LoadUntil(c) PROVE Abstract!Seek(c)
  <2>1. PICK i \in 2..Len(published) :
          Take(c, IF InRedis(c, published[i]) THEN FromRedis(published[i])
                  ELSE FromEtcd(published[i]))
    BY <1>2 DEF LoadUntil
  <2>2. PICK item \in {FromRedis(published[i]), FromEtcd(published[i])} :
          current' = [current EXCEPT ![c] = item]
    BY <2>1 DEF Take
  <2>3. item.id = published[i]
    BY <2>2 DEF FromRedis, FromEtcd, ItemType
  <2>4. i \in 1..Len(published)
    BY <2>1, ChainFacts
  <2>5. published' = published
    BY <1>2 DEF LoadUntil, server
  <2>6. QED
    BY <2>2, <2>3, <2>4, <2>5, MoveIsSeek
<1>3. ASSUME NEW c \in Client, Restart(c) PROVE Abstract!Seek(c)
  BY <1>3, MoveIsSeek DEF Restart, Take, server
<1>4. ASSUME UNCHANGED <<current, published>>
      PROVE  UNCHANGED Abstract!chainVars
  <2>1. \A d \in Client : PositionOf(current[d])' = PositionOf(current[d])
    BY <1>4, PlaceOfClient
  <2>2. QED
    BY <1>4, <2>1 DEF Abstract!chainVars
<1>5. ASSUME NEW c \in Client, FindNext(c) \/ CallAppendAfter(c)
      PROVE  UNCHANGED <<current, published>>
  BY <1>5 DEF FindNext, CallAppendAfter, server
<1>6. ASSUME NEW c \in Client,
             \/ AppendFails(c) \/ AcceptReply(c) \/ ReturnFalse(c)
             \/ DuplicateToRedis(c)
             \/ RegisterWatch(c) \/ WatchEvent(c) \/ WatchEnds(c)
      PROVE  UNCHANGED <<current, published>>
  BY <1>6 DEF AppendFails, AcceptReply, ReturnFalse, DuplicateToRedis,
              RegisterWatch, WatchEvent, WatchEnds, server
<1>7. ASSUME NEW k \in Key, Expire(k) PROVE UNCHANGED <<current, published>>
  BY <1>7 DEF Expire, server
<1>8. CASE UNCHANGED vars
  BY <1>4, <1>8 DEF vars
<1>9. QED
  BY <1>1, <1>2, <1>3, <1>4, <1>5, <1>6, <1>7, <1>8, FetchIsAdvance, AppendIsExtend
  DEF Next, Fetch, FinishAppend, Abstract!ChainNext

\* The etcd chain keeps the promise of SharedChain: an append takes effect
\* only for a client that has walked over every item on the chain, and all of
\* it at once, whatever is cached, watched, lost or repeated.
THEOREM EtcdImplementsSharedChain == Sound /\ Spec => ImplementsSharedChain
<1>1. Init => Abstract!ChainInit
  BY DEF Init, Abstract!ChainInit, PositionOf
<1>2. QED
  BY <1>1, StepIsChainStep, IndInvHolds, PTL
  DEF Spec, ImplementsSharedChain, Abstract!ChainSpec
=============================================================================
