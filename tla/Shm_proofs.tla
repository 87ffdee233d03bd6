----------------------------- MODULE Shm_proofs -----------------------------
(***************************************************************************)
(* Proofs about the chain in shared memory: the chain itself, for any      *)
(* number of clients, any set of addresses and any size of batch; the spin *)
(* lock, for any number of threads and calls; and the extra data, for any  *)
(* number of users, blocks and saves, and for all the strategies at once.  *)
(***************************************************************************)
EXTENDS ShmChain, ShmExtraData, ShmSpinLock, CommonLemmas

\* The initial state satisfies the inductive invariant.
LEMMA InitIndInv == Init => IndInv
  BY ShmAssumption
  DEF Init, IndInv, TypeOK, Shape, WellLinked, NoDanglingItem, PrivateBatch,
      Private, Elements, NoRepeat, Last, Address, Status

\* The item a client holds when its compare-exchange finds 0 is the last
\* one of the chain (appendAfter).
LEMMA ZeroIsLast ==
  ASSUME IndInv, NEW c \in Client, cur[c] # Nil, next[cur[c]] = Nil
  PROVE  cur[c] = Last(published)
<1>1. PICK i \in 1..Len(published) : cur[c] = published[i]
  BY DEF IndInv, NoDanglingItem, Elements
<1>2. CASE i < Len(published)
  <2>1. next[published[i]] = published[i + 1]
    BY <1>2 DEF IndInv, WellLinked, TypeOK
  <2>2. published[i + 1] # Nil
    BY <1>2, ShmAssumption DEF IndInv, TypeOK, Address
  <2>3. QED
    BY <1>1, <2>1, <2>2
<1>3. CASE i = Len(published)
  BY <1>1, <1>3 DEF Last
<1>4. QED
  BY <1>2, <1>3 DEF IndInv, TypeOK

\* A non-zero link leads from a chain item to the next chain item
\* (fetchNext).
LEMMA LinkStaysOnChain ==
  ASSUME IndInv, NEW i \in 1..Len(published), next[published[i]] # Nil
  PROVE  i < Len(published) /\ next[published[i]] = published[i + 1]
  BY DEF IndInv, WellLinked, TypeOK, Last

\* Operations that only move a client between existing chain items.
LEMMA MoveKeepsIndInv ==
  ASSUME IndInv, NEW c \in Client,
         NEW a \in Address \cup {Nil}, a # Nil => a \in Elements(published),
         NEW p \in {"idle", "end", "waiting"}, p # "idle" => a # Nil,
         cur' = [cur EXCEPT ![c] = a], pc' = [pc EXCEPT ![c] = p],
         pc[c] \notin {"forming", "destroying"},
         UNCHANGED <<next, live, batch, published, leaked>>
  PROVE  IndInv'
<1>1. TypeOK'
  BY DEF IndInv, TypeOK, Status
<1>2. Shape'
  BY DEF IndInv, TypeOK, Shape, Status
<1>3. WellLinked'
  BY DEF IndInv, WellLinked
<1>4. NoDanglingItem'
  BY DEF IndInv, TypeOK, NoDanglingItem, Elements
<1>5. PrivateBatch'
  BY DEF IndInv, TypeOK, PrivateBatch, Private
<1>6. QED
  BY <1>1, <1>2, <1>3, <1>4, <1>5 DEF IndInv

\* formChainItem keeps the invariant: the new item is fresh memory, and only
\* the item before it in the same batch is written.
LEMMA FormKeepsIndInv ==
  ASSUME IndInv, NEW c \in Client, FormChainItem(c)
  PROVE  IndInv'
<1> DEFINE b == batch[c]
<1>1. PICK n \in Node \ live :
        /\ live' = live \cup {n}
        /\ next' = [a \in Address |->
                      IF a = n THEN Nil
                      ELSE IF b # <<>> /\ a = Last(b) THEN n
                      ELSE next[a]]
        /\ batch' = [batch EXCEPT ![c] = Append(b, n)]
  BY DEF FormChainItem
<1>2. /\ pc[c] \in {"end", "forming"} /\ cur[c] # Nil
      /\ pc' = [pc EXCEPT ![c] = "forming"]
      /\ cur' = cur /\ published' = published /\ leaked' = leaked
  BY DEF FormChainItem, IndInv, Shape
<1>3. /\ n \in Address /\ n # Nil /\ n # HeadPtr /\ n \notin Elements(published)
      /\ \A d \in Client : n \notin Private(d)
  BY ShmAssumption DEF Address, IndInv, NoDanglingItem, PrivateBatch
<1>4. b \in Seq(Node) /\ Append(b, n) \in Seq(Node)
  BY DEF IndInv, TypeOK
<1>5. TypeOK'
  BY <1>1, <1>2, <1>3, <1>4 DEF IndInv, TypeOK, Status
<1>6. Shape'
  <2>1. Append(b, n) # <<>>
    BY <1>4
  <2>2. QED
    BY <1>1, <1>2, <2>1 DEF IndInv, TypeOK, Shape
<1>7. \A a \in Address : a \notin Private(c) /\ a # n => next'[a] = next[a]
  BY <1>1, <1>4 DEF Private, Elements, Last
<1>8. WellLinked'
  <2>1. \A i \in 1..Len(published) : next'[published[i]] = next[published[i]]
    <3> SUFFICES ASSUME NEW i \in 1..Len(published)
                 PROVE  next'[published[i]] = next[published[i]]
      OBVIOUS
    <3>1. published[i] \in Elements(published) /\ published[i] \in Address
      BY DEF Elements, IndInv, TypeOK
    <3>2. published[i] \notin Private(c)
      BY <3>1 DEF IndInv, PrivateBatch
    <3>3. QED
      BY <1>3, <1>7, <3>1, <3>2
  <2>2. Len(published) \in Nat /\ Len(published) >= 1
    BY DEF IndInv, TypeOK, WellLinked
  <2>3. QED
    BY <1>2, <2>1, <2>2 DEF IndInv, WellLinked, NoRepeat, Last
<1>9. NoDanglingItem'
  BY <1>1, <1>2 DEF IndInv, NoDanglingItem
<1>10. PrivateBatch'
  <2>1. batch'[c] = Append(b, n) /\ \A d \in Client \ {c} : batch'[d] = batch[d]
    BY <1>1 DEF IndInv, TypeOK
  <2>2. Private(c)' = Private(c) \cup {n}
    BY <1>4, <2>1 DEF Private, Elements
  <2>3. \A d \in Client \ {c} : Private(d)' = Private(d)
    BY <2>1 DEF Private
  <2>4. \A d \in Client : Private(d)' \subseteq live' \ Elements(published)'
    BY <1>1, <1>2, <1>3, <2>2, <2>3 DEF IndInv, PrivateBatch
  <2>5. \A d, e \in Client : d # e => Private(d)' \cap Private(e)' = {}
    BY <1>3, <2>2, <2>3 DEF IndInv, PrivateBatch
  <2>6. \A d \in Client \ {c} : \A i \in 1..Len(batch[d]) :
          next'[batch[d][i]] = next[batch[d][i]]
    <3> SUFFICES ASSUME NEW d \in Client \ {c}, NEW i \in 1..Len(batch[d])
                 PROVE  next'[batch[d][i]] = next[batch[d][i]]
      OBVIOUS
    <3>1. batch[d][i] \in Private(d) /\ batch[d][i] \in Address
      BY DEF Private, Elements, IndInv, TypeOK, Address
    <3>2. batch[d][i] \notin Private(c)
      BY <3>1 DEF IndInv, PrivateBatch
    <3>3. QED
      BY <1>3, <1>7, <3>1, <3>2
  <2>7. ASSUME NEW d \in Client \ {c}
        PROVE  /\ NoRepeat(batch'[d])
               /\ \A i \in 1..(Len(batch'[d]) - 1) :
                    next'[batch'[d][i]] = batch'[d][i + 1]
               /\ pc'[d] = "forming" =>
                    batch'[d] # <<>> /\ next'[Last(batch'[d])] = Nil
    <3>1. batch'[d] = batch[d] /\ pc'[d] = pc[d] /\ batch[d] \in Seq(Node)
      BY <1>2, <2>1 DEF IndInv, TypeOK
    <3>2. batch[d] # <<>> => Len(batch[d]) \in 1..Len(batch[d])
      BY <3>1
    <3>3. QED
      BY <2>6, <3>1, <3>2 DEF IndInv, PrivateBatch, Last
  <2>8. /\ NoRepeat(Append(b, n))
        /\ \A i \in 1..(Len(Append(b, n)) - 1) :
             next'[Append(b, n)[i]] = Append(b, n)[i + 1]
        /\ next'[Last(Append(b, n))] = Nil
    <3>1. NoRepeat(b) /\ \A i \in 1..(Len(b) - 1) : next[b[i]] = b[i + 1]
      BY DEF IndInv, PrivateBatch
    <3>2. \A i \in 1..Len(b) : b[i] # n /\ b[i] \in Address
      BY <1>3, <1>4 DEF Private, Elements, Address
    <3>3. Last(Append(b, n)) = n /\ Len(Append(b, n)) = Len(b) + 1
      BY <1>4 DEF Last
    <3>4. next'[n] = Nil
      BY <1>1, <1>3
    <3>5. \A i \in 1..(Len(b) - 1) : next'[b[i]] = b[i + 1]
      <4> SUFFICES ASSUME NEW i \in 1..(Len(b) - 1)
                   PROVE  next'[b[i]] = b[i + 1]
        OBVIOUS
      <4>1. i \in 1..Len(b) /\ Len(b) \in 1..Len(b) /\ i # Len(b)
        BY <1>4
      <4>2. b[i] # Last(b)
        BY <3>1, <4>1 DEF NoRepeat, Last
      <4>3. QED
        BY <1>1, <3>1, <3>2, <4>1, <4>2
    <3>6. b # <<>> => next'[b[Len(b)]] = n
      <4> SUFFICES ASSUME b # <<>> PROVE next'[b[Len(b)]] = n
        OBVIOUS
      <4>1. Len(b) \in 1..Len(b)
        BY <1>4
      <4>2. QED
        BY <1>1, <3>2, <4>1 DEF Last
    <3>7. NoRepeat(Append(b, n))
      BY <1>4, <3>1, <3>2, <3>3 DEF NoRepeat
    <3>8. ASSUME NEW i \in 1..(Len(Append(b, n)) - 1)
          PROVE  next'[Append(b, n)[i]] = Append(b, n)[i + 1]
      <4>1. i \in 1..Len(b) /\ Append(b, n)[i] = b[i]
        BY <1>4, <3>3
      <4>2. CASE i < Len(b)
        <5>1. i \in 1..(Len(b) - 1) /\ Append(b, n)[i + 1] = b[i + 1]
          BY <1>4, <4>1, <4>2
        <5>2. QED
          BY <3>5, <4>1, <5>1
      <4>3. CASE i = Len(b)
        <5>1. Append(b, n)[i + 1] = n /\ b # <<>>
          BY <1>4, <4>1, <4>3
        <5>2. QED
          BY <3>6, <4>1, <4>3, <5>1
      <4>4. QED
        BY <1>4, <4>1, <4>2, <4>3
    <3>9. QED
      BY <3>3, <3>4, <3>7, <3>8
  <2>9. Append(b, n) # <<>>
    BY <1>4
  <2>10. QED
    BY <2>1, <2>4, <2>5, <2>7, <2>8, <2>9 DEF PrivateBatch
<1>11. QED
  BY <1>5, <1>6, <1>8, <1>9, <1>10 DEF IndInv

\* What concatenating two sequences does to their elements.
LEMMA ConcatElements ==
  ASSUME NEW S, NEW s \in Seq(S), NEW t \in Seq(S)
  PROVE  /\ Elements(s \o t) = Elements(s) \cup Elements(t)
         /\ NoRepeat(s) /\ NoRepeat(t) /\ Elements(s) \cap Elements(t) = {}
              => NoRepeat(s \o t)
<1>1. /\ Len(s) \in Nat /\ Len(t) \in Nat /\ Len(s \o t) = Len(s) + Len(t)
      /\ \A i \in 1..Len(s) : (s \o t)[i] = s[i]
      /\ \A i \in 1..Len(t) : (s \o t)[Len(s) + i] = t[i]
  OBVIOUS
<1>2. \A i \in 1..Len(s \o t) :
        i \in 1..Len(s) \/ (i - Len(s) \in 1..Len(t) /\ i = Len(s) + (i - Len(s)))
  BY <1>1
<1>3. \A i \in 1..Len(s) : i \in 1..Len(s \o t)
  BY <1>1
<1>4. \A i \in 1..Len(t) : Len(s) + i \in 1..Len(s \o t)
  BY <1>1
<1>5. Elements(s \o t) = Elements(s) \cup Elements(t)
  <2>1. Elements(s \o t) \subseteq Elements(s) \cup Elements(t)
    BY <1>1, <1>2 DEF Elements
  <2>2. Elements(s) \subseteq Elements(s \o t)
    BY <1>1, <1>3 DEF Elements
  <2>3. Elements(t) \subseteq Elements(s \o t)
    BY <1>1, <1>4 DEF Elements
  <2>4. QED
    BY <2>1, <2>2, <2>3
<1>6. ASSUME NoRepeat(s), NoRepeat(t), Elements(s) \cap Elements(t) = {}
      PROVE  NoRepeat(s \o t)
  <2>1. \A i \in 1..Len(s), j \in 1..Len(t) : s[i] # t[j]
    BY <1>6 DEF Elements
  <2>2. SUFFICES ASSUME NEW i \in 1..Len(s \o t), NEW j \in 1..Len(s \o t),
                        (s \o t)[i] = (s \o t)[j]
                 PROVE  i = j
    BY DEF NoRepeat
  <2>3. CASE i \in 1..Len(s) /\ j \in 1..Len(s)
    <3>1. s[i] = s[j]
      BY <1>1, <2>2, <2>3
    <3>2. QED
      BY <1>6, <2>3, <3>1 DEF NoRepeat
  <2>4. CASE i \notin 1..Len(s) /\ j \notin 1..Len(s)
    <3>1. /\ i - Len(s) \in 1..Len(t) /\ i = Len(s) + (i - Len(s))
          /\ j - Len(s) \in 1..Len(t) /\ j = Len(s) + (j - Len(s))
      BY <1>2, <2>4
    <3>2. /\ (s \o t)[i] = t[i - Len(s)]
          /\ (s \o t)[j] = t[j - Len(s)]
      BY <1>1, <3>1
    <3>3. t[i - Len(s)] = t[j - Len(s)]
      BY <2>2, <3>2
    <3>4. i - Len(s) = j - Len(s)
      BY <1>6, <3>1, <3>3 DEF NoRepeat
    <3>5. QED
      BY <3>1, <3>4
  <2>5. CASE i \in 1..Len(s) /\ j \notin 1..Len(s)
    <3>1. j - Len(s) \in 1..Len(t) /\ j = Len(s) + (j - Len(s))
      BY <1>2, <2>5
    <3>2. (s \o t)[i] = s[i] /\ (s \o t)[j] = t[j - Len(s)]
      BY <1>1, <2>5, <3>1
    <3>3. QED
      BY <2>1, <2>2, <2>5, <3>1, <3>2
  <2>6. CASE i \notin 1..Len(s) /\ j \in 1..Len(s)
    <3>1. i - Len(s) \in 1..Len(t) /\ i = Len(s) + (i - Len(s))
      BY <1>2, <2>6
    <3>2. (s \o t)[j] = s[j] /\ (s \o t)[i] = t[i - Len(s)]
      BY <1>1, <2>6, <3>1
    <3>3. QED
      BY <2>1, <2>2, <2>6, <3>1, <3>2
  <2>7. QED
    BY <2>3, <2>4, <2>5, <2>6
<1>7. QED
  BY <1>5, <1>6

\* appendAfter keeps the invariant: the compare-exchange writes the link of
\* the last item only, and the batch it hooks on is fresh and well linked.
LEMMA AppendKeepsIndInv ==
  ASSUME IndInv, NEW c \in Client, AppendSucceeds(c)
  PROVE  IndInv'
<1> DEFINE p == published
           b == batch[c]
           p2 == p \o b
<1>1. /\ pc[c] = "forming" /\ cur[c] # Nil /\ b # <<>>
      /\ next' = [next EXCEPT ![cur[c]] = b[1]]
      /\ published' = p2
      /\ batch' = [batch EXCEPT ![c] = <<>>]
      /\ pc' = NotifyAll([pc EXCEPT ![c] = "idle"])
      /\ live' = live /\ cur' = cur /\ leaked' = leaked
  BY DEF AppendSucceeds, IndInv, Shape
<1>2. cur[c] = Last(p)
  BY <1>1, ZeroIsLast DEF AppendSucceeds
<1>3. /\ p \in Seq(Address) /\ b \in Seq(Node) /\ b \in Seq(Address)
      /\ Len(p) \in Nat \ {0} /\ Len(b) \in Nat \ {0}
  <2>1. b \in Seq(Node) /\ p \in Seq(Address) /\ p # <<>>
    BY DEF IndInv, TypeOK, WellLinked
  <2>2. b \in Seq(Address)
    BY <2>1 DEF Address
  <2>3. QED
    BY <1>1, <2>1, <2>2
<1>4. /\ Len(p2) = Len(p) + Len(b) /\ p2 \in Seq(Address)
      /\ \A i \in 1..Len(p) : p2[i] = p[i]
      /\ \A i \in 1..Len(b) : p2[Len(p) + i] = b[i]
  BY <1>3
<1>5. /\ Elements(p) \cap Elements(b) = {} /\ NoRepeat(p) /\ NoRepeat(b)
      /\ Elements(b) \subseteq live /\ Elements(p) \subseteq live
  BY DEF IndInv, PrivateBatch, Private, WellLinked, NoDanglingItem
<1>6. Elements(p2) = Elements(p) \cup Elements(b) /\ NoRepeat(p2)
  BY <1>3, <1>5, ConcatElements
<1>7. \A a \in Address : a # Last(p) => next'[a] = next[a]
  BY <1>1, <1>2
<1>8. next'[Last(p)] = b[1]
  <2>1. Last(p) \in Address
    BY <1>3 DEF Last
  <2>2. QED
    BY <1>1, <1>2, <2>1 DEF IndInv, TypeOK
<1>9. Last(p) \in Elements(p)
  BY <1>3 DEF Last, Elements
<1>10. pc' \in [Client -> Status]
       /\ \A d \in Client :
            /\ pc'[d] \in {"forming", "destroying", "waiting"} => d # c /\ pc'[d] = pc[d]
            /\ d # c /\ pc'[d] # pc[d] => pc[d] = "waiting" /\ pc'[d] = "idle"
  BY <1>1 DEF NotifyAll, IndInv, TypeOK, Status
<1>11. /\ batch'[c] = <<>> /\ Private(c)' = {}
       /\ \A d \in Client \ {c} : batch'[d] = batch[d] /\ Private(d)' = Private(d)
  BY <1>1 DEF IndInv, TypeOK, Private, Elements
<1>12. TypeOK'
  <2>1. b[1] \in Address
    BY <1>3
  <2>2. batch' \in [Client -> Seq(Node)]
    BY <1>1 DEF IndInv, TypeOK
  <2>3. QED
    BY <1>1, <1>4, <1>10, <2>1, <2>2 DEF IndInv, TypeOK
<1>13. Shape'
  <2>1. \A d \in Client : pc'[d] # "idle" => cur'[d] # Nil
    BY <1>1, <1>10 DEF IndInv, Shape
  <2>2. \A d \in Client : pc'[d] \in {"forming", "destroying"} <=> batch'[d] # <<>>
    <3> SUFFICES ASSUME NEW d \in Client
                 PROVE  pc'[d] \in {"forming", "destroying"} <=> batch'[d] # <<>>
      OBVIOUS
    <3>1. CASE d = c
      BY <1>10, <1>11, <3>1
    <3>2. CASE d # c
      BY <1>10, <1>11, <3>2 DEF IndInv, Shape
    <3>3. QED
      BY <3>1, <3>2
  <2>3. QED
    BY <2>1, <2>2 DEF Shape
<1>14. WellLinked'
  <2>1. p2 # <<>> /\ p2[1] = HeadPtr
    BY <1>3, <1>4 DEF IndInv, WellLinked
  <2>2. ASSUME NEW i \in 1..(Len(p2) - 1)
        PROVE  next'[p2[i]] = p2[i + 1]
    <3>1. CASE i < Len(p)
      <4>1. /\ i \in 1..(Len(p) - 1) /\ p2[i] = p[i] /\ p2[i + 1] = p[i + 1]
            /\ p[i] \in Address
        BY <1>3, <1>4, <3>1
      <4>2. p[i] # Last(p)
        BY <1>3, <1>5, <4>1 DEF NoRepeat, Last
      <4>3. QED
        BY <1>7, <4>1, <4>2 DEF IndInv, WellLinked
    <3>2. CASE i = Len(p)
      <4>1. p2[i] = Last(p) /\ p2[i + 1] = b[1]
        BY <1>3, <1>4, <3>2 DEF Last
      <4>2. QED
        BY <1>8, <4>1
    <3>3. CASE i > Len(p)
      <4> DEFINE k == i - Len(p)
      <4>1. k \in 1..(Len(b) - 1) /\ i = Len(p) + k /\ i + 1 = Len(p) + (k + 1)
            /\ k \in 1..Len(b) /\ k + 1 \in 1..Len(b)
        <5>1. Len(p2) = Len(p) + Len(b) /\ Len(p) \in Nat /\ Len(b) \in Nat
          BY <1>3, <1>4
        <5> HIDE DEF p2, p, b
        <5>2. i \in 1..(Len(p2) - 1)
          BY <2>2
        <5>3. QED
          BY <3>3, <5>1, <5>2
      <4>2. p2[i] = b[k] /\ p2[i + 1] = b[k + 1]
        BY <1>4, <4>1
      <4>3. b[k] \in Elements(b) /\ b[k] \in Address
        BY <1>3, <4>1 DEF Elements
      <4>4. b[k] # Last(p)
        BY <1>5, <1>9, <4>3
      <4>5. next[b[k]] = b[k + 1]
        BY <4>1 DEF IndInv, PrivateBatch
      <4>6. QED
        BY <1>7, <4>2, <4>3, <4>4, <4>5
    <3>4. QED
      BY <1>3, <1>4, <3>1, <3>2, <3>3
  <2>3. next'[Last(p2)] = Nil
    <3>1. Last(p2) = Last(b) /\ Last(b) \in Elements(b) /\ Last(b) \in Address
      BY <1>3, <1>4 DEF Last, Elements
    <3>2. next[Last(b)] = Nil
      BY <1>1 DEF IndInv, PrivateBatch
    <3>3. QED
      BY <1>5, <1>7, <1>9, <3>1, <3>2
  <2>4. QED
    BY <1>1, <1>6, <2>1, <2>2, <2>3 DEF WellLinked
<1>15. NoDanglingItem'
  BY <1>1, <1>5, <1>6 DEF IndInv, NoDanglingItem
<1>16. PrivateBatch'
  <2>1. ASSUME NEW d \in Client, d # c
        PROVE  /\ Private(d)' \subseteq live' \ Elements(published)'
               /\ \A e \in Client \ {d} : Private(d)' \cap Private(e)' = {}
               /\ NoRepeat(batch'[d])
               /\ \A i \in 1..(Len(batch'[d]) - 1) : next'[batch'[d][i]] = batch'[d][i + 1]
               /\ pc'[d] = "forming" => batch'[d] # <<>> /\ next'[Last(batch'[d])] = Nil
    <3>1. Private(d) \cap Elements(b) = {} /\ Private(d) \cap Elements(p) = {}
          /\ Private(d) \subseteq live
      BY <2>1 DEF IndInv, PrivateBatch, Private
    <3>2. \A i \in 1..Len(batch[d]) : next'[batch[d][i]] = next[batch[d][i]]
      <4> SUFFICES ASSUME NEW i \in 1..Len(batch[d])
                   PROVE  next'[batch[d][i]] = next[batch[d][i]]
        OBVIOUS
      <4>1. batch[d][i] \in Private(d) /\ batch[d][i] \in Address
        BY DEF Private, Elements, IndInv, TypeOK, Address
      <4>2. QED
        BY <1>7, <1>9, <3>1, <4>1
    <3>3. batch[d] # <<>> => Len(batch[d]) \in 1..Len(batch[d])
      BY DEF IndInv, TypeOK
    <3>4. /\ batch[d] \in Seq(Node) /\ batch'[d] = batch[d]
          /\ pc'[d] = "forming" => pc[d] = "forming"
      BY <1>10, <1>11, <2>1 DEF IndInv, TypeOK
    <3>5. \A e \in Client \ {d} : Private(d)' \cap Private(e)' = {}
      BY <1>11, <2>1 DEF IndInv, PrivateBatch
    <3>6. Private(d)' \subseteq live' \ Elements(published)'
      BY <1>1, <1>6, <1>11, <2>1, <3>1
    <3>7. QED
      BY <3>2, <3>3, <3>4, <3>5, <3>6 DEF IndInv, PrivateBatch, Last
  <2>2. Len(<<>>) = 0 /\ NoRepeat(batch'[c]) /\ pc'[c] # "forming"
    BY <1>10, <1>11 DEF NoRepeat
  <2>3. QED
    BY <1>11, <2>1, <2>2 DEF PrivateBatch
<1>17. QED
  BY <1>12, <1>13, <1>14, <1>15, <1>16 DEF IndInv

\* destroyItem keeps the invariant: it gives back the last item of a private
\* batch, to which neither the chain nor any client leads.
LEMMA DestroyKeepsIndInv ==
  ASSUME IndInv, NEW c \in Client, DestroyItem(c)
  PROVE  IndInv'
<1> DEFINE b == batch[c]
           f == Front(b)
<1>1. /\ pc[c] = "destroying" /\ b # <<>> /\ cur[c] # Nil
      /\ live' = live \ {Last(b)}
      /\ batch' = [batch EXCEPT ![c] = f]
      /\ pc' = IF Len(b) = 1 THEN NotifyAll([pc EXCEPT ![c] = "idle"]) ELSE pc
      /\ next' = next /\ cur' = cur /\ published' = published /\ leaked' = leaked
  BY DEF DestroyItem, IndInv, Shape
<1>2. b \in Seq(Node) /\ Len(b) \in Nat \ {0}
  BY <1>1 DEF IndInv, TypeOK
<1>3. /\ f \in Seq(Node) /\ Len(f) = Len(b) - 1
      /\ \A i \in 1..Len(f) : f[i] = b[i] /\ i \in 1..Len(b) /\ i # Len(b)
  BY <1>2 DEF Front
<1>4. NoRepeat(b) /\ \A i \in 1..(Len(b) - 1) : next[b[i]] = b[i + 1]
  BY DEF IndInv, PrivateBatch
<1>5. Last(b) \in Elements(b) /\ Last(b) \in Private(c)
  BY <1>2 DEF Last, Elements, Private
<1>6. Elements(f) \subseteq Elements(b) \ {Last(b)} /\ NoRepeat(f)
  <2>1. \A i \in 1..Len(f) : f[i] # Last(b)
    BY <1>2, <1>3, <1>4 DEF NoRepeat, Last
  <2>2. Elements(f) \subseteq Elements(b) \ {Last(b)}
    BY <1>3, <2>1 DEF Elements
  <2>3. ASSUME NEW i \in 1..Len(f), NEW j \in 1..Len(f), f[i] = f[j]
        PROVE  i = j
    <3>1. b[i] = b[j] /\ i \in 1..Len(b) /\ j \in 1..Len(b)
      BY <1>3, <2>3
    <3>2. QED
      BY <1>4, <3>1 DEF NoRepeat
  <2>4. QED
    BY <2>2, <2>3 DEF NoRepeat
<1>7. pc' \in [Client -> Status]
      /\ \A d \in Client :
           /\ pc'[d] \in {"forming", "waiting"} => pc'[d] = pc[d] /\ d # c
           /\ pc'[d] = "end" => pc[d] = "end" /\ d # c
           /\ d # c => (pc'[d] = pc[d] \/ (pc[d] = "waiting" /\ pc'[d] = "idle"))
  <2>1. pc \in [Client -> Status]
    BY DEF IndInv, TypeOK
  <2>2. CASE Len(b) = 1
    <3>1. pc' = NotifyAll([pc EXCEPT ![c] = "idle"])
      BY <1>1, <2>2
    <3>2. QED
      BY <1>1, <2>1, <3>1 DEF NotifyAll, Status
  <2>3. CASE Len(b) # 1
    <3>1. pc' = pc
      BY <1>1, <2>3
    <3>2. QED
      BY <1>1, <2>1, <3>1
  <2>4. QED
    BY <2>2, <2>3
<1>8. /\ batch'[c] = f /\ Private(c)' = Elements(f)
      /\ \A d \in Client \ {c} : batch'[d] = batch[d] /\ Private(d)' = Private(d)
  BY <1>1 DEF IndInv, TypeOK, Private
<1>9. pc'[c] \in {"forming", "destroying"} <=> f # <<>>
  <2>1. CASE Len(b) = 1
    <3>1. pc'[c] = "idle"
      BY <1>1, <2>1 DEF NotifyAll, IndInv, TypeOK
    <3>2. f = <<>>
      BY <1>3, <2>1
    <3>3. QED
      BY <3>1, <3>2
  <2>2. CASE Len(b) # 1
    <3>1. Len(f) # 0
      BY <1>2, <1>3, <2>2
    <3>2. f # <<>>
      BY <3>1
    <3>3. QED
      BY <1>1, <2>2, <3>2
  <2>3. QED
    BY <2>1, <2>2
<1>10. TypeOK'
  <2>1. batch' \in [Client -> Seq(Node)]
    BY <1>1, <1>3 DEF IndInv, TypeOK
  <2>2. QED
    BY <1>1, <1>7, <2>1 DEF IndInv, TypeOK
<1>11. Shape'
  <2>1. \A d \in Client : pc'[d] # "idle" => cur'[d] # Nil
    BY <1>1, <1>7 DEF IndInv, Shape
  <2>2. \A d \in Client \ {c} :
          pc'[d] \in {"forming", "destroying"} <=> batch'[d] # <<>>
    BY <1>7, <1>8 DEF IndInv, Shape
  <2>3. QED
    BY <1>8, <1>9, <2>1, <2>2 DEF Shape
<1>12. WellLinked'
  BY <1>1 DEF IndInv, WellLinked
<1>13. NoDanglingItem'
  BY <1>1, <1>5 DEF IndInv, NoDanglingItem, PrivateBatch
<1>14. PrivateBatch'
  <2>1. ASSUME NEW d \in Client, d # c
        PROVE  /\ Private(d)' \subseteq live' \ Elements(published)'
               /\ \A e \in Client \ {d} : Private(d)' \cap Private(e)' = {}
               /\ NoRepeat(batch'[d])
               /\ \A i \in 1..(Len(batch'[d]) - 1) :
                    next'[batch'[d][i]] = batch'[d][i + 1]
               /\ pc'[d] = "forming" => batch'[d] # <<>> /\ next'[Last(batch'[d])] = Nil
    <3>1. Private(d) \cap Private(c) = {}
      BY <2>1 DEF IndInv, PrivateBatch
    <3>2. Private(d)' \subseteq live' \ Elements(published)'
      BY <1>1, <1>5, <1>8, <2>1, <3>1 DEF IndInv, PrivateBatch
    <3>3. ASSUME NEW e \in Client \ {d}
          PROVE  Private(d)' \cap Private(e)' = {}
      <4>1. Private(d) \cap Private(e) = {}
        BY <2>1, <3>3 DEF IndInv, PrivateBatch
      <4>2. Private(d)' = Private(d)
        BY <1>8, <2>1
      <4>3. Private(e)' \subseteq Private(e)
        BY <1>6, <1>8, <3>3 DEF Private
      <4>4. QED
        BY <4>1, <4>2, <4>3
    <3>4. batch'[d] = batch[d] /\ (pc'[d] = "forming" => pc[d] = "forming")
      BY <1>7, <1>8, <2>1
    <3>5. QED
      BY <1>1, <3>2, <3>3, <3>4 DEF IndInv, PrivateBatch
  <2>2. Private(c)' \subseteq live' \ Elements(published)'
    BY <1>1, <1>6, <1>8 DEF IndInv, PrivateBatch, Private
  <2>3. \A e \in Client \ {c} : Private(c)' \cap Private(e)' = {}
    BY <1>6, <1>8 DEF IndInv, PrivateBatch, Private
  <2>4. \A i \in 1..(Len(f) - 1) : next'[f[i]] = f[i + 1]
    <3> SUFFICES ASSUME NEW i \in 1..(Len(f) - 1)
                 PROVE  next'[f[i]] = f[i + 1]
      OBVIOUS
    <3>1. Len(b) \in Nat /\ Len(f) = Len(b) - 1
      BY <1>2, <1>3
    <3>2. i \in 1..Len(f) /\ i + 1 \in 1..Len(f) /\ i \in 1..(Len(b) - 1)
      <4> HIDE DEF f, b
      <4>1. QED
        BY <3>1
    <3>3. QED
      BY <1>1, <1>3, <1>4, <3>2
  <2>5. pc'[c] # "forming"
    BY <1>7
  <2>6. QED
    BY <1>6, <1>8, <2>1, <2>2, <2>3, <2>4, <2>5 DEF PrivateBatch
<1>15. QED
  BY <1>10, <1>11, <1>12, <1>13, <1>14 DEF IndInv

\* The death of a process keeps the invariant: what it leaves behind is
\* reachable from nowhere.
LEMMA CrashKeepsIndInv ==
  ASSUME IndInv, NEW c \in Client, Crash(c)
  PROVE  IndInv'
<1>1. /\ leaked' = leaked \cup Elements(batch[c])
      /\ cur' = [cur EXCEPT ![c] = Nil]
      /\ batch' = [batch EXCEPT ![c] = <<>>]
      /\ pc' = [pc EXCEPT ![c] = "idle"]
      /\ next' = next /\ live' = live /\ published' = published
  BY DEF Crash
<1>2. Elements(batch[c]) \subseteq Node
  BY DEF IndInv, TypeOK, Elements
<1>3. TypeOK'
  BY <1>1, <1>2 DEF IndInv, TypeOK, Status
<1>4. Shape'
  BY <1>1 DEF IndInv, TypeOK, Shape
<1>5. WellLinked'
  BY <1>1 DEF IndInv, WellLinked
<1>6. NoDanglingItem'
  BY <1>1 DEF IndInv, TypeOK, NoDanglingItem
<1>7. PrivateBatch'
  <2>1. /\ batch'[c] = <<>> /\ Private(c)' = {} /\ pc'[c] = "idle"
        /\ \A d \in Client \ {c} : /\ batch'[d] = batch[d] /\ pc'[d] = pc[d]
                                   /\ Private(d)' = Private(d)
    BY <1>1 DEF IndInv, TypeOK, Private, Elements
  <2>2. Len(<<>>) = 0 /\ NoRepeat(batch'[c])
    BY <2>1 DEF NoRepeat
  <2>3. QED
    BY <1>1, <2>1, <2>2 DEF IndInv, PrivateBatch
<1>8. QED
  BY <1>3, <1>4, <1>5, <1>6, <1>7 DEF IndInv

\* appendAfter that loses the race changes nothing but the client's place.
LEMMA AppendFailsKeepsIndInv ==
  ASSUME IndInv, NEW c \in Client, AppendFails(c)
  PROVE  IndInv'
<1>1. /\ pc[c] = "forming" /\ pc' = [pc EXCEPT ![c] = "destroying"]
      /\ UNCHANGED <<next, live, cur, batch, leaked, published>>
  BY DEF AppendFails
<1>2. TypeOK' /\ Shape'
  BY <1>1 DEF IndInv, TypeOK, Shape, Status
<1>3. WellLinked' /\ NoDanglingItem'
  BY <1>1 DEF IndInv, WellLinked, NoDanglingItem
<1>4. PrivateBatch'
  BY <1>1 DEF IndInv, TypeOK, PrivateBatch, Private
<1>5. QED
  BY <1>2, <1>3, <1>4 DEF IndInv

-----------------------------------------------------------------------------
\* Every step of the chain keeps the invariant.
LEMMA NextKeepsIndInv == IndInv /\ [Next]_vars => IndInv'
<1> SUFFICES ASSUME IndInv, [Next]_vars PROVE IndInv'
  OBVIOUS
<1>1. ASSUME NEW c \in Client, HeadItem(c) PROVE IndInv'
  <2>1. HeadPtr \in Address /\ HeadPtr \in Elements(published)
    BY DEF Address, IndInv, TypeOK, WellLinked, Elements
  <2>2. pc' = [pc EXCEPT ![c] = "idle"] /\ cur' = [cur EXCEPT ![c] = HeadPtr]
    BY <1>1 DEF HeadItem, IndInv, TypeOK
  <2>3. pc[c] = "idle" /\ UNCHANGED <<next, live, batch, published, leaked>>
    BY <1>1 DEF HeadItem
  <2>4. QED
    BY <2>1, <2>2, <2>3, MoveKeepsIndInv
<1>2. ASSUME NEW c \in Client, LoadUntil(c) PROVE IndInv'
  <2>1. PICK i \in 1..Len(published) : cur' = [cur EXCEPT ![c] = published[i]]
    BY <1>2 DEF LoadUntil
  <2>2. published[i] \in Address /\ published[i] \in Elements(published)
    BY DEF IndInv, TypeOK, Elements
  <2>3. pc' = [pc EXCEPT ![c] = "idle"]
    BY <1>2 DEF LoadUntil, IndInv, TypeOK
  <2>4. pc[c] = "idle" /\ UNCHANGED <<next, live, batch, published, leaked>>
    BY <1>2 DEF LoadUntil
  <2>5. QED
    BY <2>1, <2>2, <2>3, <2>4, MoveKeepsIndInv
<1>3. ASSUME NEW c \in Client, FetchNext(c) PROVE IndInv'
  <2>1. PICK i \in 1..Len(published) : cur[c] = published[i]
    BY <1>3 DEF FetchNext, IndInv, NoDanglingItem, Elements
  <2>2. i < Len(published) /\ next[cur[c]] = published[i + 1]
    BY <1>3, <2>1, LinkStaysOnChain DEF FetchNext
  <2>3. i + 1 \in 1..Len(published)
    BY <2>2 DEF IndInv, TypeOK
  <2>4. next[cur[c]] \in Elements(published) /\ next[cur[c]] \in Address
    BY <2>2, <2>3 DEF IndInv, TypeOK, Elements
  <2>5. /\ pc[c] \in {"idle", "end"} /\ pc' = [pc EXCEPT ![c] = "idle"]
        /\ cur' = [cur EXCEPT ![c] = next[cur[c]]]
        /\ UNCHANGED <<next, live, batch, published, leaked>>
    BY <1>3 DEF FetchNext
  <2>6. QED
    BY <2>4, <2>5, MoveKeepsIndInv
<1>4. ASSUME NEW c \in Client,
             FetchNothing(c) \/ BeginWait(c) \/ WaitTimeout(c)
      PROVE  IndInv'
  <2>1. PICK q \in {"idle", "end", "waiting"} : pc' = [pc EXCEPT ![c] = q]
    BY <1>4 DEF FetchNothing, BeginWait, WaitTimeout
  <2>2. /\ cur[c] # Nil /\ pc[c] \notin {"forming", "destroying"}
        /\ UNCHANGED <<next, live, cur, batch, published, leaked>>
    BY <1>4 DEF FetchNothing, BeginWait, WaitTimeout, IndInv, Shape
  <2>3. cur' = [cur EXCEPT ![c] = cur[c]] /\ cur[c] \in Address
    BY <2>2 DEF IndInv, TypeOK
  <2>4. cur[c] \in Elements(published)
    BY <2>2 DEF IndInv, NoDanglingItem
  <2>5. QED
    BY <2>1, <2>2, <2>3, <2>4, MoveKeepsIndInv
<1>5. CASE UNCHANGED vars
  BY <1>5 DEF vars, IndInv, TypeOK, Shape, WellLinked, NoDanglingItem,
              PrivateBatch, Private
<1>6. QED
  BY <1>1, <1>2, <1>3, <1>4, <1>5, FormKeepsIndInv, AppendKeepsIndInv,
     AppendFailsKeepsIndInv, DestroyKeepsIndInv, CrashKeepsIndInv DEF Next

\* The invariant holds in every reachable state.
THEOREM IndInvHolds == Spec => []IndInv
  BY InitIndInv, NextKeepsIndInv, PTL DEF Spec

\* Every variable keeps its type.
THEOREM TypeCorrect == Spec => []TypeOK
<1>1. IndInv => TypeOK
  BY DEF IndInv
<1>2. QED
  BY <1>1, IndInvHolds, PTL

\* The compare-exchanges of any number of writers, over memory that is
\* recycled and with processes dying anywhere, never fork, cut or reorder
\* the chain.
THEOREM ChainIsWellLinked == Spec => []WellLinked
<1>1. IndInv => WellLinked
  BY DEF IndInv
<1>2. QED
  BY <1>1, IndInvHolds, PTL

\* No client and no link of the chain ever leads to memory that was given
\* back to the segment.
THEOREM NothingDangles == Spec => []NoDanglingItem
<1>1. IndInv => NoDanglingItem
  BY DEF IndInv
<1>2. QED
  BY <1>1, IndInvHolds, PTL

\* The items under construction are private to their writer and linked in
\* the order they are to have on the chain.
THEOREM BatchesArePrivate == Spec => []PrivateBatch
<1>1. IndInv => PrivateBatch
  BY DEF IndInv
<1>2. QED
  BY <1>1, IndInvHolds, PTL

\* A link of the chain that is set is never written again: what a client has
\* read of the chain stays true whatever is appended, freed or reallocated.
THEOREM LinksStay == Spec => LinksAreForever
<1> DEFINE Stays == \A i \in 1..Len(published) :
              next[published[i]] # Nil => next'[published[i]] = next[published[i]]
<1>1. IndInv /\ [Next]_vars => [Stays]_vars
  <2> SUFFICES ASSUME IndInv, Next PROVE Stays
    BY DEF vars
  <2> SUFFICES ASSUME NEW i \in 1..Len(published), next[published[i]] # Nil
               PROVE  next'[published[i]] = next[published[i]]
    OBVIOUS
  <2>1. PICK c \in Client :
          \/ HeadItem(c) \/ LoadUntil(c) \/ FetchNext(c) \/ FetchNothing(c)
          \/ FormChainItem(c) \/ AppendSucceeds(c) \/ AppendFails(c)
          \/ DestroyItem(c) \/ BeginWait(c) \/ WaitTimeout(c) \/ Crash(c)
    BY DEF Next
  <2>2. published[i] \in Address /\ published[i] \in Elements(published)
    BY DEF IndInv, TypeOK, Elements
  <2>3. CASE FormChainItem(c)
    <3>1. published[i] \in live /\ published[i] \notin Private(c)
      BY <2>2 DEF IndInv, NoDanglingItem, PrivateBatch
    <3>2. batch[c] # <<>> => Last(batch[c]) \in Private(c)
      BY DEF IndInv, TypeOK, Private, Elements, Last
    <3>3. QED
      BY <2>2, <2>3, <3>1, <3>2 DEF FormChainItem
  <2>4. CASE AppendSucceeds(c)
    BY <2>2, <2>4 DEF AppendSucceeds, IndInv, TypeOK
  <2>5. CASE UNCHANGED next
    BY <2>5
  <2>6. QED
    BY <2>1, <2>3, <2>4, <2>5 DEF HeadItem, LoadUntil, FetchNext, FetchNothing,
       AppendFails, DestroyItem, BeginWait, WaitTimeout, Crash
<1>2. QED
  BY <1>1, IndInvHolds, PTL DEF Spec, LinksAreForever

-----------------------------------------------------------------------------
\* What a dead process left behind is in nobody's batch, so nobody frees it.
Apart == \A c \in Client : Private(c) \cap leaked = {}

Accounted == NoLeak /\ Apart

\* No step frees what a dead process left behind, and none loses track of
\* an item it constructs, publishes or destroys.
LEMMA AccountedStep == IndInv /\ Accounted /\ [Next]_vars => Accounted'
<1> SUFFICES ASSUME IndInv, Accounted, [Next]_vars PROVE Accounted'
  OBVIOUS
<1> USE DEF Accounted
<1>1. ASSUME NEW c \in Client, FormChainItem(c) PROVE Accounted'
  <2>1. PICK n \in Node \ live : /\ live' = live \cup {n}
                                 /\ batch' = [batch EXCEPT ![c] = Append(@, n)]
    BY <1>1 DEF FormChainItem
  <2>2. Elements(Append(batch[c], n)) = Elements(batch[c]) \cup {n}
    <3>1. batch[c] \in Seq(Node)
      BY DEF IndInv, TypeOK
    <3>2. /\ Len(Append(batch[c], n)) = Len(batch[c]) + 1 /\ Len(batch[c]) \in Nat
          /\ \A i \in 1..Len(batch[c]) : Append(batch[c], n)[i] = batch[c][i]
          /\ Append(batch[c], n)[Len(batch[c]) + 1] = n
      BY <3>1
    <3>3. QED
      BY <3>2 DEF Elements
  <2>3. Private(c)' = Private(c) \cup {n}
        /\ \A d \in Client \ {c} : Private(d)' = Private(d)
    BY <2>1, <2>2 DEF IndInv, TypeOK, Private
  <2>4. published' = published /\ leaked' = leaked
    BY <1>1 DEF FormChainItem
  <2>5. QED
    BY <2>1, <2>3, <2>4 DEF NoLeak, Apart
<1>2. ASSUME NEW c \in Client, AppendSucceeds(c) PROVE Accounted'
  <2>1. Elements(published') = Elements(published) \cup Private(c)
    <3>1. published \in Seq(Address) /\ batch[c] \in Seq(Address)
      BY DEF IndInv, TypeOK, Address
    <3>2. QED
      BY <1>2, <3>1, ConcatElements DEF AppendSucceeds, Private
  <2>2. Private(c)' = {} /\ \A d \in Client \ {c} : Private(d)' = Private(d)
    BY <1>2 DEF AppendSucceeds, IndInv, TypeOK, Private, Elements
  <2>3. live' = live /\ leaked' = leaked
    BY <1>2 DEF AppendSucceeds
  <2>4. QED
    BY <2>1, <2>2, <2>3 DEF NoLeak, Apart
<1>3. ASSUME NEW c \in Client, DestroyItem(c) PROVE Accounted'
  <2> DEFINE b == batch[c]
  <2>1. /\ live' = live \ {Last(b)} /\ batch' = [batch EXCEPT ![c] = Front(b)]
        /\ published' = published /\ leaked' = leaked
        /\ b \in Seq(Node) /\ b # <<>>
    BY <1>3 DEF DestroyItem, IndInv, TypeOK, Shape
  <2>2. Elements(Front(b)) = Elements(b) \ {Last(b)}
    <3>1. NoRepeat(b)
      BY DEF IndInv, PrivateBatch
    <3>2. Len(b) \in Nat \ {0} /\ Len(Front(b)) = Len(b) - 1
          /\ \A i \in 1..(Len(b) - 1) : Front(b)[i] = b[i]
      BY <2>1 DEF Front
    <3>3. QED
      BY <3>1, <3>2 DEF Elements, Last, NoRepeat
  <2>3. Private(c)' = Private(c) \ {Last(b)}
        /\ \A d \in Client \ {c} : Private(d)' = Private(d)
    BY <2>1, <2>2 DEF IndInv, TypeOK, Private
  <2>4. Last(b) \in Private(c)
    BY <2>1 DEF Private, Elements, Last
  <2>5. /\ Last(b) \notin Elements(published)
        /\ \A d \in Client \ {c} : Last(b) \notin Private(d)
        /\ Last(b) \notin leaked
    BY <2>4 DEF IndInv, PrivateBatch, Apart
  <2>6. Apart'
    BY <2>1, <2>3 DEF Apart
  <2>7. ASSUME NEW x
        PROVE  x \in live' <=> \/ x \in Elements(published)' \/ x \in leaked'
                               \/ \E d \in Client : x \in Private(d)'
    <3>1. x \in live <=> \/ x \in Elements(published) \/ x \in leaked
                        \/ \E d \in Client : x \in Private(d)
      BY DEF NoLeak
    <3>2. \A d \in Client : x \in Private(d)' <=> x \in Private(d) /\ x # Last(b)
      <4>1. \A d \in Client \ {c} : x \in Private(d) => x # Last(b)
        BY <2>5
      <4>2. QED
        BY <2>3, <4>1
    <3>3. CASE x = Last(b)
      <4>1. x \notin live' /\ x \notin Elements(published) /\ x \notin leaked
        BY <2>1, <2>5, <3>3
      <4>2. \A d \in Client : x \notin Private(d)'
        BY <3>2, <3>3
      <4>3. Elements(published)' = Elements(published) /\ leaked' = leaked
        BY <2>1
      <4>4. QED
        BY <4>1, <4>2, <4>3
    <3>4. CASE x # Last(b)
      BY <2>1, <3>1, <3>2, <3>4
    <3>5. QED
      BY <3>3, <3>4
  <2>8. NoLeak'
    BY <2>7 DEF NoLeak
  <2>9. QED
    BY <2>6, <2>8
<1>4. ASSUME NEW c \in Client, Crash(c) PROVE Accounted'
  <2>1. Private(c)' = {} /\ \A d \in Client \ {c} : Private(d)' = Private(d)
    BY <1>4 DEF Crash, IndInv, TypeOK, Private, Elements
  <2>2. leaked' = leaked \cup Private(c) /\ UNCHANGED <<live, published>>
    BY <1>4 DEF Crash, Private
  <2>3. \A d \in Client \ {c} : Private(d) \cap Private(c) = {}
    BY DEF IndInv, PrivateBatch
  <2>4. QED
    BY <2>1, <2>2, <2>3 DEF NoLeak, Apart
<1>5. ASSUME UNCHANGED <<live, published, leaked, batch>> PROVE Accounted'
  BY <1>5 DEF NoLeak, Apart, Private
<1>6. QED
  BY <1>1, <1>2, <1>3, <1>4, <1>5 DEF Next, vars, HeadItem, LoadUntil,
     FetchNext, FetchNothing, AppendFails, BeginWait, WaitTimeout

\* The memory of the segment is accounted for: on the chain, with a running
\* writer, or lost with a dead one; destroyItem forgets none of a batch.
THEOREM NothingLeaks == Spec => []NoLeak
<1>1. Init => Accounted
  BY DEF Init, Accounted, NoLeak, Apart, Private, Elements
<1>2. Accounted => NoLeak
  BY DEF Accounted
<1>3. QED
  BY <1>1, <1>2, AccountedStep, IndInvHolds, PTL DEF Spec

-----------------------------------------------------------------------------
\* The chain implements SharedChain.  The place of an item is its place
\* among the appends, and that of a client is the place of its item.
LEMMA Places ==
  ASSUME IndInv
  PROVE  /\ published \in Seq(Address) /\ published # <<>> /\ published[1] = HeadPtr
         /\ Len(published) \in Nat /\ Len(published) >= 1
         /\ Len(Tail(published)) = Len(published) - 1
         /\ Unrepeated(published)
         /\ Address \ {HeadPtr} = Node /\ Nil \notin Address
         /\ \A i \in 1..Len(published) : PositionOf(published[i]) = i - 1
         /\ PositionOf(Nil) = 0
<1>1. /\ published \in Seq(Address) /\ published # <<>> /\ published[1] = HeadPtr
      /\ Unrepeated(published)
  BY DEF IndInv, TypeOK, WellLinked, NoRepeat, Unrepeated
<1>2. /\ Len(published) \in Nat /\ Len(published) >= 1
      /\ Len(Tail(published)) = Len(published) - 1
  BY <1>1
<1>3. Address \ {HeadPtr} = Node /\ Nil \notin Address
  BY ShmAssumption DEF Address
<1>4. ASSUME NEW i \in 1..Len(published)
      PROVE  PositionOf(published[i]) = i - 1
  <2>1. published[i] # Nil
    BY <1>1, <1>3
  <2>2. IndexOf(published, published[i]) = i
    BY <1>1, IndexIsRight
  <2>3. QED
    BY <2>1, <2>2 DEF PositionOf, IndexOf
<1>5. PositionOf(Nil) = 0
  BY DEF PositionOf
<1>6. QED
  BY <1>1, <1>2, <1>3, <1>4, <1>5

PlaceIn(s, a) == IF a = Nil THEN 0 ELSE IndexOf(s, a) - 1

\* The place of a client depends on the appends and on its item only.
LEMMA PlaceOfClient ==
  ASSUME NEW c \in Client
  PROVE  /\ PositionOf(cur[c]) = PlaceIn(published, cur[c])
         /\ PositionOf(cur[c])' = PlaceIn(published', cur'[c])
<1>1. PositionOf(cur[c]) = PlaceIn(published, cur[c])
  BY DEF PositionOf, PlaceIn, IndexOf
<1>2. PositionOf(cur[c])' = PlaceIn(published', cur'[c])
  BY DEF PositionOf, PlaceIn, IndexOf
<1>3. QED
  BY <1>1, <1>2

\* head, loadUntil and the death of a process put the client on some item of
\* the chain, or before it.
LEMMA MoveIsSeek ==
  ASSUME IndInv, NEW c \in Client,
         NEW a, a = Nil \/ a \in Elements(published),
         cur' = [cur EXCEPT ![c] = a], published' = published
  PROVE  Abstract!Seek(c)
<1> DEFINE k == PositionOf(a)
<1>1. k \in 0..Len(Tail(published))
  <2>1. CASE a = Nil
    BY <2>1, Places
  <2>2. CASE a \in Elements(published)
    <3>1. PICK i \in 1..Len(published) : a = published[i]
      BY <2>2 DEF Elements
    <3>2. k = i - 1
      BY <3>1, Places
    <3> HIDE DEF k
    <3>3. QED
      BY <3>2, Places
  <2>3. QED
    BY <2>1, <2>2
<1>2. \A d \in Client : PositionOf(cur[d])' = IF d = c THEN k ELSE PositionOf(cur[d])
  <2>1. k = PlaceIn(published, a)
    BY DEF PositionOf, PlaceIn, IndexOf
  <2>2. \A d \in Client : cur'[d] = IF d = c THEN a ELSE cur[d]
    BY DEF IndInv, TypeOK
  <2>3. QED
    BY <2>1, <2>2, PlaceOfClient
<1> HIDE DEF k
<1>3. [d \in Client |-> PositionOf(cur[d])]'
        = [[d \in Client |-> PositionOf(cur[d])] EXCEPT ![c] = k]
  BY <1>2
<1>4. QED
  BY <1>1, <1>3 DEF Abstract!Seek

\* fetchNext walks over exactly one item, the next one.
LEMMA FetchIsAdvance ==
  ASSUME IndInv, NEW c \in Client, FetchNext(c)
  PROVE  Abstract!Advance(c)
<1>1. /\ cur[c] # Nil /\ next[cur[c]] # Nil /\ published' = published
      /\ cur' = [cur EXCEPT ![c] = next[cur[c]]]
  BY DEF FetchNext
<1>2. PICK i \in 1..Len(published) : cur[c] = published[i]
  BY <1>1 DEF IndInv, NoDanglingItem, Elements
<1>3. i < Len(published) /\ next[cur[c]] = published[i + 1]
  BY <1>1, <1>2, LinkStaysOnChain
<1>4. i + 1 \in 1..Len(published)
  BY <1>3, Places
<1>5. /\ PositionOf(cur[c]) = i - 1 /\ PositionOf(next[cur[c]]) = (i + 1) - 1
      /\ i - 1 < Len(Tail(published)) /\ (i + 1) - 1 = (i - 1) + 1
  <2>1. PositionOf(published[i]) = i - 1 /\ PositionOf(published[i + 1]) = (i + 1) - 1
    BY <1>4, Places
  <2>2. i - 1 < Len(Tail(published)) /\ (i + 1) - 1 = (i - 1) + 1
    BY <1>3, Places
  <2>3. QED
    BY <1>2, <1>3, <2>1, <2>2
<1>6. \A d \in Client : PositionOf(cur[d])' =
        IF d = c THEN PositionOf(next[cur[c]]) ELSE PositionOf(cur[d])
  <2>1. PositionOf(next[cur[c]]) = PlaceIn(published, next[cur[c]])
    BY DEF PositionOf, PlaceIn, IndexOf
  <2>2. \A d \in Client : cur'[d] = IF d = c THEN next[cur[c]] ELSE cur[d]
    BY <1>1 DEF IndInv, TypeOK
  <2>3. QED
    BY <1>1, <2>1, <2>2, PlaceOfClient
<1>7. PositionOf(cur[c])' = PositionOf(cur[c]) + 1
  BY <1>5, <1>6
<1>8. [d \in Client |-> PositionOf(cur[d])]'
        = [[d \in Client |-> PositionOf(cur[d])] EXCEPT ![c] = @ + 1]
  BY <1>6, <1>7
<1>9. [d \in Client |-> PositionOf(cur[d])][c] < Len(Tail(published))
  BY <1>5
<1>10. QED
  BY <1>1, <1>8, <1>9 DEF Abstract!Advance

\* appendAfter that returns true: the writer had walked over every item of
\* the chain, its items come next, all of them and no other, and nobody's
\* place changes.
LEMMA AppendIsExtend ==
  ASSUME IndInv, NEW c \in Client, AppendSucceeds(c), IndInv'
  PROVE  Abstract!Extend(c)
<1> DEFINE p == published
           b == batch[c]
<1>1. /\ cur[c] # Nil /\ next[cur[c]] = Nil /\ b # <<>> /\ cur' = cur
      /\ published' = p \o b
  BY DEF AppendSucceeds, IndInv, Shape
<1>2. b \in Seq(Address) /\ p \in Seq(Address) /\ p # <<>> /\ p[1] = HeadPtr
  <2>1. b \in Seq(Node)
    BY DEF IndInv, TypeOK
  <2>2. b \in Seq(Address)
    BY <2>1 DEF Address
  <2>3. QED
    BY <2>2, Places
<1>3. Unrepeated(p \o b)
  BY <1>1 DEF IndInv, WellLinked, NoRepeat, Unrepeated
<1> HIDE DEF b
<1>4. /\ Tail(p \o b) \in Seq(Address \ {p[1]})
      /\ Len(Tail(p \o b)) > Len(Tail(p))
      /\ \A i \in 1..Len(Tail(p)) : Tail(p \o b)[i] = Tail(p)[i]
      /\ Unrepeated(Tail(p \o b))
  BY <1>1, <1>2, <1>3, ChainExtended
<1>5. Tail(published)' \in Seq(Node)
  BY <1>1, <1>2, <1>4, Places
<1>6. PositionOf(cur[c]) = Len(Tail(published))
  <2>1. cur[c] = published[Len(published)] /\ Len(published) \in 1..Len(published)
    BY <1>1, ZeroIsLast, Places DEF Last
  <2>2. PositionOf(published[Len(published)]) = Len(published) - 1
    BY <2>1, Places
  <2>3. QED
    BY <2>1, <2>2, Places
<1>7. ASSUME NEW d \in Client
      PROVE  PositionOf(cur[d])' = PositionOf(cur[d])
  <2>1. CASE cur[d] = Nil
    BY <1>1, <2>1, PlaceOfClient DEF PlaceIn
  <2>2. CASE cur[d] # Nil
    <3>1. cur[d] \in ElementsOf(published)
      BY <2>2 DEF IndInv, NoDanglingItem, Elements, ElementsOf
    <3>2. IndexOf(p \o b, cur[d]) = IndexOf(p, cur[d])
      BY <1>2, <1>3, <3>1, IndexStays
    <3>3. QED
      BY <1>1, <2>2, <3>2, PlaceOfClient DEF PlaceIn
  <2>3. QED
    BY <2>1, <2>2
<1>8. QED
  <2>1. [d \in Client |-> PositionOf(cur[d])]' = [d \in Client |-> PositionOf(cur[d])]
    BY <1>7
  <2>2. [d \in Client |-> PositionOf(cur[d])][c] = Len(Tail(published))
    BY <1>6
  <2>3. /\ Len(Tail(published)') > Len(Tail(published))
        /\ \A i \in 1..Len(Tail(published)) : Tail(published)'[i] = Tail(published)[i]
        /\ Abstract!Distinct(Tail(published)')
    BY <1>1, <1>4 DEF Abstract!Distinct, Unrepeated
  <2>4. QED
    BY <1>5, <2>1, <2>2, <2>3 DEF Abstract!Extend

\* Every step of the chain is a step of SharedChain, or changes nothing of
\* it: forming, destroying and waiting are the clients' own business.
LEMMA StepIsChainStep ==
  IndInv /\ IndInv' /\ [Next]_vars => [Abstract!ChainNext]_(Abstract!chainVars)
<1> SUFFICES ASSUME IndInv, IndInv', [Next]_vars
             PROVE  [Abstract!ChainNext]_(Abstract!chainVars)
  OBVIOUS
<1>1. ASSUME NEW c \in Client, HeadItem(c) PROVE Abstract!Seek(c)
  <2>1. HeadPtr \in Elements(published)
    BY Places DEF Elements
  <2>2. QED
    BY <1>1, <2>1, MoveIsSeek DEF HeadItem
<1>2. ASSUME NEW c \in Client, LoadUntil(c) PROVE Abstract!Seek(c)
  <2>1. PICK i \in 1..Len(published) : cur' = [cur EXCEPT ![c] = published[i]]
    BY <1>2 DEF LoadUntil
  <2>2. published[i] \in Elements(published)
    BY DEF Elements
  <2>3. QED
    BY <1>2, <2>1, <2>2, MoveIsSeek DEF LoadUntil
<1>3. ASSUME NEW c \in Client, Crash(c) PROVE Abstract!Seek(c)
  BY <1>3, MoveIsSeek DEF Crash
<1>4. ASSUME UNCHANGED <<cur, published>>
      PROVE  UNCHANGED Abstract!chainVars
  <2>1. \A d \in Client : PositionOf(cur[d])' = PositionOf(cur[d])
    BY <1>4 DEF PositionOf
  <2>2. QED
    BY <1>4, <2>1 DEF Abstract!chainVars
<1>5. CASE UNCHANGED vars
  BY <1>4, <1>5 DEF vars
<1>6. ASSUME NEW c \in Client,
             \/ FetchNothing(c) \/ FormChainItem(c) \/ AppendFails(c)
             \/ DestroyItem(c) \/ BeginWait(c) \/ WaitTimeout(c)
      PROVE  UNCHANGED <<cur, published>>
  BY <1>6 DEF FetchNothing, FormChainItem, AppendFails, DestroyItem, BeginWait,
              WaitTimeout
<1>7. QED
  BY <1>1, <1>2, <1>3, <1>4, <1>5, <1>6, FetchIsAdvance, AppendIsExtend
  DEF Next, Abstract!ChainNext

\* The lock-free chain keeps the promise of SharedChain: an append takes
\* effect only for a writer that has walked over every item on the chain, as
\* a whole, and what is on the chain stays where it is.
THEOREM ShmImplementsSharedChain == Spec => ImplementsSharedChain
<1>1. Init => Abstract!ChainInit
  BY DEF Init, Abstract!ChainInit, PositionOf
<1>2. QED
  BY <1>1, StepIsChainStep, IndInvHolds, PTL
  DEF Spec, ImplementsSharedChain, Abstract!ChainSpec

-----------------------------------------------------------------------------
(* The spin lock.                                                          *)

\* The threads that have a ticket and are in the game.
Queued(t) == stage[t] \notin {"out", "draw", "dead"}

\* Past the point where the service registrar was found or made to be one's
\* own ticket, and not yet out of unlock().
InFront(t) == stage[t] \in {"turn", "claim", "skipclaim", "critical", "unlocking"}

\* The inductive invariant of the lock while no hand-over has lasted 10000
\* polls.
\*  - tickets are unique, and the one being served is at most the next one;
\*  - whoever is in front holds the ticket being served, so there is at most
\*    one such thread;
\*  - whoever is inside is on record as the owner;
\*  - what a waiter has seen of the service registrar is not ahead of it;
\*  - who is about to skip others from the ticket still being served knows
\*    that no live thread holds that ticket.
LockInv ==
  /\ LockTypeOK
  /\ serviceRegistrar <= numberDispenser
  /\ \A t \in Thread : Queued(t) => myNumber[t] < numberDispenser
  /\ \A t, u \in Thread :
       Queued(t) /\ Queued(u) /\ myNumber[t] = myNumber[u] => t = u
  /\ \A t \in Thread : InFront(t) => myNumber[t] = serviceRegistrar
  /\ \A t \in Thread : stage[t] = "critical" => ownerRegistrar = t
  /\ \A t \in Thread :
       stage[t] \in {"behind", "skip"} =>
         currentlyServing[t] < myNumber[t] /\ currentlyServing[t] <= serviceRegistrar
  /\ \A t \in Thread :
       stage[t] = "skip" /\ currentlyServing[t] = serviceRegistrar
         => \A u \in Thread : Queued(u) => myNumber[u] # serviceRegistrar

\* The invariant holds at the start: nobody has a ticket, nobody owns.
LEMMA InitLockInv == LockInit => LockInv
<1> SUFFICES ASSUME LockInit PROVE LockInv
  OBVIOUS
<1>1. slowHandover \in BOOLEAN
  BY Zenon DEF LockInit
<1>2. QED
  BY <1>1 DEF LockInit, LockInv, LockTypeOK, Queued, InFront, Stages

\* Every step keeps the invariant: only AdvanceService and SkipOthers move the
\* service registrar, and nobody else is in front then.
LEMMA NextLockInv ==
  ASSUME LockInv, ~slowHandover', [LockNext]_lockVars
  PROVE  LockInv'
<1> USE SpinAssumption DEF shared, locals, GoOn, ForgetLoads, ForgetLocals
<1>1. ASSUME NEW t \in Thread, CallLock(t) PROVE LockInv'
  BY <1>1 DEF CallLock, LockInv, LockTypeOK, Queued, InFront, Stages
<1>2. ASSUME NEW t \in Thread, DrawNumber(t) PROVE LockInv'
  BY <1>2 DEF DrawNumber, LockInv, LockTypeOK, Queued, InFront, Stages
<1>3. ASSUME NEW t \in Thread, GotSkipped(t) PROVE LockInv'
  BY <1>3 DEF GotSkipped, LockInv, LockTypeOK, Queued, InFront, Stages
<1>4. ASSUME NEW t \in Thread, OurTurn(t) PROVE LockInv'
  BY <1>4 DEF OurTurn, LockInv, LockTypeOK, Queued, InFront, Stages
<1>5. ASSUME NEW t \in Thread, LoadOwnerAtTurn(t) PROVE LockInv'
  BY <1>5 DEF LoadOwnerAtTurn, LockInv, LockTypeOK, Queued, InFront, Stages
<1>6. ASSUME NEW t \in Thread, ClaimOwnership(t) PROVE LockInv'
  BY <1>6 DEF ClaimOwnership, LockInv, LockTypeOK, Queued, InFront, Stages
<1>7. ASSUME NEW t \in Thread, ClaimFails(t) PROVE LockInv'
  BY <1>7 DEF ClaimFails, LockInv, LockTypeOK, Queued, InFront, Stages
<1>8. ASSUME NEW t \in Thread, PolledLong(t) PROVE LockInv'
  BY <1>8 DEF PolledLong, LockInv, LockTypeOK, Queued, InFront, Stages
<1>9. ASSUME NEW t \in Thread, OwnerAlive(t) PROVE LockInv'
  BY <1>9 DEF OwnerAlive, LockInv, LockTypeOK, Queued, InFront, Stages
<1>10. ASSUME NEW t \in Thread, OwnerGone(t) PROVE LockInv'
  <2>1. slowHandover' \in BOOLEAN
    BY <1>10, Zenon DEF OwnerGone
  <2>2. ~HandingOverBefore(t)
    BY <1>10, Zenon DEF OwnerGone
  <2>3. QED
    BY <1>10, <2>1, <2>2 DEF OwnerGone, HandingOverBefore, Running, LockInv,
       LockTypeOK, Queued, InFront, Stages
<1>11. ASSUME NEW t \in Thread, SkipOthers(t) PROVE LockInv'
  BY <1>11 DEF SkipOthers, LockInv, LockTypeOK, Queued, InFront, Stages
<1>12. ASSUME NEW t \in Thread, SkipFails(t) PROVE LockInv'
  BY <1>12 DEF SkipFails, LockInv, LockTypeOK, Queued, InFront, Stages
<1>13. ASSUME NEW t \in Thread, ClearOwner(t) PROVE LockInv'
  BY <1>13 DEF ClearOwner, LockInv, LockTypeOK, Queued, InFront, Stages
<1>14. ASSUME NEW t \in Thread, AdvanceService(t) PROVE LockInv'
  BY <1>14 DEF AdvanceService, LockInv, LockTypeOK, Queued, InFront, Stages
<1>15. ASSUME NEW t \in Thread, Die(t) PROVE LockInv'
  BY <1>15 DEF Die, LockInv, LockTypeOK, Queued, InFront, Stages
<1>16. CASE UNCHANGED lockVars
  BY <1>16 DEF lockVars, LockInv, LockTypeOK, Queued, InFront
<1>17. QED
  BY <1>1, <1>2, <1>3, <1>4, <1>5, <1>6, <1>7, <1>8, <1>9, <1>10, <1>11,
     <1>12, <1>13, <1>14, <1>15, <1>16 DEF LockNext, LockStep

\* Every variable keeps its type, whatever the delays.
LEMMA NextLockTypeOK == LockTypeOK /\ [LockNext]_lockVars => LockTypeOK'
<1> USE SpinAssumption DEF shared, locals, GoOn, ForgetLoads, ForgetLocals, LockTypeOK, Stages
<1> SUFFICES ASSUME LockTypeOK, [LockNext]_lockVars PROVE LockTypeOK'
  OBVIOUS
<1>1. ASSUME NEW t \in Thread, CallLock(t) \/ DrawNumber(t) \/ Die(t)
      PROVE  LockTypeOK'
  BY <1>1 DEF CallLock, DrawNumber, Die
<1>2. ASSUME NEW t \in Thread,
             GotSkipped(t) \/ OurTurn(t) \/ PolledLong(t) \/ LoadOwnerAtTurn(t)
      PROVE  LockTypeOK'
  BY <1>2 DEF GotSkipped, OurTurn, PolledLong, LoadOwnerAtTurn
<1>3. ASSUME NEW t \in Thread,
             ClaimOwnership(t) \/ ClaimFails(t) \/ OwnerAlive(t)
      PROVE  LockTypeOK'
  BY <1>3 DEF ClaimOwnership, ClaimFails, OwnerAlive
<1>4. ASSUME NEW t \in Thread, OwnerGone(t)
      PROVE  LockTypeOK'
  <2>1. slowHandover' \in BOOLEAN
    BY <1>4, Zenon DEF OwnerGone
  <2>2. QED
    BY <1>4, <2>1 DEF OwnerGone
<1>5. ASSUME NEW t \in Thread,
             SkipOthers(t) \/ SkipFails(t) \/ ClearOwner(t) \/ AdvanceService(t)
      PROVE  LockTypeOK'
  BY <1>5 DEF SkipOthers, SkipFails, ClearOwner, AdvanceService
<1>6. CASE UNCHANGED lockVars
  BY <1>6 DEF lockVars
<1>7. QED
  BY <1>1, <1>2, <1>3, <1>4, <1>5, <1>6 DEF LockNext, LockStep

\* The three words and the locals of lock() keep their types, with any
\* delays and any deaths (the registers of BoostSharedMemoryChain_SpinLock).
THEOREM LockTypeCorrect == LockSpec => []LockTypeOK
<1>1. LockInit => LockTypeOK
  BY InitLockInv DEF LockInv
<1>2. QED
  BY <1>1, NextLockTypeOK, PTL DEF LockSpec

\* Until a hand-over lasts as long as a waiter's 10000 polls, at most one live
\* thread is inside and the owner registrar names it, wherever other processes
\* die and whoever takes over.
THEOREM LockIsExclusive == LockSpec => []MutualExclusion
<1> DEFINE Guarded == slowHandover \/ LockInv
<1>1. LockInit => Guarded
  BY InitLockInv
<1>2. Guarded /\ [LockNext]_lockVars => Guarded'
  <2> SUFFICES ASSUME Guarded, [LockNext]_lockVars, ~slowHandover' PROVE LockInv'
    OBVIOUS
  <2>1. ~slowHandover
    BY DEF LockNext, LockStep, lockVars, shared, locals, CallLock, DrawNumber, GotSkipped,
       OurTurn, LoadOwnerAtTurn, ClaimOwnership, ClaimFails, PolledLong,
       OwnerAlive, OwnerGone, SkipOthers, SkipFails, ClearOwner,
       AdvanceService, Die
  <2>2. QED
    BY <2>1, NextLockInv
<1>3. Guarded => MutualExclusion
  BY DEF LockInv, MutualExclusion, Queued, InFront, LockTypeOK
<1>4. QED
  BY <1>1, <1>2, <1>3, PTL DEF LockSpec

\* Whatever the delays, the service registrar never goes back: a waiter
\* moves it from the value it saw in front of its own ticket only.
WaitersAreBehind ==
  \A t \in Thread :
    stage[t] \in {"behind", "skip"} => currentlyServing[t] < myNumber[t]

\* Only the poll that completes the count loads the service number, and it
\* found it below the waiter's own; every step keeps that.
LEMMA NextWaitersAreBehind ==
  ASSUME LockTypeOK, WaitersAreBehind, [LockNext]_lockVars
  PROVE  WaitersAreBehind'
<1> USE DEF LockTypeOK, WaitersAreBehind, GoOn, ForgetLoads, ForgetLocals, shared, locals, Stages
<1>1. ASSUME NEW t \in Thread, CallLock(t) \/ DrawNumber(t) \/ Die(t)
      PROVE  WaitersAreBehind'
  BY <1>1 DEF CallLock, DrawNumber, Die
<1>2. ASSUME NEW t \in Thread, PolledLong(t) \/ OwnerAlive(t) \/ OwnerGone(t)
      PROVE  WaitersAreBehind'
  BY <1>2 DEF PolledLong, OwnerAlive, OwnerGone
<1>3. ASSUME NEW t \in Thread,
             GotSkipped(t) \/ OurTurn(t) \/ LoadOwnerAtTurn(t)
               \/ ClaimOwnership(t) \/ ClaimFails(t)
      PROVE  WaitersAreBehind'
  BY <1>3 DEF GotSkipped, OurTurn, LoadOwnerAtTurn, ClaimOwnership, ClaimFails
<1>4. ASSUME NEW t \in Thread,
             SkipOthers(t) \/ SkipFails(t) \/ ClearOwner(t) \/ AdvanceService(t)
      PROVE  WaitersAreBehind'
  BY <1>4 DEF SkipOthers, SkipFails, ClearOwner, AdvanceService
<1>5. CASE UNCHANGED lockVars
  BY <1>5 DEF lockVars
<1>6. QED
  BY <1>1, <1>2, <1>3, <1>4, <1>5 DEF LockNext, LockStep

\* A ticket that was passed over is never served again (the ground on which
\* a skipped thread gives its ticket up), with any delays and any deaths.
THEOREM ServiceIsMonotonic == LockSpec => ServiceNeverGoesBack
<1>1. LockInit => WaitersAreBehind
  BY DEF LockInit, WaitersAreBehind
<1>2. LockTypeOK /\ WaitersAreBehind /\ [LockNext]_lockVars => WaitersAreBehind'
  BY NextWaitersAreBehind
<1>3. LockTypeOK /\ WaitersAreBehind /\ [LockNext]_lockVars
        => [serviceRegistrar' >= serviceRegistrar]_lockVars
  <2> SUFFICES ASSUME LockTypeOK, WaitersAreBehind, LockNext
               PROVE  serviceRegistrar' >= serviceRegistrar
    BY DEF lockVars
  <2> USE DEF LockTypeOK, WaitersAreBehind, shared
  <2>1. ASSUME NEW t \in Thread, SkipOthers(t)
        PROVE  serviceRegistrar' >= serviceRegistrar
    BY <2>1 DEF SkipOthers
  <2>2. ASSUME NEW t \in Thread, AdvanceService(t)
        PROVE  serviceRegistrar' >= serviceRegistrar
    BY <2>2 DEF AdvanceService
  <2>3. ASSUME UNCHANGED serviceRegistrar
        PROVE  serviceRegistrar' >= serviceRegistrar
    BY <2>3
  <2>4. QED
    BY <2>1, <2>2, <2>3 DEF LockNext, LockStep, CallLock, Die, DrawNumber, GotSkipped,
       OurTurn, LoadOwnerAtTurn, ClaimOwnership, ClaimFails, PolledLong,
       OwnerAlive, OwnerGone, SkipFails, ClearOwner
<1>4. QED
  BY <1>1, <1>2, <1>3, LockTypeCorrect, PTL DEF LockSpec, ServiceNeverGoesBack

-----------------------------------------------------------------------------
(* The extra data.                                                         *)

Word == 0..(MaxSaves + 1)

\* What a client has written or read so far are words.
GotWords == got \in [User -> Seq(Word)]

\* Who is between the construction and the end of its guard.  A view of
\* bytes is read when the guard is gone, an object while it is there.
InGuard(c) ==
  \/ doing[c] \in {"replace", "construct", "write"}
  \/ doing[c] = "find" /\ ~lockFree
  \/ doing[c] = "read" /\ ~lockFree /\ inPlace

OneInGuard ==
  /\ \A c \in User : InGuard(c) => holder = c
  /\ lockFree => \A c \in User : ~InGuard(c)
  /\ ~lockFree => \A c \in User : doing[c] \notin {"publish", "wrote"}

\* A save that is under way has its datum, and the block it is about.
SaveIsTrue(c) ==
  /\ doing[c] \in {"save", "replace", "construct"} => got[c] = <<>>
  /\ doing[c] \in {"save", "replace", "construct", "write", "publish", "wrote"} =>
       datum[c] # <<>> /\ (inPlace => Len(datum[c]) = 2)
  /\ doing[c] \in {"replace", "write"} => at[c] = key /\ key # None
  /\ doing[c] = "construct" => key = None
  /\ doing[c] = "replace" => ~inPlace
  /\ doing[c] = "write" =>
       /\ Len(mem[key]) = Len(datum[c])
       /\ Len(got[c]) <= Len(datum[c])
       /\ \A i \in 1..Len(got[c]) : mem[key][i] = datum[c][i]
  /\ doing[c] \in {"publish", "wrote"} => at[c] # None /\ mem[at[c]] = datum[c]
  /\ doing[c] = "wrote" => offset

Saves == \A c \in User : SaveIsTrue(c)

\* Where the key leads there is a datum, and who sees no key comes before
\* the first save has ended.
KeyLeadsToData ==
  /\ key # None => mem[key] # <<>> /\ (inPlace => Len(mem[key]) = 2)
  /\ ~lockFree /\ key = None =>
       saved = <<>> \/ \E c \in User : doing[c] = "construct"
  /\ lockFree /\ ~offset => saved = <<>>
  /\ \A c \in User : since[c] <= Len(saved)

\* The cases in which the code keeps its word: objects under a lock, and a
\* key that is there already without one.
Kept == IF lockFree THEN keyWasThere ELSE inPlace

\* Unless somebody is writing to it, the block of the key holds the last
\* datum that was saved.
KeyLeadsToLast ==
  /\ Kept /\ key # None =>
       \/ ~lockFree /\ \E c \in User : doing[c] = "write"
       \/ saved # <<>> /\ mem[key] = saved[Len(saved)]
  /\ Kept /\ lockFree => offset /\ key # None

\* A load reads a block that holds a datum not superseded when it began.
LoadIsTrue(c) ==
  /\ doing[c] \in {"load", "find"} => got[c] = <<>>
  /\ doing[c] = "read" =>
       /\ at[c] # None
       /\ ~lockFree => at[c] = key
       /\ size[c] = Len(mem[at[c]]) /\ Len(got[c]) <= size[c]
       /\ \A i \in 1..Len(got[c]) : got[c][i] = mem[at[c]][i]
       /\ \E i \in 1..Len(saved) : i >= since[c] /\ mem[at[c]] = saved[i]
  /\ doing[c] = "done" =>
       \E i \in 1..Len(saved) : i >= since[c] /\ got[c] = saved[i]

Loads == Kept => \A c \in User : LoadIsTrue(c)

\* The inductive invariant.
DataInv == /\ DataTypeOK /\ GotWords /\ OneInGuard /\ Saves /\ KeyLeadsToData
          /\ KeyLeadsToLast /\ Loads

-----------------------------------------------------------------------------
\* Data are sequences of one or two words.
LEMMA DataAreSequences ==
  /\ \A w \in Words : /\ w \in Seq(Word) /\ w # <<>> /\ Len(w) \in {1, 2}
                      /\ DOMAIN w = 1..Len(w)
  /\ \A v \in Word, n \in {1, 2} : Whole(v, n) \in Words /\ Len(Whole(v, n)) = n
<1>1. ASSUME NEW w \in Words
      PROVE  w \in Seq(Word) /\ w # <<>> /\ Len(w) \in {1, 2} /\ DOMAIN w = 1..Len(w)
  <2>1. PICK n \in {1, 2} : w \in [1..n -> Word]
    BY DEF Words, Word
  <2>2. n \in Nat /\ n >= 1
    OBVIOUS
  <2>3. w \in Seq(Word) /\ Len(w) = n /\ DOMAIN w = 1..n
    BY <2>1, <2>2
  <2>4. QED
    BY <2>2, <2>3
<1>2. ASSUME NEW v \in Word, NEW n \in {1, 2}
      PROVE  Whole(v, n) \in Words /\ Len(Whole(v, n)) = n
  <2>1. Whole(v, n) \in [1..n -> Word]
    BY DEF Whole
  <2>2. n \in Nat
    OBVIOUS
  <2>3. Whole(v, n) \in Seq(Word) /\ Len(Whole(v, n)) = n
    BY <2>1, <2>2
  <2>4. QED
    BY <2>1, <2>3 DEF Words, Word
<1>3. QED
  BY <1>1, <1>2

\* Copying a word into a datum, or at the end of what has been copied.
LEMMA OneWordMore ==
  ASSUME NEW w \in Words, NEW g \in Seq(Word), NEW x \in Word, Len(g) < Len(w)
  PROVE  /\ [w EXCEPT ![Len(g) + 1] = x] \in Words
         /\ Len([w EXCEPT ![Len(g) + 1] = x]) = Len(w)
         /\ [w EXCEPT ![Len(g) + 1] = x][Len(g) + 1] = x
         /\ \A i \in 1..Len(g) : [w EXCEPT ![Len(g) + 1] = x][i] = w[i]
         /\ Append(g, x) \in Seq(Word) /\ Len(Append(g, x)) = Len(g) + 1
         /\ Append(g, x)[Len(g) + 1] = x
         /\ \A i \in 1..Len(g) : Append(g, x)[i] = g[i]
         /\ Len(g) + 1 \in 1..Len(w) /\ Len(g) + 1 <= 2
<1>1. PICK n \in {1, 2} : w \in [1..n -> Word]
  BY DEF Words, Word
<1>2. n \in Nat /\ Len(w) = n /\ DOMAIN w = 1..n /\ Len(g) \in Nat
  BY <1>1
<1>3. Len(g) + 1 \in 1..n /\ Len(g) + 1 <= 2
  BY <1>2
<1>4. [w EXCEPT ![Len(g) + 1] = x] \in [1..n -> Word]
  BY <1>1, <1>3
<1>5. [w EXCEPT ![Len(g) + 1] = x] \in Words
  BY <1>4 DEF Words, Word
<1>6. Len([w EXCEPT ![Len(g) + 1] = x]) = n
  BY <1>2, <1>4
<1>7. /\ [w EXCEPT ![Len(g) + 1] = x][Len(g) + 1] = x
      /\ \A i \in 1..Len(g) : [w EXCEPT ![Len(g) + 1] = x][i] = w[i]
  BY <1>1, <1>2, <1>3
<1>8. /\ Append(g, x) \in Seq(Word) /\ Len(Append(g, x)) = Len(g) + 1
      /\ Append(g, x)[Len(g) + 1] = x
      /\ \A i \in 1..Len(g) : Append(g, x)[i] = g[i]
  OBVIOUS
<1>9. QED
  BY <1>2, <1>3, <1>5, <1>6, <1>7, <1>8

\* What has been copied word by word, to the last one, is the datum.
LEMMA CopiedIsDatum ==
  ASSUME NEW v, NEW w, v \in Seq(Word), w \in Seq(Word), Len(v) = Len(w),
         \A i \in 1..Len(v) : v[i] = w[i]
  PROVE  v = w
  OBVIOUS

-----------------------------------------------------------------------------
\* What the invariant says of a datum and of a block that holds one.
LEMMA TypeFacts ==
  ASSUME DataInv
  PROVE  /\ \A b \in Block : mem[b] = <<>> \/ mem[b] \in Words
         /\ \A c \in User : datum[c] = <<>> \/ datum[c] \in Words
         /\ \A c \in User : got[c] \in Seq(Word) /\ Len(got[c]) \in 0..2
         /\ \A c \in User : at[c] # None => at[c] \in Block
         /\ key # None => key \in Block /\ mem[key] \in Words
         /\ \A i \in 1..Len(saved) : saved[i] \in Words
         /\ Len(saved) \in Nat
<1>1. /\ \A b \in Block : mem[b] = <<>> \/ mem[b] \in Words
      /\ \A c \in User : datum[c] = <<>> \/ datum[c] \in Words
      /\ \A c \in User : at[c] # None => at[c] \in Block
      /\ key # None => key \in Block
  BY DEF DataInv, DataTypeOK
<1>2. ASSUME NEW c \in User PROVE got[c] \in Seq(Word) /\ Len(got[c]) \in 0..2
  <2>1. got[c] \in Seq(Word) /\ Len(got[c]) <= 2
    BY DEF DataInv, DataTypeOK, GotWords
  <2>2. Len(got[c]) \in Nat
    BY <2>1
  <2>3. \A n \in Nat : n <= 2 => n \in 0..2
    OBVIOUS
  <2>4. QED
    BY <2>1, <2>2, <2>3
<1>3. key # None => mem[key] \in Words
  BY <1>1 DEF DataInv, KeyLeadsToData
<1>4. saved \in Seq(Words)
  BY DEF DataInv, DataTypeOK
<1>5. (\A i \in 1..Len(saved) : saved[i] \in Words) /\ Len(saved) \in Nat
  BY <1>4
<1>6. QED
  BY <1>1, <1>2, <1>3, <1>5

\* A client that does not take part in a step is not disturbed by it, as
\* long as nobody touches what it guards, or a block that has been filled.
LEMMA OthersStay ==
  ASSUME DataInv, NEW d \in User,
         UNCHANGED <<setting, doing[d], datum[d], at[d], size[d], got[d], since[d]>>,
         InGuard(d) => mem' = mem /\ key' = key,
         lockFree /\ at[d] # None /\ mem[at[d]] # <<>> => mem'[at[d]] = mem[at[d]],
         offset => offset', Len(saved) <= Len(saved'), Len(saved') \in Nat,
         \A i \in 1..Len(saved) : saved'[i] = saved[i]
  PROVE  SaveIsTrue(d)' /\ (Kept => LoadIsTrue(d)') /\ (InGuard(d)' <=> InGuard(d))
<1>1. UNCHANGED <<lockFree, inPlace, keyWasThere>>
  BY DEF setting
<1>2. InGuard(d)' <=> InGuard(d)
  BY <1>1 DEF InGuard
<1>3. SaveIsTrue(d)'
  <2>1. SaveIsTrue(d)
    BY DEF DataInv, Saves
  <2>2. doing[d] \in {"publish", "wrote"} => lockFree
    BY DEF DataInv, OneInGuard
  <2>3. QED
    BY <1>1, <2>1, <2>2 DEF SaveIsTrue, InGuard
<1>4. ASSUME Kept PROVE LoadIsTrue(d)'
  <2>1. LoadIsTrue(d)
    BY <1>4 DEF DataInv, Loads
  <2>2. Len(saved) \in Nat /\ \A i \in 1..Len(saved) : saved[i] # <<>> /\ i \in 1..Len(saved')
    BY TypeFacts, DataAreSequences
  <2>3. doing[d] = "read" => mem'[at[d]] = mem[at[d]] /\ (~lockFree => key' = key)
    BY <1>4, <2>1, <2>2 DEF LoadIsTrue, InGuard, Kept
  <2>4. doing[d] = "read" =>
          \E i \in 1..Len(saved') : i >= since[d] /\ mem'[at[d]] = saved'[i]
    BY <2>1, <2>2, <2>3 DEF LoadIsTrue
  <2>5. doing[d] = "done" => \E i \in 1..Len(saved') : i >= since[d] /\ got[d] = saved'[i]
    BY <2>1, <2>2 DEF LoadIsTrue
  <2>6. QED
    BY <1>1, <2>1, <2>3, <2>4, <2>5 DEF LoadIsTrue
<1>5. QED
  BY <1>2, <1>3, <1>4

\* A step of c that begins or ends its guard does so only when nobody else
\* has it.
LEMMA GuardStays ==
  ASSUME DataInv, NEW c \in User, UNCHANGED setting,
         \A d \in User \ {c} : doing'[d] = doing[d] /\ (InGuard(d)' <=> InGuard(d)),
         InGuard(c)' => holder' = c,
         holder' = holder \/ holder = None \/ holder = c,
         lockFree => ~InGuard(c)',
         ~lockFree => doing'[c] \notin {"publish", "wrote"}
  PROVE  OneInGuard'
<1>1. lockFree' = lockFree
  BY DEF setting
<1>2. ASSUME NEW d \in User, InGuard(d)' PROVE holder' = d
  <2>1. CASE d = c
    BY <1>2, <2>1
  <2>2. CASE d # c
    <3>1. holder = d /\ d # None
      BY <1>2, <2>2, ExtraDataAssumption DEF DataInv, OneInGuard
    <3>2. QED
      BY <2>2, <3>1
  <2>3. QED
    BY <2>1, <2>2
<1>3. lockFree' => \A d \in User : ~InGuard(d)'
  BY <1>1 DEF DataInv, OneInGuard
<1>4. ~lockFree' => \A d \in User : doing'[d] \notin {"publish", "wrote"}
  BY <1>1 DEF DataInv, OneInGuard
<1>5. QED
  BY <1>2, <1>3, <1>4 DEF OneInGuard

\* A step of c that leaves the memory alone.
LEMMA QuietStep ==
  ASSUME DataInv, NEW c \in User, UNCHANGED <<setting, mem, key, saved>>,
         offset' \in {offset, TRUE}, doing[c] \notin {"construct", "write"},
         \A d \in User \ {c} : UNCHANGED <<doing[d], datum[d], at[d], size[d],
                                             got[d], since[d]>>,
         DataTypeOK', GotWords',
         InGuard(c)' => holder' = c,
         holder' = holder \/ holder = None \/ holder = c,
         lockFree => ~InGuard(c)',
         ~lockFree => doing'[c] \notin {"publish", "wrote"},
         since'[c] <= Len(saved),
         SaveIsTrue(c)', Kept => LoadIsTrue(c)'
  PROVE  DataInv'
<1>1. UNCHANGED <<lockFree, inPlace, keyWasThere>> /\ (Kept' <=> Kept)
  BY DEF setting, Kept
<1>2. Len(saved) \in Nat
  BY TypeFacts
<1>3. \A d \in User \ {c} :
        SaveIsTrue(d)' /\ (Kept => LoadIsTrue(d)') /\ (InGuard(d)' <=> InGuard(d))
  <2>1. offset => offset'
    OBVIOUS
  <2>2. Len(saved) <= Len(saved') /\ Len(saved') \in Nat
    BY <1>2
  <2>3. QED
    BY <2>1, <2>2, OthersStay
<1>4. OneInGuard'
  BY <1>3, GuardStays
<1>5. Saves' /\ Loads'
  BY <1>1, <1>3 DEF Saves, Loads
<1>6. \A d \in User : doing[d] \in {"construct", "write"} => doing'[d] = doing[d]
  OBVIOUS
<1>7. KeyLeadsToData'
  <2>1. \A d \in User : since'[d] <= Len(saved')
    BY DEF DataInv, KeyLeadsToData
  <2>2. QED
    BY <1>1, <1>6, <2>1 DEF DataInv, KeyLeadsToData
<1>8. KeyLeadsToLast'
  BY <1>1, <1>6 DEF DataInv, KeyLeadsToLast
<1>9. QED
  BY <1>4, <1>5, <1>7, <1>8 DEF DataInv

-----------------------------------------------------------------------------
\* The steps of a load keep the invariant.
LEMMA LoadKeepsDataInv ==
  ASSUME DataInv, NEW c \in User,
         \/ BeginLoad(c) \/ LockForLoad(c) \/ FindNothing(c) \/ FindForLoad(c)
         \/ ReadWord(c) \/ EndLoad(c)
  PROVE  DataInv'
<1>1. CASE BeginLoad(c)
  <2>1. /\ doing[c] \in {"idle", "done"}
        /\ since' = [since EXCEPT ![c] = Len(saved)] /\ got' = [got EXCEPT ![c] = <<>>]
        /\ doing' = [doing EXCEPT ![c] = "load"]
        /\ UNCHANGED <<setting, mem, key, offset, holder, datum, at, size, saved>>
    BY <1>1 DEF BeginLoad, Goto
  <2>2. DataTypeOK' /\ GotWords'
    <3>1. Len(saved) \in Nat /\ <<>> \in Seq(Word) /\ Len(<<>>) = 0
      BY TypeFacts
    <3>2. doing' \in [User -> Doings] /\ since' \in [User -> Nat]
      BY <2>1, <3>1 DEF DataInv, DataTypeOK, Doings
    <3>3. GotWords' /\ \A d \in User : Len(got'[d]) <= 2
      BY <2>1, <3>1 DEF DataInv, DataTypeOK, GotWords
    <3>4. QED
      BY <2>1, <3>2, <3>3 DEF DataInv, DataTypeOK, setting
  <2>3. /\ doing'[c] = "load" /\ got'[c] = <<>> /\ since'[c] = Len(saved)
        /\ \A d \in User \ {c} : UNCHANGED <<doing[d], datum[d], at[d], size[d],
                                               got[d], since[d]>>
    BY <2>1 DEF DataInv, DataTypeOK, GotWords
  <2>4. SaveIsTrue(c)' /\ LoadIsTrue(c)' /\ ~InGuard(c)'
    BY <2>3 DEF SaveIsTrue, LoadIsTrue, InGuard
  <2>5. Len(saved) <= Len(saved)
    BY TypeFacts
  <2>6. QED
    BY <2>1, <2>2, <2>3, <2>4, <2>5, QuietStep
<1>2. CASE LockForLoad(c)
  <2>1. /\ doing[c] = "load" /\ Acquire(c) /\ doing' = [doing EXCEPT ![c] = "find"]
        /\ UNCHANGED <<setting, mem, key, offset, datum, at, size, got, saved, since>>
    BY <1>2 DEF LockForLoad, Goto
  <2>2. DataTypeOK' /\ GotWords'
    <3>1. doing' \in [User -> Doings] /\ holder' \in User \cup {None}
      BY <2>1 DEF DataInv, DataTypeOK, Doings, Acquire
    <3>2. QED
      BY <2>1, <3>1 DEF DataInv, DataTypeOK, GotWords, setting
  <2>3. doing'[c] = "find" /\ \A d \in User \ {c} : doing'[d] = doing[d]
    BY <2>1 DEF DataInv, DataTypeOK
  <2>4. SaveIsTrue(c)' /\ (Kept => LoadIsTrue(c)')
    BY <2>1, <2>3 DEF SaveIsTrue, LoadIsTrue, DataInv, Loads
  <2>5. InGuard(c)' => ~lockFree /\ holder = None /\ holder' = c
    BY <2>1, <2>3 DEF InGuard, Acquire, setting
  <2>6. holder' = holder \/ holder = None
    BY <2>1 DEF Acquire
  <2>7. since'[c] <= Len(saved)
    BY <2>1 DEF DataInv, KeyLeadsToData
  <2>8. QED
    BY <2>1, <2>2, <2>3, <2>4, <2>5, <2>6, <2>7, QuietStep
<1>3. CASE FindNothing(c)
  <2>1. /\ doing[c] = "find" /\ Release /\ doing' = [doing EXCEPT ![c] = "idle"]
        /\ UNCHANGED <<setting, mem, key, offset, datum, at, size, got, saved, since>>
    BY <1>3 DEF FindNothing, Goto
  <2>2. DataTypeOK' /\ GotWords'
    <3>1. doing' \in [User -> Doings] /\ holder' \in User \cup {None}
      BY <2>1 DEF DataInv, DataTypeOK, Doings, Release
    <3>2. QED
      BY <2>1, <3>1 DEF DataInv, DataTypeOK, GotWords, setting
  <2>3. doing'[c] = "idle" /\ \A d \in User \ {c} : doing'[d] = doing[d]
    BY <2>1 DEF DataInv, DataTypeOK
  <2>4. SaveIsTrue(c)' /\ LoadIsTrue(c)' /\ ~InGuard(c)'
    BY <2>3 DEF SaveIsTrue, LoadIsTrue, InGuard
  <2>5. holder' = holder \/ holder = c
    BY <2>1 DEF Release, DataInv, OneInGuard, InGuard
  <2>6. since'[c] <= Len(saved)
    BY <2>1 DEF DataInv, KeyLeadsToData
  <2>7. QED
    BY <2>1, <2>2, <2>3, <2>4, <2>5, <2>6, QuietStep
<1>4. CASE FindForLoad(c)
  <2>1. /\ doing[c] = "find" /\ doing' = [doing EXCEPT ![c] = "read"]
        /\ IF lockFree THEN offset ELSE key # None
        /\ at' = [at EXCEPT ![c] = key]
        /\ size' = [size EXCEPT ![c] = IF key = None THEN 1 ELSE Len(mem[key])]
        /\ IF inPlace THEN UNCHANGED holder ELSE Release
        /\ UNCHANGED <<setting, mem, key, offset, datum, got, saved, since>>
    BY <1>4 DEF FindForLoad, Goto
  <2>2. key # None => Len(mem[key]) \in {1, 2}
    BY TypeFacts, DataAreSequences
  <2>3. DataTypeOK' /\ GotWords'
    <3>1. doing' \in [User -> Doings] /\ holder' \in User \cup {None}
      BY <2>1 DEF DataInv, DataTypeOK, Doings, Release
    <3>2. at' \in [User -> Block \cup {None}] /\ size' \in [User -> 0..2]
      BY <2>1, <2>2 DEF DataInv, DataTypeOK
    <3>3. QED
      BY <2>1, <3>1, <3>2 DEF DataInv, DataTypeOK, GotWords, setting
  <2>4. /\ doing'[c] = "read" /\ at'[c] = key /\ (key # None => size'[c] = Len(mem[key]))
        /\ \A d \in User \ {c} : UNCHANGED <<doing[d], at[d], size[d]>>
    BY <2>1 DEF DataInv, DataTypeOK
  <2>5. SaveIsTrue(c)'
    BY <2>4 DEF SaveIsTrue
  <2>6. ASSUME Kept PROVE LoadIsTrue(c)'
    <3>1. key # None /\ got[c] = <<>>
      BY <2>1, <2>6 DEF DataInv, KeyLeadsToLast, Loads, LoadIsTrue
    <3>2. ~lockFree => \A d \in User : doing[d] # "write"
      <4>1. ~lockFree => holder = c
        BY <2>1 DEF DataInv, OneInGuard, InGuard
      <4>2. QED
        BY <2>1, <4>1 DEF DataInv, OneInGuard, InGuard
    <3>3. saved # <<>> /\ mem[key] = saved[Len(saved)]
      BY <2>6, <3>1, <3>2 DEF DataInv, KeyLeadsToLast
    <3>4. Len(saved) \in 1..Len(saved) /\ Len(saved) >= since[c]
      <4>1. saved \in Seq(Words) /\ since[c] \in Nat /\ since[c] <= Len(saved)
        BY DEF DataInv, DataTypeOK, KeyLeadsToData
      <4>2. QED
        BY <3>3, <4>1
    <3>5. Len(<<>>) = 0 /\ 1..0 = {} /\ Len(mem[key]) >= 0
      BY <2>2, <3>1
    <3>6. QED
      BY <2>1, <2>4, <3>1, <3>3, <3>4, <3>5 DEF LoadIsTrue
  <2>7. /\ InGuard(c)' => holder' = c
        /\ holder' = holder \/ holder = c
        /\ lockFree => ~InGuard(c)'
    BY <2>1, <2>4 DEF InGuard, Release, DataInv, OneInGuard, setting
  <2>8. since'[c] <= Len(saved)
    BY <2>1 DEF DataInv, KeyLeadsToData
  <2>9. QED
    BY <2>1, <2>3, <2>4, <2>5, <2>6, <2>7, <2>8, QuietStep
<1>5. CASE ReadWord(c)
  <2> DEFINE i == Len(got[c]) + 1
             there == at[c] # None /\ i <= Len(mem[at[c]])
             w == IF there THEN mem[at[c]][i] ELSE Junk
  <2>1. /\ doing[c] = "read" /\ Len(got[c]) < size[c]
        /\ got' = [got EXCEPT ![c] = Append(got[c], w)]
        /\ UNCHANGED <<setting, mem, key, offset, holder, doing, datum, at, size,
                       saved, since>>
    BY <1>5 DEF ReadWord
  <2>2. /\ got[c] \in Seq(Word) /\ Len(got[c]) \in 0..2 /\ size[c] \in 0..2
        /\ i \in Nat /\ i >= 1
    BY TypeFacts DEF DataInv, DataTypeOK
  <2>3. w \in Word
    <3>1. CASE there
      <4>1. mem[at[c]] \in Words
        <5>1. Len(<<>>) = 0
          OBVIOUS
        <5>2. mem[at[c]] = <<>> => ~there
          BY <2>2, <5>1
        <5>3. QED
          BY <3>1, <5>2, TypeFacts
      <4>2. mem[at[c]] \in Seq(Word) /\ i \in 1..Len(mem[at[c]])
        BY <2>2, <3>1, <4>1, DataAreSequences
      <4>3. QED
        BY <3>1, <4>2
    <3>2. CASE ~there
      BY <3>2, ExtraDataAssumption DEF Junk, Word
    <3>3. QED
      BY <3>1, <3>2
  <2> HIDE DEF w
  <2>4. /\ Append(got[c], w) \in Seq(Word)
        /\ Len(Append(got[c], w)) = i /\ Append(got[c], w)[i] = w
        /\ \A j \in 1..Len(got[c]) : Append(got[c], w)[j] = got[c][j]
    BY <2>2, <2>3
  <2>5. DataTypeOK' /\ GotWords'
    <3>1. \A d \in User : got'[d] \in Seq(Word) /\ Len(got'[d]) <= 2
      BY <2>1, <2>2, <2>4 DEF DataInv, DataTypeOK, GotWords
    <3>2. GotWords'
      BY <2>1, <2>4 DEF DataInv, GotWords
    <3>3. QED
      BY <2>1, <3>1, <3>2 DEF DataInv, DataTypeOK, setting
  <2>6. /\ got'[c] = Append(got[c], w)
        /\ \A d \in User \ {c} : got'[d] = got[d]
    BY <2>1 DEF DataInv, GotWords
  <2>7. SaveIsTrue(c)'
    BY <2>1 DEF SaveIsTrue
  <2>8. ASSUME Kept PROVE LoadIsTrue(c)'
    <3>1. /\ at[c] # None /\ (~lockFree => at[c] = key)
          /\ size[c] = Len(mem[at[c]])
          /\ \A j \in 1..Len(got[c]) : got[c][j] = mem[at[c]][j]
          /\ \E j \in 1..Len(saved) : j >= since[c] /\ mem[at[c]] = saved[j]
      BY <2>1, <2>8 DEF DataInv, Loads, LoadIsTrue
    <3>2. i <= size[c] /\ w = mem[at[c]][i]
      BY <2>1, <2>2, <3>1 DEF w
    <3>3. \A j \in 1..i : j = i \/ j \in 1..Len(got[c])
      BY <2>2
    <3>4. \A j \in 1..Len(got'[c]) : got'[c][j] = mem[at[c]][j]
      BY <2>4, <2>6, <3>1, <3>2, <3>3
    <3>5. Len(got'[c]) <= size[c]
      BY <2>4, <2>6, <3>2
    <3>6. QED
      BY <2>1, <3>1, <3>4, <3>5 DEF LoadIsTrue, setting
  <2>9. (InGuard(c)' => holder' = c) /\ (lockFree => ~InGuard(c)')
    BY <2>1 DEF InGuard, DataInv, OneInGuard, setting
  <2>10. since'[c] <= Len(saved)
    BY <2>1 DEF DataInv, KeyLeadsToData
  <2>11. QED
    BY <2>1, <2>5, <2>6, <2>7, <2>8, <2>9, <2>10, QuietStep
<1>6. CASE EndLoad(c)
  <2>1. /\ doing[c] = "read" /\ Len(got[c]) = size[c]
        /\ IF inPlace THEN Release ELSE UNCHANGED holder
        /\ doing' = [doing EXCEPT ![c] = "done"]
        /\ UNCHANGED <<setting, mem, key, offset, datum, at, size, got, saved, since>>
    BY <1>6 DEF EndLoad, Goto
  <2>2. DataTypeOK' /\ GotWords'
    <3>1. doing' \in [User -> Doings] /\ holder' \in User \cup {None}
      BY <2>1 DEF DataInv, DataTypeOK, Doings, Release
    <3>2. QED
      BY <2>1, <3>1 DEF DataInv, DataTypeOK, GotWords, setting
  <2>3. doing'[c] = "done" /\ \A d \in User \ {c} : doing'[d] = doing[d]
    BY <2>1 DEF DataInv, DataTypeOK
  <2>4. SaveIsTrue(c)' /\ ~InGuard(c)'
    BY <2>3 DEF SaveIsTrue, InGuard
  <2>5. ASSUME Kept PROVE LoadIsTrue(c)'
    <3>1. PICK i \in 1..Len(saved) : i >= since[c] /\ mem[at[c]] = saved[i]
      BY <2>1, <2>5 DEF DataInv, Loads, LoadIsTrue
    <3>2. /\ Len(got[c]) = Len(mem[at[c]])
          /\ \A j \in 1..Len(got[c]) : got[c][j] = mem[at[c]][j]
      BY <2>1, <2>5 DEF DataInv, Loads, LoadIsTrue
    <3>3. got[c] \in Seq(Word) /\ mem[at[c]] \in Seq(Word)
      BY <3>1, TypeFacts, DataAreSequences
    <3>4. got[c] = saved[i]
      BY <3>1, <3>2, <3>3, CopiedIsDatum
    <3>5. QED
      BY <2>1, <2>3, <3>1, <3>4 DEF LoadIsTrue
  <2>6. holder' = holder \/ holder = c
    BY <2>1 DEF Release, DataInv, OneInGuard, InGuard
  <2>7. since'[c] <= Len(saved)
    BY <2>1 DEF DataInv, KeyLeadsToData
  <2>8. QED
    BY <2>1, <2>2, <2>3, <2>4, <2>5, <2>6, <2>7, QuietStep
<1>7. QED
  BY <1>1, <1>2, <1>3, <1>4, <1>5, <1>6

\* A step of c that writes: what it guards, or a block nobody has filled.
\* The list of the data saved may grow.
LEMMA WritingStep ==
  ASSUME DataInv, NEW c \in User, UNCHANGED <<setting, offset, size, since>>,
         \A d \in User \ {c} :
           UNCHANGED <<doing[d], datum[d], at[d], got[d]>>,
         \/ InGuard(c)
         \/ lockFree /\ \A b \in Block : mem[b] # <<>> => mem'[b] = mem[b],
         saved' \in Seq(Words), Len(saved) <= Len(saved'),
         \A i \in 1..Len(saved) : saved'[i] = saved[i],
         DataTypeOK', GotWords',
         InGuard(c)' => holder' = c,
         holder' = holder \/ holder = c,
         lockFree => ~InGuard(c)',
         ~lockFree => doing'[c] \notin {"publish", "wrote"},
         SaveIsTrue(c)', Kept => LoadIsTrue(c)',
         KeyLeadsToData', KeyLeadsToLast'
  PROVE  DataInv'
<1>1. UNCHANGED <<lockFree, inPlace, keyWasThere>> /\ (Kept' <=> Kept)
  BY DEF setting, Kept
<1>2. Len(saved') \in Nat
  OBVIOUS
<1>3. ASSUME NEW d \in User \ {c}
      PROVE  SaveIsTrue(d)' /\ (Kept => LoadIsTrue(d)') /\ (InGuard(d)' <=> InGuard(d))
  <2>1. InGuard(d) => mem' = mem /\ key' = key
    <3>1. InGuard(d) => ~InGuard(c) /\ ~lockFree
      BY DEF DataInv, OneInGuard
    <3>2. QED
      BY <3>1
  <2>2. lockFree /\ at[d] # None /\ mem[at[d]] # <<>> => mem'[at[d]] = mem[at[d]]
    <3>1. lockFree => ~InGuard(c)
      BY DEF DataInv, OneInGuard
    <3>2. QED
      BY <3>1, TypeFacts
  <2>3. UNCHANGED <<setting, doing[d], datum[d], at[d], size[d], got[d], since[d]>>
    OBVIOUS
  <2>4. QED
    BY <1>2, <2>1, <2>2, <2>3, OthersStay
<1>4. OneInGuard'
  BY <1>3, GuardStays
<1>5. Saves' /\ Loads'
  BY <1>1, <1>3 DEF Saves, Loads
<1>6. QED
  BY <1>4, <1>5 DEF DataInv

-----------------------------------------------------------------------------
\* The steps of a save keep the invariant.
LEMMA SaveKeepsDataInv ==
  ASSUME DataInv, NEW c \in User,
         \/ BeginSave(c) \/ FindForSave(c) \/ DestroyOld(c) \/ ConstructNew(c)
         \/ WriteWord(c) \/ EndSave(c)
         \/ FillBlock(c) \/ FindOrConstructOffset(c) \/ StoreOffset(c)
  PROVE  DataInv'
<1>0. /\ SaveIsTrue(c) /\ since[c] <= Len(saved) /\ Len(saved) \in Nat
      /\ saved \in Seq(Words) /\ 2 \in Nat
  BY TypeFacts DEF DataInv, Saves, KeyLeadsToData, DataTypeOK
<1>1. CASE BeginSave(c)
  <2>1. PICK v \in 2..(MaxSaves + 1), n \in Length :
          datum' = [datum EXCEPT ![c] = Whole(v, n)]
    BY <1>1 DEF BeginSave
  <2>2. /\ got' = [got EXCEPT ![c] = <<>>] /\ doing' = [doing EXCEPT ![c] = "save"]
        /\ doing[c] \in {"idle", "done"}
        /\ UNCHANGED <<setting, mem, key, offset, holder, at, size, saved, since>>
    BY <1>1 DEF BeginSave, Goto
  <2>3. /\ Whole(v, n) \in Words /\ Len(Whole(v, n)) = n /\ Whole(v, n) # <<>>
        /\ inPlace => n = 2
    <3>1. v \in Word /\ n \in {1, 2} /\ (inPlace => n = 2)
      BY ExtraDataAssumption DEF Word, Length
    <3>2. QED
      BY <3>1, DataAreSequences
  <2> DEFINE w == Whole(v, n)
  <2> HIDE DEF w
  <2>4. DataTypeOK' /\ GotWords'
    <3>1. <<>> \in Seq(Word) /\ Len(<<>>) = 0
      OBVIOUS
    <3>2. doing' \in [User -> Doings] /\ datum' \in [User -> Words \cup {<<>>}]
      BY <2>1, <2>2, <2>3 DEF DataInv, DataTypeOK, Doings
    <3>3. GotWords' /\ \A d \in User : Len(got'[d]) <= 2
      BY <2>2, <3>1 DEF DataInv, DataTypeOK, GotWords
    <3>4. QED
      BY <2>2, <3>2, <3>3 DEF DataInv, DataTypeOK, setting
  <2>5. /\ doing'[c] = "save" /\ got'[c] = <<>> /\ datum'[c] = w
        /\ \A d \in User \ {c} : UNCHANGED <<doing[d], datum[d], got[d]>>
    BY <2>1, <2>2 DEF DataInv, DataTypeOK, GotWords, w
  <2>6. SaveIsTrue(c)' /\ LoadIsTrue(c)' /\ ~InGuard(c)'
    BY <2>2, <2>3, <2>5 DEF SaveIsTrue, LoadIsTrue, InGuard, setting, w
  <2>7. QED
    BY <1>0, <2>2, <2>4, <2>5, <2>6, QuietStep
<1>2. CASE FindForSave(c)
  <2> DEFINE where == IF key = None THEN "construct"
                      ELSE IF Len(mem[key]) = Len(datum[c]) THEN "write" ELSE "replace"
  <2>1. /\ doing[c] = "save" /\ ~lockFree /\ holder = None /\ holder' = c
        /\ at' = [at EXCEPT ![c] = key] /\ doing' = [doing EXCEPT ![c] = where]
        /\ UNCHANGED <<setting, mem, key, offset, datum, size, got, saved, since>>
    BY <1>2 DEF FindForSave, Goto, Acquire
  <2>2. DataTypeOK' /\ GotWords'
    <3>1. doing' \in [User -> Doings] /\ at' \in [User -> Block \cup {None}]
      BY <2>1 DEF DataInv, DataTypeOK, Doings
    <3>2. QED
      BY <2>1, <3>1 DEF DataInv, DataTypeOK, GotWords, setting
  <2>3. /\ doing'[c] = where /\ at'[c] = key
        /\ \A d \in User \ {c} : UNCHANGED <<doing[d], at[d]>>
    BY <2>1 DEF DataInv, DataTypeOK
  <2>4. SaveIsTrue(c)'
    <3>1. got[c] = <<>> /\ datum[c] # <<>> /\ (inPlace => Len(datum[c]) = 2)
      BY <1>0, <2>1 DEF SaveIsTrue
    <3>2. key # None /\ inPlace => Len(mem[key]) = 2
      BY DEF DataInv, KeyLeadsToData
    <3>3. Len(<<>>) = 0 /\ 1..0 = {} /\ Len(datum[c]) >= 0
      BY <3>1, TypeFacts, DataAreSequences
    <3>4. QED
      BY <2>1, <2>3, <3>1, <3>2, <3>3 DEF SaveIsTrue, setting
  <2>5. LoadIsTrue(c)'
    BY <2>3 DEF LoadIsTrue
  <2>6. QED
    BY <1>0, <2>1, <2>2, <2>3, <2>4, <2>5, QuietStep
<1>3. CASE DestroyOld(c)
  <2>1. /\ doing[c] = "replace" /\ mem' = [mem EXCEPT ![at[c]] = <<>>] /\ key' = None
        /\ doing' = [doing EXCEPT ![c] = "construct"]
        /\ UNCHANGED <<setting, offset, holder, datum, at, size, got, saved, since>>
    BY <1>3 DEF DestroyOld, Goto
  <2>2. DataTypeOK' /\ GotWords'
    <3>1. doing' \in [User -> Doings] /\ mem' \in [Block -> Words \cup {<<>>}]
      BY <2>1 DEF DataInv, DataTypeOK, Doings
    <3>2. QED
      BY <2>1, <3>1 DEF DataInv, DataTypeOK, GotWords, setting
  <2>3. doing'[c] = "construct" /\ \A d \in User \ {c} : doing'[d] = doing[d]
    BY <2>1 DEF DataInv, DataTypeOK
  <2>4. InGuard(c) /\ InGuard(c)' /\ ~lockFree /\ holder = c
    BY <2>1, <2>3 DEF InGuard, DataInv, OneInGuard
  <2>5. SaveIsTrue(c)' /\ LoadIsTrue(c)'
    BY <1>0, <2>1, <2>3 DEF SaveIsTrue, LoadIsTrue, setting
  <2>6. ~Kept /\ ~Kept'
    BY <1>0, <2>1, <2>4 DEF SaveIsTrue, Kept, setting
  <2>7. KeyLeadsToData' /\ KeyLeadsToLast'
    <3>1. \A d \in User : since'[d] <= Len(saved')
      BY <2>1 DEF DataInv, KeyLeadsToData
    <3>2. QED
      BY <2>1, <2>3, <2>4, <2>6, <3>1 DEF KeyLeadsToData, KeyLeadsToLast, setting
  <2>8. QED
    BY <1>0, <2>1, <2>2, <2>3, <2>4, <2>5, <2>7, WritingStep
<1>4. CASE ConstructNew(c)
  <2> DEFINE w == Whole(Junk, Len(datum[c]))
  <2>1. PICK b \in {x \in Block : mem[x] = <<>>} :
          /\ mem' = [mem EXCEPT ![b] = w]
          /\ key' = b /\ at' = [at EXCEPT ![c] = b]
    BY <1>4 DEF ConstructNew
  <2>2. /\ doing[c] = "construct" /\ doing' = [doing EXCEPT ![c] = "write"]
        /\ UNCHANGED <<setting, offset, holder, datum, size, got, saved, since>>
    BY <1>4 DEF ConstructNew, Goto
  <2>3. /\ got[c] = <<>> /\ datum[c] # <<>> /\ (inPlace => Len(datum[c]) = 2)
        /\ key = None
    BY <1>0, <2>2 DEF SaveIsTrue
  <2>4. w \in Words /\ Len(w) = Len(datum[c]) /\ w # <<>> /\ Len(datum[c]) >= 0
    <3>1. Junk \in Word
      BY ExtraDataAssumption DEF Junk, Word
    <3>2. Len(datum[c]) \in {1, 2}
      BY <2>3, TypeFacts, DataAreSequences
    <3>3. w \in Words /\ Len(w) = Len(datum[c])
      BY <3>1, <3>2, DataAreSequences
    <3>4. w # <<>>
      BY <3>3, DataAreSequences
    <3>5. Len(datum[c]) >= 0
      BY <3>2
    <3>6. QED
      BY <3>3, <3>4, <3>5
  <2> HIDE DEF w
  <2>5. DataTypeOK' /\ GotWords'
    <3>1. doing' \in [User -> Doings] /\ mem' \in [Block -> Words \cup {<<>>}]
      BY <2>1, <2>2, <2>4 DEF DataInv, DataTypeOK, Doings
    <3>2. at' \in [User -> Block \cup {None}]
      BY <2>1 DEF DataInv, DataTypeOK
    <3>3. QED
      BY <2>1, <2>2, <3>1, <3>2 DEF DataInv, DataTypeOK, GotWords, setting
  <2>6. /\ doing'[c] = "write" /\ at'[c] = b /\ mem'[b] = w /\ b # None
        /\ \A d \in User \ {c} : UNCHANGED <<doing[d], at[d]>>
    BY <2>1, <2>2, ExtraDataAssumption DEF DataInv, DataTypeOK
  <2>7. InGuard(c) /\ InGuard(c)' /\ ~lockFree /\ holder = c
    BY <2>2, <2>6 DEF InGuard, DataInv, OneInGuard
  <2>8. SaveIsTrue(c)' /\ LoadIsTrue(c)'
    <3>1. Len(<<>>) = 0 /\ 1..0 = {}
      OBVIOUS
    <3>2. QED
      BY <2>1, <2>2, <2>3, <2>4, <2>6, <3>1 DEF SaveIsTrue, LoadIsTrue, setting
  <2>9. KeyLeadsToData' /\ KeyLeadsToLast'
    <3>1. \A d \in User : since'[d] <= Len(saved')
      BY <2>2 DEF DataInv, KeyLeadsToData
    <3>2. QED
      BY <2>1, <2>2, <2>3, <2>4, <2>6, <2>7, <3>1
      DEF KeyLeadsToData, KeyLeadsToLast, setting
  <2>10. QED
    BY <1>0, <2>1, <2>2, <2>5, <2>6, <2>7, <2>8, <2>9, WritingStep
<1>5. CASE WriteWord(c)
  <2> DEFINE i == Len(got[c]) + 1
             x == datum[c][i]
             w == [mem[key] EXCEPT ![i] = x]
  <2>1. /\ doing[c] = "write" /\ Len(got[c]) < Len(datum[c])
        /\ mem' = IF i <= Len(mem[at[c]]) THEN [mem EXCEPT ![at[c]][i] = x] ELSE mem
        /\ got' = [got EXCEPT ![c] = Append(got[c], x)]
        /\ UNCHANGED <<setting, key, offset, holder, doing, datum, at, size, saved, since>>
    BY <1>5 DEF WriteWord
  <2>2. /\ at[c] = key /\ key # None /\ datum[c] # <<>>
        /\ Len(mem[key]) = Len(datum[c])
        /\ \A j \in 1..Len(got[c]) : mem[key][j] = datum[c][j]
    BY <1>0, <2>1 DEF SaveIsTrue
  <2>3. /\ key \in Block /\ mem[key] \in Words /\ datum[c] \in Words
        /\ got[c] \in Seq(Word) /\ datum[c] \in Seq(Word)
        /\ Len(got[c]) \in Nat /\ Len(datum[c]) \in Nat
    <3>1. key \in Block /\ mem[key] \in Words /\ datum[c] \in Words
      BY <2>2, TypeFacts
    <3>2. got[c] \in Seq(Word) /\ datum[c] \in Seq(Word)
      BY <3>1, TypeFacts, DataAreSequences
    <3>3. QED
      BY <3>1, <3>2
  <2>4. x \in Word /\ i \in 1..Len(datum[c])
    <3>1. i \in 1..Len(datum[c])
      BY <2>1, <2>3
    <3>2. QED
      BY <2>3, <3>1
  <2> HIDE DEF x
  <2>5. /\ w \in Words /\ Len(w) = Len(mem[key]) /\ w[i] = x
        /\ \A j \in 1..Len(got[c]) : w[j] = mem[key][j]
        /\ Append(got[c], x) \in Seq(Word) /\ Len(Append(got[c], x)) = i
        /\ i <= 2
    BY <2>1, <2>2, <2>3, <2>4, OneWordMore
  <2>6. mem' = [mem EXCEPT ![key] = w]
    BY <2>1, <2>2, <2>3, <2>4
  <2> HIDE DEF w
  <2>7. w # <<>>
    BY <2>5, DataAreSequences
  <2>8. DataTypeOK' /\ GotWords'
    <3>1. mem' \in [Block -> Words \cup {<<>>}]
      BY <2>5, <2>6 DEF DataInv, DataTypeOK
    <3>2. GotWords'
      BY <2>1, <2>5 DEF DataInv, GotWords
    <3>3. \A d \in User : Len(got'[d]) <= 2
      BY <2>1, <2>5 DEF DataInv, DataTypeOK, GotWords
    <3>4. QED
      BY <2>1, <3>1, <3>2, <3>3 DEF DataInv, DataTypeOK, setting
  <2>9. /\ mem'[key] = w /\ got'[c] = Append(got[c], x)
        /\ \A d \in User \ {c} : got'[d] = got[d]
    BY <2>1, <2>3, <2>6 DEF DataInv, DataTypeOK, GotWords
  <2>10. SaveIsTrue(c)' /\ LoadIsTrue(c)'
    <3>1. \A j \in 1..i : j = i \/ j \in 1..Len(got[c])
      BY <2>3
    <3>2. \A j \in 1..Len(got'[c]) : mem'[key][j] = datum[c][j]
      BY <2>2, <2>5, <2>9, <3>1 DEF x
    <3>3. Len(got'[c]) <= Len(datum[c]) /\ Len(mem'[key]) = Len(datum[c])
      BY <2>2, <2>4, <2>5, <2>9
    <3>4. datum[c] # <<>> /\ (inPlace => Len(datum[c]) = 2)
      BY <1>0, <2>1 DEF SaveIsTrue
    <3>5. QED
      BY <2>1, <2>2, <3>2, <3>3, <3>4 DEF SaveIsTrue, LoadIsTrue, setting
  <2>11. InGuard(c) /\ InGuard(c)' /\ ~lockFree /\ holder = c
    BY <2>1 DEF InGuard, DataInv, OneInGuard
  <2>12. KeyLeadsToData' /\ KeyLeadsToLast'
    <3>1. \A d \in User : since'[d] <= Len(saved')
      BY <2>1 DEF DataInv, KeyLeadsToData
    <3>2. inPlace => Len(w) = 2
      BY <2>2, <2>5 DEF DataInv, KeyLeadsToData
    <3>3. QED
      BY <2>1, <2>2, <2>7, <2>9, <2>11, <3>1, <3>2
      DEF KeyLeadsToData, KeyLeadsToLast, setting
  <2>13. UNCHANGED <<setting, doing, datum, at, offset, holder, size, since, saved>>
    BY <2>1
  <2>14. /\ \A d \in User \ {c} : UNCHANGED <<doing[d], datum[d], at[d], got[d]>>
         /\ saved' \in Seq(Words) /\ Len(saved) <= Len(saved')
         /\ \A j \in 1..Len(saved) : saved'[j] = saved[j]
    BY <1>0, <2>9, <2>13
  <2>15. QED
    <3>1. holder' = holder \/ holder = c
      BY <2>13
    <3>2. lockFree => ~InGuard(c)'
      BY <2>11
    <3>3. InGuard(c)' => holder' = c
      BY <2>11, <2>13
    <3>4. ~lockFree => doing'[c] \notin {"publish", "wrote"}
      BY <2>1
    <3>5. QED
      BY <2>13, <2>14, <2>8, <2>10, <2>11, <2>12, <3>1, <3>2, <3>3, <3>4, WritingStep
<1>6. CASE EndSave(c)
  <2>1. /\ doing[c] = "write" /\ Len(got[c]) = Len(datum[c]) /\ Release
        /\ saved' = Append(saved, datum[c])
        /\ datum' = [datum EXCEPT ![c] = <<>>] /\ doing' = [doing EXCEPT ![c] = "idle"]
        /\ UNCHANGED <<setting, mem, key, offset, at, size, got, since>>
    BY <1>6 DEF EndSave, Goto
  <2>2. /\ key # None /\ datum[c] # <<>> /\ Len(mem[key]) = Len(datum[c])
        /\ \A j \in 1..Len(got[c]) : mem[key][j] = datum[c][j]
    BY <1>0, <2>1 DEF SaveIsTrue
  <2>3. mem[key] \in Words /\ datum[c] \in Words
    BY <2>2, TypeFacts
  <2>4. mem[key] = datum[c]
    BY <2>1, <2>2, <2>3, DataAreSequences, CopiedIsDatum
  <2>5. /\ saved' \in Seq(Words) /\ Len(saved') = Len(saved) + 1
        /\ saved'[Len(saved')] = datum[c] /\ saved' # <<>>
        /\ \A i \in 1..Len(saved) : saved'[i] = saved[i]
    BY <1>0, <2>1, <2>3
  <2>6. DataTypeOK' /\ GotWords'
    <3>1. doing' \in [User -> Doings] /\ datum' \in [User -> Words \cup {<<>>}]
      BY <2>1 DEF DataInv, DataTypeOK, Doings
    <3>2. holder' \in User \cup {None}
      BY <2>1 DEF Release, DataInv, DataTypeOK
    <3>3. QED
      BY <2>1, <2>5, <3>1, <3>2 DEF DataInv, DataTypeOK, GotWords, setting
  <2>7. doing'[c] = "idle" /\ \A d \in User \ {c} : UNCHANGED <<doing[d], datum[d]>>
    BY <2>1 DEF DataInv, DataTypeOK
  <2>8. InGuard(c) /\ ~InGuard(c)' /\ ~lockFree /\ holder = c
    BY <2>1, <2>7 DEF InGuard, DataInv, OneInGuard
  <2>9. SaveIsTrue(c)' /\ LoadIsTrue(c)'
    BY <2>7 DEF SaveIsTrue, LoadIsTrue
  <2>10. KeyLeadsToData' /\ KeyLeadsToLast'
    <3>1. \A d \in User : since'[d] <= Len(saved')
      <4>1. \A d \in User : since[d] \in Nat /\ since[d] <= Len(saved)
        BY DEF DataInv, DataTypeOK, KeyLeadsToData
      <4>2. QED
        BY <1>0, <2>1, <2>5, <4>1
    <3>2. key # None => mem[key] # <<>> /\ (inPlace => Len(mem[key]) = 2)
      BY DEF DataInv, KeyLeadsToData
    <3>3. QED
      BY <2>1, <2>2, <2>4, <2>5, <2>8, <3>1, <3>2
      DEF KeyLeadsToData, KeyLeadsToLast, setting
  <2>11. Len(saved) <= Len(saved') /\ (holder' = holder \/ holder = c)
    BY <1>0, <2>5, <2>8
  <2>12. QED
    BY <2>1, <2>5, <2>6, <2>7, <2>8, <2>9, <2>10, <2>11, WritingStep
<1>7. CASE FillBlock(c)
  <2>1. PICK b \in {x \in Block : mem[x] = <<>>} :
          mem' = [mem EXCEPT ![b] = datum[c]] /\ at' = [at EXCEPT ![c] = b]
    BY <1>7 DEF FillBlock
  <2>2. /\ doing[c] = "save" /\ lockFree /\ doing' = [doing EXCEPT ![c] = "publish"]
        /\ UNCHANGED <<setting, key, offset, holder, datum, size, got, saved, since>>
    BY <1>7 DEF FillBlock, Goto
  <2>3. datum[c] # <<>> /\ datum[c] \in Words /\ (inPlace => Len(datum[c]) = 2)
    BY <1>0, <2>2, TypeFacts DEF SaveIsTrue
  <2>4. DataTypeOK' /\ GotWords'
    <3>1. doing' \in [User -> Doings] /\ mem' \in [Block -> Words \cup {<<>>}]
      BY <2>1, <2>2, <2>3 DEF DataInv, DataTypeOK, Doings
    <3>2. at' \in [User -> Block \cup {None}]
      BY <2>1 DEF DataInv, DataTypeOK
    <3>3. QED
      BY <2>2, <3>1, <3>2 DEF DataInv, DataTypeOK, GotWords, setting
  <2>5. /\ doing'[c] = "publish" /\ at'[c] = b /\ mem'[b] = datum[c] /\ b # None
        /\ \A d \in User \ {c} : UNCHANGED <<doing[d], at[d]>>
        /\ \A x \in Block : mem[x] # <<>> => mem'[x] = mem[x]
    BY <2>1, <2>2, ExtraDataAssumption DEF DataInv, DataTypeOK
  <2>6. SaveIsTrue(c)' /\ LoadIsTrue(c)' /\ ~InGuard(c)'
    BY <2>2, <2>3, <2>5 DEF SaveIsTrue, LoadIsTrue, InGuard, setting
  <2>7. KeyLeadsToData' /\ KeyLeadsToLast'
    <3>1. \A d \in User : since'[d] <= Len(saved')
      BY <2>2 DEF DataInv, KeyLeadsToData
    <3>2. /\ key # None => mem'[key] = mem[key] /\ mem[key] # <<>>
          /\ key # None /\ inPlace => Len(mem[key]) = 2
      BY <2>5, TypeFacts DEF DataInv, KeyLeadsToData
    <3>3. KeyLeadsToData'
      BY <2>2, <3>1, <3>2 DEF DataInv, KeyLeadsToData, setting
    <3>4. KeyLeadsToLast'
      BY <2>2, <3>2 DEF DataInv, KeyLeadsToLast, Kept, setting
    <3>5. QED
      BY <3>3, <3>4
  <2>8. QED
    BY <1>0, <2>2, <2>4, <2>5, <2>6, <2>7, WritingStep
<1>8. CASE FindOrConstructOffset(c)
  <2>1. /\ doing[c] = "publish" /\ offset' = TRUE /\ doing' = [doing EXCEPT ![c] = "wrote"]
        /\ UNCHANGED <<setting, mem, key, holder, datum, at, size, got, saved, since>>
    BY <1>8 DEF FindOrConstructOffset, Goto
  <2>2. DataTypeOK' /\ GotWords'
    <3>1. doing' \in [User -> Doings] /\ offset' \in BOOLEAN
      BY <2>1 DEF DataInv, DataTypeOK, Doings
    <3>2. QED
      BY <2>1, <3>1 DEF DataInv, DataTypeOK, GotWords, setting
  <2>3. doing'[c] = "wrote" /\ \A d \in User \ {c} : doing'[d] = doing[d]
    BY <2>1 DEF DataInv, DataTypeOK
  <2>4. SaveIsTrue(c)' /\ LoadIsTrue(c)' /\ ~InGuard(c)' /\ lockFree
    BY <1>0, <2>1, <2>3
    DEF SaveIsTrue, LoadIsTrue, InGuard, setting, DataInv, OneInGuard
  <2>5. QED
    BY <1>0, <2>1, <2>2, <2>3, <2>4, QuietStep
<1>9. CASE StoreOffset(c)
  <2>1. /\ doing[c] = "wrote" /\ key' = at[c] /\ saved' = Append(saved, datum[c])
        /\ datum' = [datum EXCEPT ![c] = <<>>] /\ doing' = [doing EXCEPT ![c] = "idle"]
        /\ UNCHANGED <<setting, mem, offset, holder, at, size, got, since>>
    BY <1>9 DEF StoreOffset, Goto
  <2>2. /\ at[c] # None /\ mem[at[c]] = datum[c] /\ datum[c] # <<>>
        /\ (inPlace => Len(datum[c]) = 2) /\ lockFree
    BY <1>0, <2>1 DEF SaveIsTrue, DataInv, OneInGuard
  <2>3. datum[c] \in Words /\ at[c] \in Block
    BY <2>2, TypeFacts
  <2>4. /\ saved' \in Seq(Words) /\ Len(saved') = Len(saved) + 1
        /\ saved'[Len(saved')] = datum[c] /\ saved' # <<>>
        /\ \A i \in 1..Len(saved) : saved'[i] = saved[i]
    BY <1>0, <2>1, <2>3
  <2>5. DataTypeOK' /\ GotWords'
    <3>1. doing' \in [User -> Doings] /\ datum' \in [User -> Words \cup {<<>>}]
      BY <2>1 DEF DataInv, DataTypeOK, Doings
    <3>2. QED
      BY <2>1, <2>3, <2>4, <3>1 DEF DataInv, DataTypeOK, GotWords, setting
  <2>6. doing'[c] = "idle" /\ \A d \in User \ {c} : UNCHANGED <<doing[d], datum[d]>>
    BY <2>1 DEF DataInv, DataTypeOK
  <2>7. SaveIsTrue(c)' /\ LoadIsTrue(c)' /\ ~InGuard(c)'
    BY <2>6 DEF SaveIsTrue, LoadIsTrue, InGuard
  <2>8. KeyLeadsToData' /\ KeyLeadsToLast'
    <3>1. \A d \in User : since'[d] <= Len(saved')
      <4>1. \A d \in User : since[d] \in Nat /\ since[d] <= Len(saved)
        BY DEF DataInv, DataTypeOK, KeyLeadsToData
      <4>2. QED
        BY <1>0, <2>1, <2>4, <4>1
    <3>2. offset
      BY <1>0, <2>1 DEF SaveIsTrue
    <3>3. QED
      BY <2>1, <2>2, <2>4, <3>1, <3>2 DEF KeyLeadsToData, KeyLeadsToLast, setting
  <2>9. Len(saved) <= Len(saved')
    BY <1>0, <2>4
  <2>10. QED
    BY <2>1, <2>2, <2>4, <2>5, <2>6, <2>7, <2>8, <2>9, WritingStep
<1>10. QED
  BY <1>1, <1>2, <1>3, <1>4, <1>5, <1>6, <1>7, <1>8, <1>9

-----------------------------------------------------------------------------
\* The initial states satisfy the inductive invariant.
LEMMA InitDataInv == DataInit => DataInv
<1> SUFFICES ASSUME DataInit PROVE DataInv
  OBVIOUS
<1>1. DataTypeOK /\ GotWords /\ KeyLeadsToData /\ KeyLeadsToLast
  <2>1. <<>> \in Seq(Word) /\ Len(<<>>) = 0
    OBVIOUS
  <2>2. GotWords /\ \A c \in User : Len(got[c]) <= 2
    BY <2>1 DEF DataInit, GotWords
  <2>3. CASE keyWasThere
    <3>1. PICK b \in Block, n \in Length :
            /\ key = b
            /\ mem = [x \in Block |-> IF x = b THEN Whole(1, n) ELSE <<>>]
            /\ saved = <<Whole(1, n)>>
      BY <2>3 DEF DataInit
    <3>2. 1 \in Word /\ n \in {1, 2} /\ (inPlace => n = 2)
      BY ExtraDataAssumption DEF Word, Length
    <3>3. /\ Whole(1, n) \in Words /\ Whole(1, n) # <<>>
          /\ inPlace => Len(Whole(1, n)) = 2
      BY <3>2, DataAreSequences
    <3> DEFINE w == Whole(1, n)
    <3> HIDE DEF w
    <3>4. /\ mem \in [Block -> Words \cup {<<>>}] /\ mem[key] = w
          /\ saved \in Seq(Words) /\ Len(saved) = 1 /\ saved[1] = w /\ saved # <<>>
      BY <3>1, <3>3 DEF w
    <3>5. DataTypeOK
      BY <2>2, <3>1, <3>4 DEF DataInit, DataTypeOK, Doings
    <3>6. KeyLeadsToData
      BY <2>3, <3>1, <3>3, <3>4, ExtraDataAssumption DEF DataInit, KeyLeadsToData, w
    <3>7. KeyLeadsToLast
      BY <2>3, <3>1, <3>4, ExtraDataAssumption DEF DataInit, KeyLeadsToLast
    <3>8. QED
      BY <2>2, <3>5, <3>6, <3>7
  <2>4. CASE ~keyWasThere
    <3>1. key = None /\ saved = <<>> /\ mem = [x \in Block |-> <<>>] /\ ~offset
      BY <2>4 DEF DataInit
    <3>2. DataTypeOK
      BY <2>2, <3>1 DEF DataInit, DataTypeOK, Doings
    <3>3. KeyLeadsToData /\ KeyLeadsToLast
      BY <2>1, <2>4, <3>1 DEF DataInit, KeyLeadsToData, KeyLeadsToLast, Kept
    <3>4. QED
      BY <2>2, <3>2, <3>3
  <2>5. QED
    BY <2>3, <2>4
<1>2. OneInGuard /\ Saves /\ Loads
  BY DEF DataInit, OneInGuard, InGuard, Saves, SaveIsTrue, Loads, LoadIsTrue
<1>3. QED
  BY <1>1, <1>2 DEF DataInv

\* Every step keeps it.
LEMMA NextKeepsDataInv == DataInv /\ [DataNext]_dataVars => DataInv'
<1> SUFFICES ASSUME DataInv, [DataNext]_dataVars PROVE DataInv'
  OBVIOUS
<1>1. CASE UNCHANGED dataVars
  <2>1. /\ UNCHANGED <<lockFree, inPlace, keyWasThere, mem, key, offset, holder, doing>>
        /\ UNCHANGED <<datum, at, size, got, saved, since>>
    BY <1>1 DEF dataVars, setting
  <2>2. DataTypeOK' /\ GotWords' /\ OneInGuard' /\ KeyLeadsToData' /\ KeyLeadsToLast'
    BY <2>1 DEF DataInv, DataTypeOK, GotWords, OneInGuard, InGuard, KeyLeadsToData,
                KeyLeadsToLast, Kept
  <2>3. Saves' /\ Loads'
    BY <2>1 DEF DataInv, Saves, SaveIsTrue, Loads, LoadIsTrue, Kept
  <2>4. QED
    BY <2>2, <2>3 DEF DataInv
<1>2. QED
  BY <1>1, SaveKeepsDataInv, LoadKeepsDataInv DEF DataNext, Step

\* The inductive invariant holds, under every strategy.
THEOREM DataInvHolds == DataSpec => []DataInv
  BY InitDataInv, NextKeepsDataInv, PTL DEF DataSpec

\* Every variable keeps its type.
THEOREM DataTypeCorrect == DataSpec => []DataTypeOK
<1>1. DataInv => DataTypeOK
  BY DEF DataInv
<1>2. QED
  BY <1>1, DataInvHolds, PTL

\* loadExtraData gives one datum that some save put there, whole, and not one
\* that was superseded before the load began: for objects under a lock, and
\* for a key that is there already without one.
THEOREM LoadsAreWhole == DataSpec => []LoadsWhatWasSaved
<1>1. DataInv => LoadsWhatWasSaved
  BY DEF DataInv, Loads, LoadIsTrue, Kept, LoadsWhatWasSaved
<1>2. QED
  BY <1>1, DataInvHolds, PTL

\* A load that comes back empty began before the first save had ended, under
\* every strategy and for objects and bytes alike: also while saveExtraBytes
\* replaces an array by one of another length.
THEOREM SavesAreNeverForgotten == DataSpec => NeverForgotten
<1>1. DataInv /\ [DataNext]_dataVars =>
        [\A c \in User : FindNothing(c) => since[c] = 0]_dataVars
  <2> SUFFICES ASSUME DataInv, NEW c \in User, FindNothing(c) PROVE since[c] = 0
    OBVIOUS
  <2>1. doing[c] = "find" /\ (IF lockFree THEN ~offset ELSE key = None)
    BY DEF FindNothing
  <2>2. ~lockFree => \A d \in User : doing[d] # "construct"
    <3>1. ~lockFree => holder = c
      BY <2>1 DEF DataInv, OneInGuard, InGuard
    <3>2. QED
      BY <2>1, <3>1 DEF DataInv, OneInGuard, InGuard
  <2>3. saved = <<>>
    BY <2>1, <2>2 DEF DataInv, KeyLeadsToData
  <2>4. since[c] \in Nat /\ since[c] <= Len(saved) /\ Len(<<>>) = 0
    BY DEF DataInv, DataTypeOK, KeyLeadsToData
  <2>5. QED
    BY <2>3, <2>4
<1>2. QED
  BY <1>1, DataInvHolds, PTL DEF DataSpec, NeverForgotten
=============================================================================
