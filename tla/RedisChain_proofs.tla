------------------------- MODULE RedisChain_proofs -------------------------
(***************************************************************************)
(* Proofs about the chain in Redis, for any number of chain objects, any   *)
(* set of ids and any size of batch, with connections lost anywhere.       *)
(***************************************************************************)
EXTENDS RedisChain, CommonLemmas

\* The chain begins with the head, and as long as that is all of it the
\* head's chain key is absent or empty.
Started ==
  /\ published # <<>> /\ published[1] = HeadKey
  /\ Len(published) = 1 /\ Exists(HeadKey) => chainKeys[HeadKey] = NoId

\* Data and link of an item are set by the same script.
DataOfItems == dataKeys = {published[i] : i \in 2..Len(published)}

\* appendAfter is given at least one item, and none twice.
Batches ==
  \A c \in Client :
    pc[c] = "appending" => batch[c] # <<>> /\ Unrepeated(batch[c])

\* What fetchNext is reading is the successor of the item at hand.
OnTheWay ==
  \A c \in Client : Holds(c) /\ pc[c] \in {"data", "link"} =>
    \E i \in 1..(Len(published) - 1) :
      published[i] = current[c].id /\ published[i + 1] = wanted[c]

\* The inductive invariant.  That an append goes to the end of the chain
\* needs OneChain: an empty link is that of the last item.  That what a call
\* reads between two commands is still there needs DataOfItems.
IndInv == /\ TypeOK /\ OneChain /\ HeldItemsAreTrue
          /\ Started /\ DataOfItems /\ Batches /\ OnTheWay

-----------------------------------------------------------------------------
\* What the invariant says of the chain, for the steps below.
LEMMA ChainFacts ==
  ASSUME IndInv
  PROVE  /\ published \in Seq(Key) /\ published # <<>> /\ published[1] = HeadKey
         /\ Len(published) \in Nat /\ Len(published) >= 1
         /\ Unrepeated(published)
         /\ Key \ {HeadKey} = Id /\ NoId \notin Key /\ Id \subseteq Key
         /\ dataKeys = {published[i] : i \in 2..Len(published)}
         /\ \A i \in 1..(Len(published) - 1) :
              /\ Exists(published[i]) /\ chainKeys[published[i]] = published[i + 1]
              /\ i \in 1..Len(published) /\ i + 1 \in 1..Len(published)
              /\ i + 1 \in 2..Len(published)
         /\ \A k \in DOMAIN chainKeys : \E i \in 1..Len(published) : published[i] = k
<1>1. published \in Seq(Key) /\ published # <<>> /\ published[1] = HeadKey
  BY DEF IndInv, TypeOK, Started
<1>2. Len(published) \in Nat /\ Len(published) >= 1
  BY <1>1
<1>3. /\ Unrepeated(published) /\ dataKeys = {published[i] : i \in 2..Len(published)}
      /\ \A i \in 1..(Len(published) - 1) :
           Exists(published[i]) /\ chainKeys[published[i]] = published[i + 1]
      /\ \A k \in DOMAIN chainKeys : \E i \in 1..Len(published) : published[i] = k
  BY DEF IndInv, OneChain, Unrepeated, DataOfItems
<1>4. \A i \in 1..(Len(published) - 1) :
        /\ i \in 1..Len(published) /\ i + 1 \in 1..Len(published)
        /\ i + 1 \in 2..Len(published)
  BY <1>2
<1>5. Key \ {HeadKey} = Id /\ NoId \notin Key /\ Id \subseteq Key
  BY RedisAssumption DEF Key
<1>6. QED
  BY <1>1, <1>2, <1>3, <1>4, <1>5

\* An item with data has a chain key.
LEMMA DataHaveLinks ==
  ASSUME IndInv, NEW k \in dataKeys
  PROVE  Exists(k)
<1>1. PICK i \in 2..Len(published) : k = published[i]
  BY ChainFacts
<1>2. CASE i < Len(published)
  <2>1. i \in 1..(Len(published) - 1)
    BY <1>2, ChainFacts
  <2>2. QED
    BY <1>1, <2>1, ChainFacts
<1>3. CASE i = Len(published)
  <2>1. Len(published) > 1
    BY <1>3, ChainFacts
  <2>2. QED
    BY <1>1, <1>3, <2>1 DEF IndInv, OneChain
<1>4. QED
  BY <1>2, <1>3, ChainFacts

\* A link that is not empty leads to the next item of the chain, whose data
\* are there.
LEMMA LinkLeadsOn ==
  ASSUME IndInv, NEW k, Exists(k), chainKeys[k] # NoId
  PROVE  /\ chainKeys[k] \in dataKeys
         /\ \E i \in 1..(Len(published) - 1) :
              published[i] = k /\ published[i + 1] = chainKeys[k]
<1>1. PICK i \in 1..Len(published) : published[i] = k
  BY ChainFacts DEF Exists
<1>2. i # Len(published)
  <2> SUFFICES ASSUME i = Len(published) PROVE FALSE
    OBVIOUS
  <2>1. CASE Len(published) > 1
    BY <1>1, <2>1 DEF IndInv, OneChain
  <2>2. CASE Len(published) = 1
    BY <1>1, <2>2, ChainFacts DEF IndInv, Started
  <2>3. QED
    BY <2>1, <2>2, ChainFacts
<1>3. i \in 1..(Len(published) - 1)
  BY <1>2, ChainFacts
<1>4. chainKeys[k] = published[i + 1]
  BY <1>1, <1>3, ChainFacts
<1>5. chainKeys[k] \in dataKeys
  BY <1>3, <1>4, ChainFacts
<1>6. QED
  BY <1>1, <1>3, <1>4, <1>5

\* An item whose chain key is empty is the last one (the condition of the
\* script of appendAfter).
LEMMA EmptyIsLast ==
  ASSUME IndInv, NEW k, Exists(k), chainKeys[k] = NoId
  PROVE  /\ k = published[Len(published)]
         /\ \A i \in 1..Len(published) : Exists(published[i])
<1>1. PICK i \in 1..Len(published) : published[i] = k
  BY ChainFacts DEF Exists
<1>2. i = Len(published)
  <2> SUFFICES ASSUME i # Len(published) PROVE FALSE
    OBVIOUS
  <2>1. i \in 1..(Len(published) - 1) /\ i + 1 \in 1..Len(published)
    BY ChainFacts
  <2>2. chainKeys[k] = published[i + 1] /\ published[i + 1] \in Key
    BY <1>1, <2>1, ChainFacts
  <2>3. QED
    BY <2>2, ChainFacts
<1>3. ASSUME NEW j \in 1..Len(published) PROVE Exists(published[j])
  <2>1. CASE j = Len(published)
    BY <1>1, <1>2, <2>1
  <2>2. CASE j # Len(published)
    <3>1. j \in 1..(Len(published) - 1)
      BY <2>2, ChainFacts
    <3>2. QED
      BY <3>1, ChainFacts
  <2>3. QED
    BY <2>1, <2>2
<1>4. QED
  BY <1>1, <1>2, <1>3

-----------------------------------------------------------------------------
\* The list the script of appendAfter goes through: the current item, the new
\* ones, and the empty string.
Line(k, items) == <<k>> \o items \o <<NoId>>

\* Up to the last item no id is in it twice, so each has one successor.
LEMMA LineOfAppend ==
  ASSUME NEW k \in Key, NEW items \in Seq(Id), items # <<>>, Unrepeated(items),
         \A i \in 1..Len(items) : items[i] # k
  PROVE  /\ Line(k, items)[1] = k /\ Line(k, items)[2] = items[1]
         /\ Line(k, items)[Len(items) + 2] = NoId
         /\ \A i \in 1..Len(items) : Line(k, items)[i + 1] = items[i]
         /\ \A i, j \in 1..(Len(items) + 1) :
              Line(k, items)[i] = Line(k, items)[j] => i = j
<1> DEFINE n == Len(items)
           line == Line(k, items)
<1>1. n \in Nat /\ n >= 1
  OBVIOUS
<1>2. line[1] = k /\ line[n + 2] = NoId /\ \A i \in 1..n : line[i + 1] = items[i]
  <2>1. /\ <<k>> \in Seq(Key \cup {NoId}) /\ <<NoId>> \in Seq(Key \cup {NoId})
        /\ items \in Seq(Key \cup {NoId})
    BY DEF Key
  <2>2. /\ <<k>> \o items \in Seq(Key \cup {NoId}) /\ Len(<<k>> \o items) = n + 1
        /\ (<<k>> \o items)[1] = k
        /\ \A i \in 1..n : (<<k>> \o items)[i + 1] = items[i]
    BY <2>1
  <2> DEFINE m == <<k>> \o items
  <2> HIDE DEF m, n
  <2>3. /\ (m \o <<NoId>>)[1] = m[1] /\ (m \o <<NoId>>)[n + 2] = NoId
        /\ \A i \in 1..n : (m \o <<NoId>>)[i + 1] = m[i + 1]
    BY <1>1, <2>1, <2>2 DEF m
  <2>4. QED
    BY <2>2, <2>3 DEF m, n, Line
<1> HIDE DEF line
<1>3. line[2] = items[1]
  BY <1>1, <1>2
<1>4. ASSUME NEW i \in 1..(n + 1), NEW j \in 1..(n + 1), line[i] = line[j]
      PROVE  i = j
  <2>1. CASE i = 1 /\ j = 1
    BY <2>1
  <2>2. CASE i # 1 /\ j # 1
    <3>1. i - 1 \in 1..n /\ j - 1 \in 1..n /\ (i - 1) + 1 = i /\ (j - 1) + 1 = j
      BY <1>1, <2>2
    <3>2. items[i - 1] = items[j - 1]
      BY <1>2, <1>4, <3>1
    <3>3. i - 1 = j - 1
      BY <3>1, <3>2 DEF Unrepeated
    <3>4. QED
      BY <3>1, <3>3
  <2>3. ASSUME NEW a \in 1..(n + 1), a # 1 PROVE line[a] # k
    <3>1. a - 1 \in 1..n /\ (a - 1) + 1 = a
      BY <1>1, <2>3
    <3>2. QED
      BY <1>2, <3>1
  <2>4. QED
    BY <1>2, <1>4, <2>1, <2>2, <2>3
<1>5. QED
  BY <1>2, <1>3, <1>4 DEF line

\* The chain keys the script sets.
LinksOf(k, items) ==
  [x \in {Line(k, items)[i] : i \in 1..(Len(items) + 1)} |->
     Line(k, items)[1 + CHOOSE i \in 1..(Len(items) + 1) : Line(k, items)[i] = x]]

\* The effect of the script on the chain keys, key by key.
LEMMA LinksOfAppend ==
  ASSUME NEW k \in Key, NEW items \in Seq(Id), items # <<>>, Unrepeated(items),
         \A i \in 1..Len(items) : items[i] # k
  PROVE  /\ DOMAIN LinksOf(k, items) = {k} \cup {items[i] : i \in 1..Len(items)}
         /\ LinksOf(k, items)[k] = items[1]
         /\ \A i \in 1..(Len(items) - 1) :
              LinksOf(k, items)[items[i]] = items[i + 1]
         /\ LinksOf(k, items)[items[Len(items)]] = NoId
<1> DEFINE n == Len(items)
           line == Line(k, items)
           links == LinksOf(k, items)
<1>1. n \in Nat /\ n >= 1
  OBVIOUS
<1>2. /\ line[1] = k /\ line[2] = items[1] /\ line[n + 2] = NoId
      /\ \A i \in 1..n : line[i + 1] = items[i]
      /\ \A i, j \in 1..(n + 1) : line[i] = line[j] => i = j
  BY LineOfAppend
<1> HIDE DEF n, line, links
<1>3. links = [x \in {line[i] : i \in 1..(n + 1)} |->
                    line[1 + CHOOSE i \in 1..(n + 1) : line[i] = x]]
  BY DEF n, line, links, LinksOf
<1>4. ASSUME NEW i \in 1..(n + 1) PROVE links[line[i]] = line[1 + i]
  <2>1. (CHOOSE j \in 1..(n + 1) : line[j] = line[i]) = i
    BY <1>2
  <2>2. line[i] \in {line[j] : j \in 1..(n + 1)}
    OBVIOUS
  <2>3. QED
    BY <1>3, <2>1, <2>2
<1>5. DOMAIN links = {k} \cup {items[i] : i \in 1..n}
  <2>1. DOMAIN links = {line[i] : i \in 1..(n + 1)}
    BY <1>3
  <2>2. \A i \in 1..(n + 1) : i = 1 \/ (i - 1 \in 1..n /\ (i - 1) + 1 = i)
    BY <1>1
  <2>3. \A i \in 1..n : i + 1 \in 1..(n + 1)
    BY <1>1
  <2>4. 1 \in 1..(n + 1)
    BY <1>1
  <2>5. ASSUME NEW i \in 1..(n + 1)
        PROVE  line[i] \in {k} \cup {items[j] : j \in 1..n}
    <3>1. CASE i = 1
      BY <1>2, <3>1
    <3>2. CASE i - 1 \in 1..n /\ (i - 1) + 1 = i
      <4>1. line[i] = items[i - 1]
        BY <1>2, <3>2
      <4>2. QED
        BY <3>2, <4>1
    <3>3. QED
      BY <2>2, <3>1, <3>2
  <2>6. ASSUME NEW j \in 1..n
        PROVE  items[j] \in {line[i] : i \in 1..(n + 1)}
    BY <1>2, <2>3
  <2>7. k \in {line[i] : i \in 1..(n + 1)}
    BY <1>2, <2>4
  <2>8. QED
    BY <2>1, <2>5, <2>6, <2>7
<1>6. links[k] = items[1]
  <2>1. 1 \in 1..(n + 1) /\ 1 + 1 = 2
    BY <1>1
  <2>2. QED
    BY <1>2, <1>4, <2>1
<1>7. ASSUME NEW i \in 1..n PROVE links[items[i]] = line[i + 2]
  <2>1. i + 1 \in 1..(n + 1) /\ 1 + (i + 1) = i + 2
    BY <1>1
  <2>2. line[i + 1] = items[i]
    BY <1>2
  <2>3. QED
    BY <1>4, <2>1, <2>2
<1>8. ASSUME NEW i \in 1..(n - 1) PROVE links[items[i]] = items[i + 1]
  <2>1. i \in 1..n /\ i + 1 \in 1..n /\ (i + 1) + 1 = i + 2
    BY <1>1
  <2>2. line[i + 2] = items[i + 1]
    BY <1>2, <2>1
  <2>3. QED
    BY <1>7, <2>1, <2>2
<1>9. links[items[n]] = NoId
  <2>1. n \in 1..n
    BY <1>1
  <2>2. QED
    BY <1>2, <1>7, <2>1
<1>10. QED
  BY <1>5, <1>6, <1>8, <1>9 DEF n, links

\* What a client is appending, when the script finds its condition true: the
\* current item is the last one, and the new ones are not on the chain.
LEMMA AppendingFacts ==
  ASSUME IndInv, NEW c \in Client, pc[c] = "appending", CanAppend(c)
  PROVE  /\ batch[c] \in Seq(Id) /\ batch[c] \in Seq(Key) /\ batch[c] # <<>>
         /\ Len(batch[c]) \in Nat /\ Len(batch[c]) >= 1
         /\ Unrepeated(batch[c])
         /\ current[c].id = published[Len(published)]
         /\ \A i \in 1..Len(published), j \in 1..Len(batch[c]) :
              published[i] # batch[c][j]
         /\ \A i \in 1..Len(batch[c]) : batch[c][i] # current[c].id
         /\ \A i \in 1..Len(published) : Exists(published[i])
         /\ \A i \in 1..Len(batch[c]) : ~Exists(batch[c][i])
         /\ chainKeys[current[c].id] = NoId /\ Exists(current[c].id)
<1>1. batch[c] \in Seq(Id) /\ batch[c] # <<>> /\ Unrepeated(batch[c])
  BY DEF IndInv, TypeOK, Batches
<1>2. batch[c] \in Seq(Key) /\ Len(batch[c]) \in Nat /\ Len(batch[c]) >= 1
  BY <1>1 DEF Key
<1>3. /\ Exists(current[c].id) /\ chainKeys[current[c].id] = NoId
      /\ \A i \in 1..Len(batch[c]) : ~Exists(batch[c][i])
  BY DEF CanAppend
<1>4. /\ current[c].id = published[Len(published)]
      /\ \A i \in 1..Len(published) : Exists(published[i])
  BY <1>3, EmptyIsLast
<1>5. QED
  BY <1>1, <1>2, <1>3, <1>4

\* The script of appendAfter makes the chain longer by the batch, and changes
\* no link but that of the last item.
LEMMA AppendEffect ==
  ASSUME IndInv, NEW c \in Client, pc[c] = "appending", CanAppend(c), DoAppend(c)
  PROVE  /\ published' = published \o batch[c]
         /\ DOMAIN chainKeys' =
              DOMAIN chainKeys \cup {batch[c][i] : i \in 1..Len(batch[c])}
         /\ \A i \in 1..(Len(published) - 1) :
              chainKeys'[published[i]] = published[i + 1]
         /\ chainKeys'[published[Len(published)]] = batch[c][1]
         /\ \A i \in 1..(Len(batch[c]) - 1) :
              chainKeys'[batch[c][i]] = batch[c][i + 1]
         /\ chainKeys'[batch[c][Len(batch[c])]] = NoId
         /\ dataKeys' = dataKeys \cup {batch[c][i] : i \in 1..Len(batch[c])}
<1> DEFINE items == batch[c]
           k == current[c].id
           links == LinksOf(k, items)
<1>1. /\ chainKeys' = [x \in DOMAIN chainKeys \cup DOMAIN links |->
                         IF x \in DOMAIN links THEN links[x] ELSE chainKeys[x]]
      /\ dataKeys' = dataKeys \cup {items[i] : i \in 1..Len(items)}
      /\ published' = published \o items
  BY DEF DoAppend, Set, Line, LinksOf
<1>2. /\ items \in Seq(Id) /\ items # <<>> /\ Unrepeated(items)
      /\ \A i \in 1..Len(items) : items[i] # k
      /\ k = published[Len(published)] /\ k \in Key /\ k \in DOMAIN chainKeys
      /\ Len(items) \in Nat /\ Len(items) >= 1
      /\ \A i \in 1..Len(published), j \in 1..Len(items) : published[i] # items[j]
      /\ \A i \in 1..Len(published) : published[i] \in DOMAIN chainKeys
  <2>1. Len(published) \in 1..Len(published)
    BY ChainFacts
  <2>2. published[Len(published)] \in Key
    BY <2>1, ChainFacts
  <2>3. QED
    BY <2>2, AppendingFacts DEF Exists
<1> HIDE DEF links, items, k
<1>3. /\ DOMAIN links = {k} \cup {items[i] : i \in 1..Len(items)}
      /\ links[k] = items[1]
      /\ \A i \in 1..(Len(items) - 1) : links[items[i]] = items[i + 1]
      /\ links[items[Len(items)]] = NoId
  BY <1>2, LinksOfAppend DEF links
<1>4. DOMAIN chainKeys' = DOMAIN chainKeys \cup {items[i] : i \in 1..Len(items)}
  BY <1>1, <1>2, <1>3
<1>5. ASSUME NEW i \in 1..(Len(published) - 1)
      PROVE  chainKeys'[published[i]] = published[i + 1]
  <2>1. i \in 1..Len(published) /\ Len(published) \in 1..Len(published)
        /\ i # Len(published)
    BY ChainFacts
  <2>2. published[i] # k
    BY <1>2, <2>1, ChainFacts DEF Unrepeated
  <2>3. published[i] \notin DOMAIN links
    BY <1>2, <1>3, <2>1, <2>2
  <2>4. chainKeys'[published[i]] = chainKeys[published[i]]
    BY <1>1, <1>2, <2>1, <2>3
  <2>5. QED
    BY <2>4, ChainFacts
<1>6. chainKeys'[published[Len(published)]] = items[1]
  BY <1>1, <1>2, <1>3
<1>7. ASSUME NEW i \in 1..(Len(items) - 1)
      PROVE  chainKeys'[items[i]] = items[i + 1]
  <2>1. i \in 1..Len(items)
    BY <1>2
  <2>2. QED
    BY <1>1, <1>3, <2>1
<1>8. chainKeys'[items[Len(items)]] = NoId
  <2>1. Len(items) \in 1..Len(items)
    BY <1>2
  <2>2. QED
    BY <1>1, <1>3, <2>1
<1>9. QED
  BY <1>1, <1>4, <1>5, <1>6, <1>7, <1>8 DEF items

\* Concatenation, for the chain and a batch.
LEMMA Longer ==
  ASSUME IndInv, NEW c \in Client, pc[c] = "appending", CanAppend(c), DoAppend(c)
  PROVE  /\ published' \in Seq(Key) /\ published' # <<>> /\ published'[1] = HeadKey
         /\ Len(published') = Len(published) + Len(batch[c])
         /\ Len(published) < Len(published')
         /\ Unrepeated(published')
         /\ \A i \in 1..Len(published) :
              i \in 1..Len(published') /\ published'[i] = published[i]
         /\ \A i \in 1..Len(batch[c]) :
              /\ Len(published) + i \in 1..Len(published')
              /\ published'[Len(published) + i] = batch[c][i]
         /\ \A i \in 1..Len(published') :
              i \in 1..Len(published)
                \/ \E j \in 1..Len(batch[c]) : i = Len(published) + j
<1> DEFINE p == published
           b == batch[c]
<1>1. /\ p \in Seq(Key) /\ b \in Seq(Key) /\ Unrepeated(p) /\ Unrepeated(b)
      /\ p[1] = HeadKey /\ Len(b) \in Nat /\ Len(b) >= 1
      /\ Len(p) \in Nat /\ Len(p) >= 1 /\ published' = p \o b
      /\ \A i \in 1..Len(p), j \in 1..Len(b) : p[i] # b[j]
  BY ChainFacts, AppendingFacts, AppendEffect
<1> HIDE DEF p, b
<1>2. Unrepeated(p \o b)
  BY <1>1, ConcatUnrepeated
<1>3. /\ p \o b \in Seq(Key) /\ Len(p \o b) = Len(p) + Len(b)
      /\ \A i \in 1..Len(p) : i \in 1..Len(p \o b) /\ (p \o b)[i] = p[i]
      /\ \A i \in 1..Len(b) :
           Len(p) + i \in 1..Len(p \o b) /\ (p \o b)[Len(p) + i] = b[i]
      /\ \A i \in 1..Len(p \o b) :
           i \in 1..Len(p) \/ (i - Len(p) \in 1..Len(b) /\ i = Len(p) + (i - Len(p)))
  BY <1>1, ConcatPlaces
<1>4. p \o b # <<>> /\ (p \o b)[1] = HeadKey /\ Len(p) < Len(p \o b)
  BY <1>1, <1>3
<1>5. QED
  BY <1>1, <1>2, <1>3, <1>4 DEF p, b

-----------------------------------------------------------------------------
\* The initial state satisfies the inductive invariant.
LEMMA InitIndInv == Init => IndInv
<1> SUFFICES ASSUME Init PROVE IndInv
  OBVIOUS
<1> USE DEF Init
<1>1. TypeOK
  BY RedisAssumption DEF TypeOK, Key, NoItem, ItemType, Status
<1>2. OneChain /\ HeldItemsAreTrue /\ Started /\ DataOfItems
  BY DEF OneChain, HeldItemsAreTrue, Started, DataOfItems, Holds, Exists
<1>3. Batches /\ OnTheWay
  BY DEF Batches, OnTheWay, Holds
<1>4. QED
  BY <1>1, <1>2, <1>3 DEF IndInv

\* An append that takes effect keeps the invariant, whether or not the caller
\* is told of it.
LEMMA AppendKeepsIndInv ==
  ASSUME IndInv, NEW c \in Client, pc[c] = "appending", CanAppend(c), DoAppend(c),
         current' = current, pc' = [pc EXCEPT ![c] = "idle"],
         batch' = [batch EXCEPT ![c] = <<>>],
         \/ wanted' = wanted
         \/ wanted' = [wanted EXCEPT ![c] = NoId],
         broken' \subseteq Client
  PROVE  IndInv'
<1> DEFINE b == batch[c]
           n == Len(published)
           m == Len(batch[c])
           N == Len(published')
<1>1. /\ published' \in Seq(Key) /\ published' # <<>> /\ published'[1] = HeadKey
      /\ N = n + m /\ n < N /\ Unrepeated(published')
      /\ \A i \in 1..n : i \in 1..N /\ published'[i] = published[i]
      /\ \A i \in 1..m : n + i \in 1..N /\ published'[n + i] = b[i]
      /\ \A i \in 1..N : i \in 1..n \/ \E j \in 1..m : i = n + j
  BY Longer
<1>2. /\ published \in Seq(Key) /\ n \in Nat /\ n >= 1 /\ m \in Nat /\ m >= 1
      /\ b \in Seq(Id) /\ N \in Nat
  <2>1. b \in Seq(Id) /\ m \in Nat /\ m >= 1
    BY AppendingFacts
  <2>2. N \in Nat
    BY <1>1
  <2>3. QED
    BY <2>1, <2>2, ChainFacts
<1>3. /\ DOMAIN chainKeys' = DOMAIN chainKeys \cup {b[i] : i \in 1..m}
      /\ \A i \in 1..(n - 1) : chainKeys'[published[i]] = published[i + 1]
      /\ chainKeys'[published[n]] = b[1]
      /\ \A i \in 1..(m - 1) : chainKeys'[b[i]] = b[i + 1]
      /\ chainKeys'[b[m]] = NoId
      /\ dataKeys' = dataKeys \cup {b[i] : i \in 1..m}
  BY AppendEffect
<1>4. /\ \A i \in 1..n : published[i] \in DOMAIN chainKeys
      /\ \A i \in 1..m : b[i] \in Id
  BY <1>2, AppendingFacts DEF Exists
<1> HIDE DEF b, n, m, N
<1>5. ASSUME NEW i \in 1..N
      PROVE  published'[i] \in DOMAIN chainKeys'
  <2>1. CASE i \in 1..n
    <3>1. published'[i] = published[i] /\ published[i] \in DOMAIN chainKeys
      BY <1>1, <1>4, <2>1
    <3>2. QED
      BY <1>3, <3>1
  <2>2. ASSUME NEW j \in 1..m, i = n + j
        PROVE  published'[i] \in DOMAIN chainKeys'
    <3>1. published'[i] = b[j]
      BY <1>1, <2>2
    <3>2. b[j] \in {b[k] : k \in 1..m}
      OBVIOUS
    <3>3. QED
      BY <1>3, <3>1, <3>2
  <2>3. QED
    BY <1>1, <2>1, <2>2
<1>6. ASSUME NEW i \in 1..(N - 1)
      PROVE  chainKeys'[published'[i]] = published'[i + 1]
  <2>1. CASE i < n
    <3>1. i \in 1..(n - 1) /\ i \in 1..n /\ i + 1 \in 1..n
      BY <1>2, <2>1
    <3>2. QED
      BY <1>1, <1>3, <3>1
  <2>2. CASE i = n
    <3>1. i \in 1..n /\ 1 \in 1..m
      BY <1>2, <2>2
    <3>2. QED
      BY <1>1, <1>3, <2>2, <3>1
  <2>3. CASE i > n
    <3> DEFINE j == i - n
    <3>1. j \in 1..(m - 1) /\ j \in 1..m /\ j + 1 \in 1..m
          /\ i = n + j /\ i + 1 = n + (j + 1)
      BY <1>1, <1>2, <2>3
    <3> HIDE DEF j
    <3>2. published'[i] = b[j] /\ published'[i + 1] = b[j + 1]
      BY <1>1, <3>1
    <3>3. QED
      BY <1>3, <3>1, <3>2
  <2>4. QED
    BY <1>2, <2>1, <2>2, <2>3
<1>7. chainKeys'[published'[N]] = NoId
  <2>1. m \in 1..m /\ N = n + m
    BY <1>1, <1>2
  <2>2. QED
    BY <1>1, <1>3, <2>1
<1>8. \A k \in DOMAIN chainKeys' : \E i \in 1..N : published'[i] = k
  <2> SUFFICES ASSUME NEW k \in DOMAIN chainKeys'
               PROVE  \E i \in 1..N : published'[i] = k
    OBVIOUS
  <2>1. CASE k \in DOMAIN chainKeys
    <3>1. PICK i \in 1..n : published[i] = k
      BY <2>1, ChainFacts DEF n
    <3>2. QED
      BY <1>1, <3>1
  <2>2. CASE k \in {b[i] : i \in 1..m}
    BY <1>1, <2>2
  <2>3. QED
    BY <1>3, <2>1, <2>2
<1>9. OneChain'
  BY <1>5, <1>6, <1>7, <1>8, <1>1, <1>2 DEF OneChain, Exists, N, Unrepeated
<1>10. Started'
  BY <1>1, <1>2 DEF Started, N
<1>11. DataOfItems'
  <2>1. dataKeys = {published[i] : i \in 2..n}
    BY ChainFacts DEF n
  <2>2. ASSUME NEW i \in 2..N
        PROVE  published'[i] \in dataKeys'
    <3>1. CASE i \in 1..n
      <4>1. i \in 2..n
        BY <3>1
      <4>2. QED
        BY <1>1, <1>3, <2>1, <3>1, <4>1
    <3>2. CASE \E j \in 1..m : i = n + j
      BY <1>1, <1>3, <3>2
    <3>3. i \in 1..N
      BY <1>2
    <3>4. QED
      BY <1>1, <3>1, <3>2, <3>3
  <2>3. ASSUME NEW k \in dataKeys'
        PROVE  \E i \in 2..N : k = published'[i]
    <3>1. CASE k \in dataKeys
      <4>1. PICK i \in 2..n : k = published[i]
        BY <2>1, <3>1
      <4>2. i \in 1..n /\ i \in 2..N
        BY <1>1, <1>2
      <4>3. QED
        BY <1>1, <4>1, <4>2
    <3>2. CASE k \in {b[i] : i \in 1..m}
      <4>1. PICK j \in 1..m : k = b[j]
        BY <3>2
      <4>2. n + j \in 2..N
        BY <1>1, <1>2
      <4>3. QED
        BY <1>1, <4>1, <4>2
    <3>3. QED
      BY <1>3, <3>1, <3>2
  <2>4. QED
    BY <2>2, <2>3 DEF DataOfItems, N
<1>12. /\ \A k \in DOMAIN chainKeys : k \in DOMAIN chainKeys'
       /\ \A k \in DOMAIN chainKeys :
            chainKeys[k] # NoId => chainKeys'[k] = chainKeys[k]
  <2>1. \A k \in DOMAIN chainKeys : k \in DOMAIN chainKeys'
    BY <1>3
  <2>2. ASSUME NEW k \in DOMAIN chainKeys, chainKeys[k] # NoId
        PROVE  chainKeys'[k] = chainKeys[k]
    <3>1. PICK i \in 1..(n - 1) : published[i] = k /\ published[i + 1] = chainKeys[k]
      BY <2>2, LinkLeadsOn DEF n, Exists
    <3>2. QED
      BY <1>3, <3>1
  <2>3. QED
    BY <2>1, <2>2
<1>13. HeldItemsAreTrue'
  <2> SUFFICES ASSUME NEW d \in Client
               PROVE  /\ Holds(d)' => /\ Exists(current[d].id)'
                                      /\ current'[d].nextID \in
                                           {NoId, chainKeys'[current'[d].id]}
                      /\ pc'[d] = "data" => wanted'[d] \in dataKeys'
                      /\ pc'[d] = "link" => Exists(wanted[d])'
    BY DEF HeldItemsAreTrue
  <2>1. Holds(d)' => Exists(current[d].id) /\
                     current[d].nextID \in {NoId, chainKeys[current[d].id]}
    BY DEF Holds, IndInv, HeldItemsAreTrue
  <2>2. pc'[d] # "idle" => d # c /\ pc'[d] = pc[d] /\ wanted'[d] = wanted[d]
    BY DEF IndInv, TypeOK
  <2>3. Exists(current[d].id) => Exists(current[d].id)'
    BY <1>12 DEF Exists
  <2>4. ASSUME Holds(d)'
        PROVE  current'[d].nextID \in {NoId, chainKeys'[current'[d].id]}
    BY <1>12, <2>1, <2>4 DEF Exists
  <2>5. pc'[d] = "data" => wanted'[d] \in dataKeys'
    BY <1>3, <2>2 DEF IndInv, HeldItemsAreTrue
  <2>6. pc'[d] = "link" => Exists(wanted[d])'
    BY <1>12, <2>2 DEF IndInv, HeldItemsAreTrue, Exists
  <2>7. QED
    BY <2>1, <2>3, <2>4, <2>5, <2>6
<1>14. Batches'
  BY DEF IndInv, TypeOK, Batches
<1>15. OnTheWay'
  <2> SUFFICES ASSUME NEW d \in Client, Holds(d)', pc'[d] \in {"data", "link"}
               PROVE  \E i \in 1..(N - 1) :
                        /\ published'[i] = current'[d].id
                        /\ published'[i + 1] = wanted'[d]
    BY DEF OnTheWay, N
  <2>1. Holds(d) /\ pc'[d] = pc[d] /\ wanted'[d] = wanted[d]
    BY DEF IndInv, TypeOK, Holds
  <2>2. PICK i \in 1..(n - 1) : published[i] = current[d].id
                                /\ published[i + 1] = wanted[d]
    BY <2>1 DEF IndInv, OnTheWay, n
  <2>3. i \in 1..n /\ i + 1 \in 1..n /\ i \in 1..(N - 1)
    BY <1>1, <1>2
  <2>4. QED
    BY <1>1, <2>1, <2>2, <2>3
<1>16. TypeOK'
  <2>1. DOMAIN chainKeys' \subseteq Key
    BY <1>3, <1>4 DEF IndInv, TypeOK, Key
  <2>2. \A k \in DOMAIN chainKeys' : chainKeys'[k] \in Id \cup {NoId}
    <3> SUFFICES ASSUME NEW k \in DOMAIN chainKeys'
                 PROVE  chainKeys'[k] \in Id \cup {NoId}
      OBVIOUS
    <3>1. PICK i \in 1..N : published'[i] = k
      BY <1>8
    <3>2. CASE i = N
      BY <1>7, <3>1, <3>2
    <3>3. CASE i # N
      <4>1. i \in 1..(N - 1) /\ i + 1 \in 1..N /\ i + 1 # 1 /\ 1 \in 1..N
        BY <1>2, <3>3
      <4>2. chainKeys'[k] = published'[i + 1] /\ published'[i + 1] # published'[1]
        BY <1>1, <1>6, <3>1, <4>1 DEF Unrepeated, N
      <4>3. published'[i + 1] \in Key
        BY <1>1, <4>1 DEF N
      <4>4. QED
        BY <1>1, <4>2, <4>3 DEF Key
    <3>4. QED
      BY <3>2, <3>3
  <2>3. dataKeys' \subseteq Id
    BY <1>3, <1>4 DEF IndInv, TypeOK
  <2>4. /\ pc' \in [Client -> Status] /\ batch' \in [Client -> Seq(Id)]
        /\ wanted' \in [Client -> Id \cup {NoId}]
    <3>1. pc' \in [Client -> Status]
      BY DEF IndInv, TypeOK, Status
    <3>2. batch' \in [Client -> Seq(Id)]
      BY DEF IndInv, TypeOK
    <3>3. wanted' \in [Client -> Id \cup {NoId}]
      BY DEF IndInv, TypeOK
    <3>4. QED
      BY <3>1, <3>2, <3>3
  <2>5. QED
    BY <1>1, <2>1, <2>2, <2>3, <2>4 DEF IndInv, TypeOK
<1>17. QED
  BY <1>9, <1>10, <1>11, <1>13, <1>14, <1>15, <1>16 DEF IndInv

\* What a step that leaves Redis alone cannot disturb.
LEMMA ServerSame ==
  ASSUME IndInv, UNCHANGED server
  PROVE  OneChain' /\ Started' /\ DataOfItems'
  BY DEF IndInv, server, OneChain, Exists, Started, DataOfItems

\* Every step of the chain keeps the invariant.
LEMMA NextKeepsIndInv == IndInv /\ [Next]_vars => IndInv'
<1> SUFFICES ASSUME IndInv, [Next]_vars PROVE IndInv'
  OBVIOUS
<1>1. ASSUME NEW c \in Client, HeadItem(c) PROVE IndInv'
  <2>1. /\ pc[c] = "idle"
        /\ current' = [current EXCEPT ![c] = ItemType(HeadKey, chainKeys'[HeadKey])]
        /\ UNCHANGED <<dataKeys, pc, wanted, batch, broken, published>>
    BY <1>1 DEF HeadItem
  <2>2. CASE Exists(HeadKey)
    <3>1. UNCHANGED server
      BY <1>1, <2>1, <2>2 DEF HeadItem, server
    <3>2. chainKeys'[HeadKey] = chainKeys[HeadKey]
          /\ chainKeys[HeadKey] \in Id \cup {NoId}
      BY <2>2, <3>1 DEF server, IndInv, TypeOK, Exists
    <3>3. /\ current'[c] = ItemType(HeadKey, chainKeys[HeadKey])
          /\ \A d \in Client \ {c} : current'[d] = current[d]
          /\ current' \in [Client -> [id : Key \cup {NoId}, nextID : Id \cup {NoId}]]
      BY <2>1, <3>2 DEF IndInv, TypeOK, ItemType, Key
    <3>4. TypeOK'
      BY <2>1, <3>1, <3>3 DEF IndInv, TypeOK, server
    <3>5. HeldItemsAreTrue'
      BY <2>1, <2>2, <3>1, <3>3
      DEF IndInv, HeldItemsAreTrue, Holds, Exists, ItemType, server
    <3>6. Batches' /\ OnTheWay'
      BY <2>1, <3>3 DEF IndInv, Batches, OnTheWay, Holds
    <3>7. QED
      BY <3>1, <3>4, <3>5, <3>6, ServerSame DEF IndInv
  <2>3. CASE ~Exists(HeadKey)
    <3>1. Len(published) = 1
      <4>1. Len(published) \in Nat /\ Len(published) >= 1
        BY ChainFacts
      <4>2. \A n \in Nat : n >= 1 => n = 1 \/ (n > 1 /\ 1 \in 1..(n - 1))
        OBVIOUS
      <4>3. ~ Len(published) > 1
        BY <2>3, <4>1, <4>2, ChainFacts
      <4>4. QED
        BY <4>1, <4>2, <4>3
    <3>2. \A k \in Key : ~Exists(k)
      BY <2>3, <3>1, ChainFacts DEF Exists
    <3>3. DOMAIN chainKeys = {}
      BY <3>2 DEF Exists, IndInv, TypeOK
    <3>4. DOMAIN chainKeys' = {HeadKey} /\ chainKeys'[HeadKey] = NoId
      <4>1. Set([k \in {HeadKey} |-> NoId])
        BY <1>1, <2>3 DEF HeadItem
      <4>2. QED
        BY <3>3, <4>1 DEF Set
    <3>5. /\ current'[c] = ItemType(HeadKey, NoId)
          /\ \A d \in Client \ {c} : current'[d] = current[d]
          /\ current' \in [Client -> [id : Key \cup {NoId}, nextID : Id \cup {NoId}]]
      BY <2>1, <3>4 DEF IndInv, TypeOK, ItemType, Key
    <3>6. \A d \in Client : ~Holds(d)
      BY <3>3 DEF IndInv, HeldItemsAreTrue, Exists
    <3>7. dataKeys = {}
      BY <3>1, ChainFacts
    <3>8. TypeOK'
      BY <2>1, <3>4, <3>5 DEF IndInv, TypeOK, Key
    <3>9. HeldItemsAreTrue'
      BY <2>1, <3>3, <3>4, <3>5, <3>6, <3>7
      DEF IndInv, HeldItemsAreTrue, Holds, Exists, ItemType
    <3>10. Batches' /\ OnTheWay'
      BY <2>1, <3>5, <3>6 DEF IndInv, Batches, OnTheWay, Holds
    <3>11. OneChain' /\ Started' /\ DataOfItems'
      BY <2>1, <3>1, <3>4, ChainFacts
      DEF IndInv, OneChain, Started, DataOfItems, Exists
    <3>12. QED
      BY <3>8, <3>9, <3>10, <3>11 DEF IndInv
  <2>4. QED
    BY <2>2, <2>3
<1>2. ASSUME NEW c \in Client, LoadUntil(c) PROVE IndInv'
  <2>1. PICK i \in 2..Len(published) : wanted' = [wanted EXCEPT ![c] = published[i]]
    BY <1>2 DEF LoadUntil
  <2>2. /\ pc' = [pc EXCEPT ![c] = "data"] /\ ~Holds(c)
        /\ UNCHANGED <<server, current, batch, broken>>
    BY <1>2 DEF LoadUntil, Goto
  <2>3. published[i] \in dataKeys /\ published[i] \in Id
    BY ChainFacts DEF IndInv, TypeOK
  <2>4. TypeOK'
    BY <2>1, <2>2, <2>3 DEF IndInv, TypeOK, server, Status
  <2>5. HeldItemsAreTrue'
    BY <2>1, <2>2, <2>3 DEF IndInv, TypeOK, HeldItemsAreTrue, Holds, Exists, server
  <2>6. Batches'
    BY <2>2 DEF IndInv, TypeOK, Batches
  <2>7. OnTheWay'
    BY <2>1, <2>2 DEF IndInv, TypeOK, OnTheWay, Holds, server
  <2>8. QED
    BY <2>2, <2>4, <2>5, <2>6, <2>7, ServerSame DEF IndInv
<1>3. ASSUME NEW c \in Client, FindNext(c) PROVE IndInv'
  <2>1. PICK next \in Id :
          /\ IF current[c].nextID # NoId THEN next = current[c].nextID
             ELSE Exists(current[c].id) /\ next = chainKeys[current[c].id]
          /\ wanted' = [wanted EXCEPT ![c] = next]
    BY <1>3 DEF FindNext
  <2>2. /\ pc' = [pc EXCEPT ![c] = "data"] /\ Holds(c)
        /\ UNCHANGED <<server, current, batch, broken>>
    BY <1>3 DEF FindNext, Goto
  <2>3. Exists(current[c].id) /\ next = chainKeys[current[c].id] /\ next # NoId
    BY <2>1, <2>2, RedisAssumption DEF IndInv, HeldItemsAreTrue
  <2>4. /\ next \in dataKeys
        /\ \E i \in 1..(Len(published) - 1) :
             published[i] = current[c].id /\ published[i + 1] = next
    BY <2>3, LinkLeadsOn
  <2>5. TypeOK'
    BY <2>1, <2>2 DEF IndInv, TypeOK, server, Status
  <2>6. HeldItemsAreTrue'
    BY <2>1, <2>2, <2>4 DEF IndInv, TypeOK, HeldItemsAreTrue, Holds, Exists, server
  <2>7. Batches'
    BY <2>2 DEF IndInv, TypeOK, Batches
  <2>8. OnTheWay'
    BY <2>1, <2>2, <2>4 DEF IndInv, TypeOK, OnTheWay, Holds, server
  <2>9. QED
    BY <2>2, <2>5, <2>6, <2>7, <2>8, ServerSame DEF IndInv
<1>4. ASSUME NEW c \in Client, FetchData(c) PROVE IndInv'
  <2>1. /\ pc[c] = "data" /\ wanted[c] \in dataKeys /\ pc' = [pc EXCEPT ![c] = "link"]
        /\ UNCHANGED <<server, current, wanted, batch, broken>>
    BY <1>4 DEF FetchData, Goto
  <2>2. Exists(wanted[c])
    BY <2>1, DataHaveLinks
  <2>3. TypeOK'
    BY <2>1 DEF IndInv, TypeOK, server, Status
  <2>4. HeldItemsAreTrue'
    BY <2>1, <2>2 DEF IndInv, TypeOK, HeldItemsAreTrue, Holds, Exists, server
  <2>5. Batches' /\ OnTheWay'
    BY <2>1 DEF IndInv, TypeOK, Batches, OnTheWay, Holds, server
  <2>6. QED
    BY <2>1, <2>3, <2>4, <2>5, ServerSame DEF IndInv
<1>5. ASSUME NEW c \in Client, FetchLink(c) PROVE IndInv'
  <2>1. /\ pc[c] = "link" /\ Exists(wanted[c]) /\ pc' = [pc EXCEPT ![c] = "idle"]
        /\ current' = [current EXCEPT ![c] = ItemType(wanted[c], chainKeys[wanted[c]])]
        /\ wanted' = [wanted EXCEPT ![c] = NoId]
        /\ UNCHANGED <<server, batch, broken>>
    BY <1>5 DEF FetchLink, Goto
  <2>2. /\ current'[c] = ItemType(wanted[c], chainKeys[wanted[c]])
        /\ \A d \in Client \ {c} : current'[d] = current[d]
        /\ current' \in [Client -> [id : Key \cup {NoId}, nextID : Id \cup {NoId}]]
    BY <2>1 DEF IndInv, TypeOK, ItemType, Key, Exists
  <2>3. TypeOK'
    BY <2>1, <2>2 DEF IndInv, TypeOK, server, Status
  <2>4. HeldItemsAreTrue'
    BY <2>1, <2>2
    DEF IndInv, TypeOK, HeldItemsAreTrue, Holds, Exists, ItemType, server
  <2>5. Batches' /\ OnTheWay'
    BY <2>1, <2>2 DEF IndInv, TypeOK, Batches, OnTheWay, Holds, server
  <2>6. QED
    BY <2>1, <2>3, <2>4, <2>5, ServerSame DEF IndInv
<1>6. ASSUME NEW c \in Client, CallAppendAfter(c) PROVE IndInv'
  <2>1. PICK n \in 1..MaxBatch : \E ids \in [1..n -> Id] :
          /\ \A i, j \in 1..n : ids[i] = ids[j] => i = j
          /\ batch' = [batch EXCEPT ![c] = ids]
    BY <1>6 DEF CallAppendAfter
  <2>2. PICK ids \in [1..n -> Id] :
          /\ \A i, j \in 1..n : ids[i] = ids[j] => i = j
          /\ batch' = [batch EXCEPT ![c] = ids]
    BY <2>1
  <2>3. /\ pc[c] = "idle" /\ pc' = [pc EXCEPT ![c] = "appending"]
        /\ UNCHANGED <<server, current, wanted, broken>>
    BY <1>6 DEF CallAppendAfter, Goto
  <2>4. ids \in Seq(Id) /\ Len(ids) = n /\ ids # <<>> /\ n \in Nat
    BY <2>2, RedisAssumption
  <2>5. Unrepeated(ids)
    BY <2>2, <2>4 DEF Unrepeated
  <2>6. TypeOK'
    BY <2>2, <2>3, <2>4 DEF IndInv, TypeOK, server, Status
  <2>7. HeldItemsAreTrue'
    BY <2>3 DEF IndInv, TypeOK, HeldItemsAreTrue, Holds, Exists, server
  <2>8. Batches'
    BY <2>2, <2>3, <2>4, <2>5 DEF IndInv, TypeOK, Batches
  <2>9. OnTheWay'
    BY <2>3 DEF IndInv, TypeOK, OnTheWay, Holds, server
  <2>10. QED
    BY <2>3, <2>6, <2>7, <2>8, <2>9, ServerSame DEF IndInv
<1>7. ASSUME NEW c \in Client, UNCHANGED <<server, current>>,
             pc' = [pc EXCEPT ![c] = "idle"], batch' = [batch EXCEPT ![c] = <<>>],
             \/ wanted' = wanted
             \/ wanted' = [wanted EXCEPT ![c] = NoId],
             broken' \subseteq Client
      PROVE  IndInv'
  <2>1. \A d \in Client : pc'[d] # "idle" =>
          /\ pc'[d] = pc[d] /\ wanted'[d] = wanted[d] /\ batch'[d] = batch[d]
    BY <1>7 DEF IndInv, TypeOK
  <2>2. TypeOK'
    <3>1. /\ pc' \in [Client -> Status] /\ wanted' \in [Client -> Id \cup {NoId}]
      BY <1>7 DEF IndInv, TypeOK, Status
    <3>2. batch' \in [Client -> Seq(Id)]
      BY <1>7 DEF IndInv, TypeOK
    <3>3. QED
      BY <1>7, <3>1, <3>2 DEF IndInv, TypeOK, server
  <2>3. HeldItemsAreTrue'
    BY <1>7, <2>1 DEF IndInv, HeldItemsAreTrue, Holds, Exists, server
  <2>4. Batches'
    BY <2>1 DEF IndInv, Batches
  <2>5. OnTheWay'
    BY <1>7, <2>1 DEF IndInv, OnTheWay, Holds, server
  <2>6. QED
    BY <1>7, <2>2, <2>3, <2>4, <2>5, ServerSame DEF IndInv
<1>8. ASSUME NEW c \in Client, AppendAnswered(c) PROVE IndInv'
  <2>1. /\ pc[c] = "appending" /\ pc' = [pc EXCEPT ![c] = "idle"]
        /\ batch' = [batch EXCEPT ![c] = <<>>]
        /\ current' = current /\ wanted' = wanted /\ broken' = broken
        /\ IF CanAppend(c) THEN DoAppend(c) ELSE UNCHANGED server
    BY <1>8 DEF AppendAnswered, Goto
  <2>2. broken' \subseteq Client
    BY <2>1 DEF IndInv, TypeOK
  <2>3. QED
    BY <1>7, <2>1, <2>2, AppendKeepsIndInv
<1>9. ASSUME NEW c \in Client, ConnectionLost(c) PROVE IndInv'
  <2>1. /\ pc' = [pc EXCEPT ![c] = "idle"]
        /\ batch' = [batch EXCEPT ![c] = <<>>]
        /\ current' = current /\ wanted' = [wanted EXCEPT ![c] = NoId]
        /\ broken' = broken \cup {c}
        /\ \/ pc[c] = "appending" /\ CanAppend(c) /\ DoAppend(c)
           \/ UNCHANGED server
    BY <1>9 DEF ConnectionLost, Goto
  <2>2. broken' \subseteq Client
    BY <2>1 DEF IndInv, TypeOK
  <2>3. QED
    BY <1>7, <2>1, <2>2, AppendKeepsIndInv
<1>10. ASSUME NEW c \in Client, Reconnect(c) PROVE IndInv'
  <2>1. /\ broken' = broken \ {c} /\ current' = [current EXCEPT ![c] = NoItem]
        /\ UNCHANGED <<server, pc, wanted, batch>>
    BY <1>10 DEF Reconnect
  <2>2. /\ current'[c] = NoItem
        /\ \A d \in Client \ {c} : current'[d] = current[d]
        /\ current' \in [Client -> [id : Key \cup {NoId}, nextID : Id \cup {NoId}]]
    BY <2>1 DEF IndInv, TypeOK, NoItem, ItemType
  <2>3. TypeOK'
    BY <2>1, <2>2 DEF IndInv, TypeOK, server
  <2>4. HeldItemsAreTrue'
    BY <2>1, <2>2 DEF IndInv, HeldItemsAreTrue, Holds, Exists, server
  <2>5. Batches' /\ OnTheWay'
    BY <2>1, <2>2 DEF IndInv, Batches, OnTheWay, Holds, server
  <2>6. QED
    BY <2>1, <2>3, <2>4, <2>5, ServerSame DEF IndInv
<1>11. CASE UNCHANGED vars
  <2>1. UNCHANGED <<server, current, pc, wanted, batch, broken>>
    BY <1>11 DEF vars, server
  <2>2. TypeOK' /\ HeldItemsAreTrue' /\ Batches' /\ OnTheWay'
    BY <2>1 DEF IndInv, server, TypeOK, HeldItemsAreTrue, Holds, Exists, Batches,
                OnTheWay
  <2>3. QED
    BY <2>1, <2>2, ServerSame DEF IndInv
<1>12. QED
  BY <1>1, <1>2, <1>3, <1>4, <1>5, <1>6, <1>8, <1>9, <1>10, <1>11 DEF Next

\* The invariant holds in every reachable state.
THEOREM IndInvHolds == Spec => []IndInv
  BY InitIndInv, NextKeepsIndInv, PTL DEF Spec

\* Every variable keeps its type.
THEOREM TypeCorrect == Spec => []TypeOK
<1>1. IndInv => TypeOK
  BY DEF IndInv
<1>2. QED
  BY <1>1, IndInvHolds, PTL

\* The chain keys are one list without repetition, whoever appends at the
\* same time, and whichever replies are lost (appendAfter's script).
THEOREM ChainIsOne == Spec => []OneChain
<1>1. IndInv => OneChain
  BY DEF IndInv
<1>2. QED
  BY <1>1, IndInvHolds, PTL

\* fetchNext and loadUntil read data and link with separate commands, and
\* still get a true item; what they are about to read is always there.
THEOREM ItemsAreTrue == Spec => []HeldItemsAreTrue
<1>1. IndInv => HeldItemsAreTrue
  BY DEF IndInv
<1>2. QED
  BY <1>1, IndInvHolds, PTL

-----------------------------------------------------------------------------
\* The chain implements SharedChain.  The place of an item is its place
\* among the appends, and that of a client is the place of its item.
PlaceIn(s, item) == IF item = NoItem THEN 0 ELSE IndexOf(s, item.id) - 1

\* The place of a client depends on the appends and on its item only.
LEMMA PlaceOfClient ==
  ASSUME NEW c \in Client
  PROVE  /\ PositionOf(current[c]) = PlaceIn(published, current[c])
         /\ PositionOf(current[c])' = PlaceIn(published', current'[c])
<1>1. PositionOf(current[c]) = PlaceIn(published, current[c])
  BY DEF PositionOf, PlaceIn, IndexOf
<1>2. PositionOf(current[c])' = PlaceIn(published', current'[c])
  BY DEF PositionOf, PlaceIn, IndexOf
<1>3. QED
  BY <1>1, <1>2

\* The item a client holds is on the chain, and the place of an item of the
\* chain is between the head's and that of the last item.
LEMMA Places ==
  ASSUME IndInv
  PROVE  /\ Len(Tail(published)) = Len(published) - 1
         /\ \A i \in 1..Len(published), n \in Id \cup {NoId} :
              PlaceIn(published, ItemType(published[i], n)) = i - 1
         /\ PlaceIn(published, NoItem) = 0
         /\ \A c \in Client :
              Holds(c) => \E i \in 1..Len(published) : published[i] = current[c].id
<1>1. ASSUME NEW i \in 1..Len(published), NEW n \in Id \cup {NoId}
      PROVE  PlaceIn(published, ItemType(published[i], n)) = i - 1
  <2>1. published[i] # NoId
    BY ChainFacts
  <2>2. ItemType(published[i], n) # NoItem /\ ItemType(published[i], n).id = published[i]
    BY <2>1 DEF ItemType, NoItem
  <2>3. IndexOf(published, published[i]) = i
    BY ChainFacts, IndexIsRight
  <2>4. QED
    BY <2>2, <2>3 DEF PlaceIn
<1>2. PlaceIn(published, NoItem) = 0
  BY DEF PlaceIn
<1>3. \A c \in Client :
        Holds(c) => \E i \in 1..Len(published) : published[i] = current[c].id
  BY ChainFacts DEF IndInv, HeldItemsAreTrue, Exists
<1>4. Len(Tail(published)) = Len(published) - 1
  <2>1. published \in Seq(Key) /\ published # <<>>
    BY ChainFacts
  <2>2. QED
    BY <2>1
<1>5. QED
  BY <1>1, <1>2, <1>3, <1>4

\* A client that begins anew, at the head, at an id it remembers or with no
\* item at all, resumes from some place of the chain.
LEMMA MoveIsSeek ==
  ASSUME IndInv, NEW c \in Client, NEW item,
         current' = [current EXCEPT ![c] = item], published' = published,
         \/ item = NoItem
         \/ \E i \in 1..Len(published), n \in Id \cup {NoId} :
              item = ItemType(published[i], n)
  PROVE  Abstract!Seek(c)
<1> DEFINE k == PlaceIn(published, item)
<1>1. k \in 0..Len(Tail(published))
  <2>1. CASE item = NoItem
    BY <2>1, Places, ChainFacts
  <2>2. ASSUME NEW i \in 1..Len(published), NEW n \in Id \cup {NoId},
               item = ItemType(published[i], n)
        PROVE  k \in 0..Len(Tail(published))
    <3>1. k = i - 1
      BY <2>2, Places
    <3> HIDE DEF k
    <3>2. QED
      BY <3>1, Places, ChainFacts
  <2>3. QED
    BY <2>1, <2>2
<1>2. \A d \in Client :
        PositionOf(current[d])' = IF d = c THEN k ELSE PositionOf(current[d])
  <2>1. \A d \in Client : current'[d] = IF d = c THEN item ELSE current[d]
    BY DEF IndInv, TypeOK
  <2>2. QED
    BY <2>1, PlaceOfClient
<1> HIDE DEF k
<1>3. [d \in Client |-> PositionOf(current[d])]'
        = [[d \in Client |-> PositionOf(current[d])] EXCEPT ![c] = k]
  BY <1>2
<1>4. QED
  BY <1>1, <1>3 DEF Abstract!Seek

\* fetchNext walks over exactly one item, the next one, whatever was appended
\* while it read.
LEMMA FetchIsAdvance ==
  ASSUME IndInv, NEW c \in Client, FetchLink(c), Holds(c)
  PROVE  Abstract!Advance(c)
<1>1. /\ pc[c] = "link" /\ Exists(wanted[c]) /\ published' = published
      /\ current' = [current EXCEPT ![c] = ItemType(wanted[c], chainKeys[wanted[c]])]
  BY DEF FetchLink, server
<1>2. PICK i \in 1..(Len(published) - 1) :
        published[i] = current[c].id /\ published[i + 1] = wanted[c]
  BY <1>1 DEF IndInv, OnTheWay
<1>3. /\ i \in 1..Len(published) /\ i + 1 \in 1..Len(published)
      /\ (i + 1) - 1 = (i - 1) + 1 /\ i - 1 < Len(Tail(published))
  BY Places, ChainFacts
<1>4. chainKeys[wanted[c]] \in Id \cup {NoId}
  BY <1>1 DEF IndInv, TypeOK, Exists
<1>5. /\ PlaceIn(published, current[c]) = i - 1
      /\ PlaceIn(published, current'[c]) = (i + 1) - 1
  <2>1. /\ current[c].nextID \in Id \cup {NoId}
        /\ current[c] = ItemType(published[i], current[c].nextID)
    BY <1>2 DEF IndInv, TypeOK, ItemType
  <2>2. current'[c] = ItemType(published[i + 1], chainKeys[wanted[c]])
    BY <1>1, <1>2 DEF IndInv, TypeOK
  <2>3. QED
    BY <1>3, <1>4, <2>1, <2>2, Places
<1>6. \A d \in Client : PositionOf(current[d])' =
        IF d = c THEN PositionOf(current[c]) + 1 ELSE PositionOf(current[d])
  <2>1. \A d \in Client \ {c} : current'[d] = current[d]
    BY <1>1 DEF IndInv, TypeOK
  <2>2. PositionOf(current[c])' = PositionOf(current[c]) + 1
    BY <1>1, <1>3, <1>5, PlaceOfClient
  <2>3. QED
    BY <1>1, <2>1, <2>2, PlaceOfClient
<1>7. [d \in Client |-> PositionOf(current[d])]'
        = [[d \in Client |-> PositionOf(current[d])] EXCEPT ![c] = @ + 1]
  BY <1>6
<1>8. [d \in Client |-> PositionOf(current[d])][c] < Len(Tail(published))
  BY <1>3, <1>5, PlaceOfClient
<1>9. QED
  BY <1>1, <1>7, <1>8 DEF Abstract!Advance

\* The script of appendAfter, answered or not: the client had walked over
\* every item, and its items come next, all of them and no other.
LEMMA AppendIsExtend ==
  ASSUME IndInv, NEW c \in Client, pc[c] = "appending", CanAppend(c), DoAppend(c),
         current' = current
  PROVE  Abstract!Extend(c)
<1> DEFINE p == published
           b == batch[c]
<1>1. /\ published' = p \o b /\ Unrepeated(p \o b)
      /\ b \in Seq(Key) /\ b # <<>> /\ p \in Seq(Key) /\ p # <<>> /\ p[1] = HeadKey
      /\ current[c].id = p[Len(p)]
      /\ Len(p) \in Nat /\ Len(p) \in 1..Len(p)
  <2>1. published' = p \o b /\ Unrepeated(p \o b)
    BY Longer, AppendEffect
  <2>2. b \in Seq(Key) /\ b # <<>> /\ current[c].id = p[Len(p)]
    BY AppendingFacts
  <2>3. /\ p \in Seq(Key) /\ p # <<>> /\ p[1] = HeadKey
        /\ Len(p) \in Nat /\ Len(p) \in 1..Len(p)
    BY ChainFacts
  <2>4. QED
    BY <2>1, <2>2, <2>3
<1> HIDE DEF b, p
<1>2. /\ Tail(p \o b) \in Seq(Key \ {p[1]})
      /\ Len(Tail(p \o b)) > Len(Tail(p))
      /\ \A i \in 1..Len(Tail(p)) : Tail(p \o b)[i] = Tail(p)[i]
      /\ Unrepeated(Tail(p \o b))
  BY <1>1, ChainExtended
<1>3. Tail(published') \in Seq(Id)
  BY <1>1, <1>2, ChainFacts
<1>4. PositionOf(current[c]) = Len(Tail(p))
  <2>1. /\ current[c].nextID \in Id \cup {NoId}
        /\ current[c] = ItemType(p[Len(p)], current[c].nextID)
    BY <1>1 DEF IndInv, TypeOK, ItemType
  <2>2. PlaceIn(p, current[c]) = Len(p) - 1 /\ Len(Tail(p)) = Len(p) - 1
    BY <1>1, <2>1, Places DEF p
  <2>3. QED
    BY <2>2, PlaceOfClient DEF p
<1>5. ASSUME NEW d \in Client
      PROVE  PositionOf(current[d])' = PositionOf(current[d])
  <2>1. CASE current[d] = NoItem
    BY <2>1, PlaceOfClient DEF PlaceIn
  <2>2. CASE current[d] # NoItem
    <3>1. current[d].id \in ElementsOf(p)
      BY <2>2, Places DEF Holds, ElementsOf, p
    <3>2. IndexOf(p \o b, current[d].id) = IndexOf(p, current[d].id)
      BY <1>1, <3>1, IndexStays
    <3>3. QED
      BY <1>1, <2>2, <3>2, PlaceOfClient DEF PlaceIn, p
  <2>3. QED
    BY <2>1, <2>2
<1>6. QED
  <2>1. [d \in Client |-> PositionOf(current[d])]'
          = [d \in Client |-> PositionOf(current[d])]
    BY <1>5
  <2>2. [d \in Client |-> PositionOf(current[d])][c] = Len(Tail(published))
    BY <1>4 DEF p
  <2>3. /\ Len(Tail(published')) > Len(Tail(published))
        /\ \A i \in 1..Len(Tail(published)) : Tail(published')[i] = Tail(published)[i]
        /\ Abstract!Distinct(Tail(published'))
    BY <1>1, <1>2 DEF Abstract!Distinct, Unrepeated, p
  <2>4. QED
    BY <1>3, <2>1, <2>2, <2>3 DEF Abstract!Extend

\* Every step of the chain is a step of SharedChain, or changes nothing of it.
LEMMA StepIsChainStep ==
  IndInv /\ [Next]_vars => [Abstract!ChainNext]_(Abstract!chainVars)
<1> SUFFICES ASSUME IndInv, [Next]_vars
             PROVE  [Abstract!ChainNext]_(Abstract!chainVars)
  OBVIOUS
<1>1. ASSUME NEW c \in Client, HeadItem(c), IndInv' PROVE Abstract!Seek(c)
  <2>1. /\ current' = [current EXCEPT ![c] = ItemType(HeadKey, chainKeys'[HeadKey])]
        /\ published' = published
    BY <1>1 DEF HeadItem
  <2>2. chainKeys'[HeadKey] \in Id \cup {NoId}
    <3>1. CASE Exists(HeadKey)
      BY <1>1, <3>1 DEF HeadItem, IndInv, TypeOK, Exists
    <3>2. CASE ~Exists(HeadKey)
      BY <1>1, <3>2 DEF HeadItem, Set
    <3>3. QED
      BY <3>1, <3>2
  <2>3. HeadKey = published[1] /\ 1 \in 1..Len(published)
    BY ChainFacts
  <2>4. QED
    BY <2>1, <2>2, <2>3, MoveIsSeek
<1>2. ASSUME NEW c \in Client, FetchLink(c), ~Holds(c) PROVE Abstract!Seek(c)
  <2>1. /\ pc[c] = "link" /\ Exists(wanted[c]) /\ published' = published
        /\ current' = [current EXCEPT ![c] =
                         ItemType(wanted[c], chainKeys[wanted[c]])]
    BY <1>2 DEF FetchLink, server
  <2>2. chainKeys[wanted[c]] \in Id \cup {NoId}
    BY <2>1 DEF IndInv, TypeOK, Exists
  <2>3. \E i \in 1..Len(published) : published[i] = wanted[c]
    BY <2>1, ChainFacts DEF Exists
  <2>4. QED
    BY <2>1, <2>2, <2>3, MoveIsSeek
<1>3. ASSUME NEW c \in Client, Reconnect(c) PROVE Abstract!Seek(c)
  BY <1>3, MoveIsSeek DEF Reconnect, server
<1>4. ASSUME UNCHANGED <<current, published>>
      PROVE  UNCHANGED Abstract!chainVars
  <2>1. \A d \in Client : PositionOf(current[d])' = PositionOf(current[d])
    BY <1>4, PlaceOfClient
  <2>2. QED
    BY <1>4, <2>1 DEF Abstract!chainVars
<1>5. ASSUME NEW c \in Client, AppendAnswered(c) \/ ConnectionLost(c)
      PROVE  Abstract!Extend(c) \/ UNCHANGED <<current, published>>
  <2>1. /\ current' = current
        /\ \/ pc[c] = "appending" /\ CanAppend(c) /\ DoAppend(c)
           \/ UNCHANGED server
    BY <1>5 DEF AppendAnswered, ConnectionLost
  <2>2. CASE UNCHANGED server
    BY <2>1, <2>2 DEF server
  <2>3. CASE pc[c] = "appending" /\ CanAppend(c) /\ DoAppend(c)
    BY <2>1, <2>3, AppendIsExtend
  <2>4. QED
    BY <2>1, <2>2, <2>3
<1>6. ASSUME NEW c \in Client,
             LoadUntil(c) \/ FindNext(c) \/ FetchData(c) \/ CallAppendAfter(c)
      PROVE  UNCHANGED <<current, published>>
  BY <1>6 DEF LoadUntil, FindNext, FetchData, CallAppendAfter, server
<1>7. CASE UNCHANGED vars
  BY <1>4, <1>7 DEF vars
<1>8. IndInv'
  BY NextKeepsIndInv
<1>9. QED
  BY <1>1, <1>2, <1>3, <1>4, <1>5, <1>6, <1>7, <1>8, FetchIsAdvance
  DEF Next, Abstract!ChainNext

\* The Redis chain keeps the promise of SharedChain: an append takes effect
\* only for a client that has walked over every item on the chain, and all of
\* it at once, with connections lost under any command.
THEOREM RedisImplementsSharedChain == Spec => ImplementsSharedChain
<1>1. Init => Abstract!ChainInit
  BY DEF Init, Abstract!ChainInit, PositionOf
<1>2. QED
  BY <1>1, StepIsChainStep, IndInvHolds, PTL
  DEF Spec, ImplementsSharedChain, Abstract!ChainSpec
=============================================================================
