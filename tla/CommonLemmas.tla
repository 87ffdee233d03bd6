---------------------------- MODULE CommonLemmas ----------------------------
(***************************************************************************)
(* Facts that several proofs share and that are about no model.  The       *)
(* chains need the history of a chain: a sequence without repetition whose *)
(* first element is the head, to which batches of new items are appended.  *)
(* The remote calls need sequences that are changed at one place, and      *)
(* tables with their mirror images; the listeners, sequences of which some *)
(* elements are left out.                                                  *)
(***************************************************************************)
EXTENDS Naturals, Sequences, SequenceTheorems, WellFoundedInduction, TLAPS

\* No element occurs twice.
Unrepeated(s) == \A i, j \in 1..Len(s) : s[i] = s[j] => i = j

\* The elements, and the place of one of them.
ElementsOf(s) == {s[i] : i \in 1..Len(s)}
IndexOf(s, x) == CHOOSE i \in 1..Len(s) : s[i] = x

\* The elements of a concatenation: those of the first sequence at their
\* places, and those of the second after them (appendAfter).
LEMMA ConcatPlaces ==
  ASSUME NEW S, NEW s \in Seq(S), NEW t \in Seq(S)
  PROVE  /\ s \o t \in Seq(S) /\ Len(s \o t) = Len(s) + Len(t)
         /\ Len(s) \in Nat /\ Len(t) \in Nat
         /\ \A i \in 1..Len(s) : i \in 1..Len(s \o t) /\ (s \o t)[i] = s[i]
         /\ \A i \in 1..Len(t) :
              Len(s) + i \in 1..Len(s \o t) /\ (s \o t)[Len(s) + i] = t[i]
         /\ \A i \in 1..Len(s \o t) :
              i \in 1..Len(s) \/ (i - Len(s) \in 1..Len(t) /\ i = Len(s) + (i - Len(s)))
  OBVIOUS

\* Appending new items, different from each other, repeats nothing.
LEMMA ConcatUnrepeated ==
  ASSUME NEW S, NEW s \in Seq(S), NEW t \in Seq(S),
         Unrepeated(s), Unrepeated(t),
         \A i \in 1..Len(s), j \in 1..Len(t) : s[i] # t[j]
  PROVE  Unrepeated(s \o t)
<1> SUFFICES ASSUME NEW i \in 1..Len(s \o t), NEW j \in 1..Len(s \o t),
                    (s \o t)[i] = (s \o t)[j]
             PROVE  i = j
  BY DEF Unrepeated
<1>1. CASE i \in 1..Len(s) /\ j \in 1..Len(s)
  <2>1. s[i] = s[j]
    BY <1>1, ConcatPlaces
  <2>2. QED
    BY <1>1, <2>1 DEF Unrepeated
<1>2. CASE i \notin 1..Len(s) /\ j \notin 1..Len(s)
  <2> DEFINE k == i - Len(s)
             l == j - Len(s)
  <2>1. k \in 1..Len(t) /\ l \in 1..Len(t) /\ i = Len(s) + k /\ j = Len(s) + l
    BY <1>2, ConcatPlaces
  <2> HIDE DEF k, l
  <2>2. (s \o t)[Len(s) + k] = t[k] /\ (s \o t)[Len(s) + l] = t[l]
    BY <2>1, ConcatPlaces
  <2>3. t[k] = t[l]
    BY <2>1, <2>2
  <2>4. k = l
    BY <2>1, <2>3 DEF Unrepeated
  <2>5. QED
    BY <2>1, <2>4
<1>3. ASSUME NEW m \in 1..Len(s), NEW n \in 1..Len(s \o t), n \notin 1..Len(s)
      PROVE  (s \o t)[m] # (s \o t)[n]
  <2> DEFINE k == n - Len(s)
  <2>1. k \in 1..Len(t) /\ n = Len(s) + k
    BY <1>3, ConcatPlaces
  <2> HIDE DEF k
  <2>2. (s \o t)[n] = t[k] /\ (s \o t)[m] = s[m]
    BY <2>1, ConcatPlaces
  <2>3. QED
    BY <2>1, <2>2
<1>4. QED
  BY <1>1, <1>2, <1>3

\* An item that is in the sequence has a place there, and only one.
LEMMA IndexIsRight ==
  ASSUME NEW s, Unrepeated(s), NEW i \in 1..Len(s)
  PROVE  IndexOf(s, s[i]) = i
  BY DEF Unrepeated, IndexOf

\* An append moves no item that was there.
LEMMA IndexStays ==
  ASSUME NEW S, NEW s \in Seq(S), NEW t \in Seq(S), Unrepeated(s \o t),
         NEW x \in ElementsOf(s)
  PROVE  IndexOf(s \o t, x) = IndexOf(s, x) /\ IndexOf(s, x) \in 1..Len(s)
<1>1. PICK i \in 1..Len(s) : s[i] = x
  BY DEF ElementsOf
<1>2. i \in 1..Len(s \o t) /\ (s \o t)[i] = x
  BY <1>1, ConcatPlaces
<1>3. Unrepeated(s)
  <2> SUFFICES ASSUME NEW j \in 1..Len(s), NEW k \in 1..Len(s), s[j] = s[k]
               PROVE  j = k
    BY DEF Unrepeated
  <2>1. /\ j \in 1..Len(s \o t) /\ k \in 1..Len(s \o t)
        /\ (s \o t)[j] = s[j] /\ (s \o t)[k] = s[k]
    BY ConcatPlaces
  <2>2. QED
    BY <2>1 DEF Unrepeated
<1>4. IndexOf(s, x) = i
  BY <1>1, <1>3, IndexIsRight
<1>5. IndexOf(s \o t, x) = i
  BY <1>2, IndexIsRight
<1>6. QED
  BY <1>4, <1>5

\* Without the head, a chain is the sequence of its items.
LEMMA ChainOf ==
  ASSUME NEW K, NEW s \in Seq(K), s # <<>>, Unrepeated(s)
  PROVE  /\ Tail(s) \in Seq(K \ {s[1]}) /\ Len(Tail(s)) = Len(s) - 1
         /\ \A i \in 1..Len(Tail(s)) : i + 1 \in 1..Len(s) /\ Tail(s)[i] = s[i + 1]
         /\ Unrepeated(Tail(s))
<1>1. /\ Len(s) \in Nat /\ Len(s) >= 1 /\ Len(Tail(s)) = Len(s) - 1
      /\ \A i \in 1..Len(Tail(s)) : i + 1 \in 1..Len(s) /\ Tail(s)[i] = s[i + 1]
  OBVIOUS
<1>2. Tail(s) \in Seq(K \ {s[1]})
  <2>1. \A i \in 2..Len(s) : s[i] \in K \ {s[1]}
    BY <1>1 DEF Unrepeated
  <2>2. SubSeq(s, 2, Len(s)) \in Seq(K \ {s[1]})
    BY <1>1, <2>1, SubSeqProperties
  <2>3. QED
    BY <2>2, TailIsSubSeq
<1>3. Unrepeated(Tail(s))
  BY <1>1 DEF Unrepeated
<1>4. QED
  BY <1>1, <1>2, <1>3

\* What a successful append does to the chain: it is longer, with the old
\* items at their places and no item twice.
LEMMA ChainExtended ==
  ASSUME NEW K, NEW s \in Seq(K), s # <<>>,
         NEW t \in Seq(K), t # <<>>, Unrepeated(s \o t)
  PROVE  /\ Tail(s \o t) \in Seq(K \ {s[1]})
         /\ Len(Tail(s \o t)) > Len(Tail(s))
         /\ \A i \in 1..Len(Tail(s)) : Tail(s \o t)[i] = Tail(s)[i]
         /\ Unrepeated(Tail(s \o t))
<1> DEFINE u == s \o t
<1>1. Len(s) \in Nat /\ Len(s) >= 1 /\ Len(t) \in Nat /\ Len(t) >= 1
  OBVIOUS
<1>2. /\ u \in Seq(K) /\ Len(u) = Len(s) + Len(t)
      /\ \A i \in 1..Len(s) : u[i] = s[i]
  BY ConcatPlaces
<1>3. Unrepeated(u)
  OBVIOUS
<1> HIDE DEF u
<1>4. u # <<>> /\ u[1] = s[1]
  BY <1>1, <1>2
<1>5. /\ Tail(u) \in Seq(K \ {u[1]}) /\ Len(Tail(u)) = Len(u) - 1
      /\ \A i \in 1..Len(Tail(u)) : Tail(u)[i] = u[i + 1]
      /\ Unrepeated(Tail(u))
  BY <1>2, <1>3, <1>4, ChainOf
<1>6. Len(Tail(s)) = Len(s) - 1 /\ \A i \in 1..Len(Tail(s)) : Tail(s)[i] = s[i + 1]
  BY <1>1
<1>7. \A i \in 1..Len(Tail(s)) : Tail(u)[i] = Tail(s)[i]
  BY <1>1, <1>2, <1>5, <1>6
<1>8. QED
  BY <1>1, <1>2, <1>4, <1>5, <1>6, <1>7 DEF u

-----------------------------------------------------------------------------
(* Sequences of which one element is another, or that have one more.       *)

LEMMA Changed ==
  ASSUME NEW S, NEW s \in Seq(S), NEW i \in 1..Len(s), NEW x \in S
  PROVE  /\ [s EXCEPT ![i] = x] \in Seq(S)
         /\ Len([s EXCEPT ![i] = x]) = Len(s)
         /\ [s EXCEPT ![i] = x][i] = x
         /\ \A j \in 1..Len(s) : j # i => [s EXCEPT ![i] = x][j] = s[j]
OBVIOUS

LEMMA OneMore ==
  ASSUME NEW S, NEW s \in Seq(S), NEW x
  PROVE  s \o <<x>> = Append(s, x)
OBVIOUS

LEMMA Added ==
  ASSUME NEW S, NEW s \in Seq(S), NEW x \in S
  PROVE  /\ Append(s, x) \in Seq(S)
         /\ Len(Append(s, x)) = Len(s) + 1 /\ Len(s) \in Nat
         /\ Append(s, x)[Len(s) + 1] = x
         /\ \A j \in 1..Len(s) : Append(s, x)[j] = s[j]
         /\ DOMAIN Append(s, x) = 1..(Len(s) + 1) /\ DOMAIN s = 1..Len(s)
OBVIOUS

\* What is taken from the front of a sequence, and what stays.
LEMMA Taken ==
  ASSUME NEW S, NEW s \in Seq(S), s # <<>>
  PROVE  /\ Head(s) \in S /\ Tail(s) \in Seq(S)
         /\ 1 \in DOMAIN s /\ s[1] = Head(s)
         /\ DOMAIN Tail(s) = 1..(Len(s) - 1) /\ DOMAIN s = 1..Len(s) /\ Len(s) \in Nat
         /\ \A k \in DOMAIN Tail(s) : k \in Nat /\ k + 1 \in DOMAIN s /\ Tail(s)[k] = s[k + 1]
OBVIOUS

\* A sequence with an element more has those of before and that one.
LEMMA AddedOne ==
  ASSUME NEW S, NEW s \in Seq(S), NEW x \in S, NEW k \in DOMAIN Append(s, x)
  PROVE  \/ k \in DOMAIN s /\ Append(s, x)[k] = s[k]
         \/ k = Len(s) + 1 /\ Append(s, x)[k] = x
<1>1. k \in 1..(Len(s) + 1) /\ Len(s) \in Nat /\ DOMAIN s = 1..Len(s)
  BY Added
<1>2. k \in 1..Len(s) \/ k = Len(s) + 1
  BY <1>1
<1>3. QED
  BY <1>1, <1>2, Added

\* A least number is in every set of numbers that is not empty.
LEMMA Least ==
  ASSUME NEW S \in SUBSET Nat, S # {}
  PROVE  \E n \in S : \A m \in S : ~(m < n)
<1> DEFINE R == OpToRel(<, Nat)
<1>1. IsWellFoundedOn(R, Nat)
  BY NatLessThanWellFounded
<1>2. \A x, y \in Nat : x < y => <<x, y>> \in R
  BY DEF OpToRel
<1> HIDE DEF R
<1>3. \E n \in S : \A m \in S : ~(<<m, n>> \in R)
  BY <1>1, WFMin
<1>4. QED
  BY <1>2, <1>3

-----------------------------------------------------------------------------
(* Tables of pairs, and their mirror images.                               *)

Mirror(T) == {<<p[2], p[1]>> : p \in T}

\* The mirror image of a table with an entry more.
LEMMA MirrorAdded ==
  ASSUME NEW S, NEW a, NEW b
  PROVE  Mirror(S \cup {<<a, b>>}) = Mirror(S) \cup {<<b, a>>}
<1> DEFINE L == {<<p[2], p[1]>> : p \in S \cup {<<a, b>>}}
           R == {<<p[2], p[1]>> : p \in S}
<1>1. <<a, b>>[1] = a /\ <<a, b>>[2] = b
  OBVIOUS
<1>2. \A y \in L : y \in R \/ y = <<b, a>>
  <2> SUFFICES ASSUME NEW p \in S \cup {<<a, b>>} PROVE <<p[2], p[1]>> \in R \/ <<p[2], p[1]>> = <<b, a>>
    OBVIOUS
  <2>1. p \in S \/ p = <<a, b>>
    OBVIOUS
  <2>2. QED
    BY <1>1, <2>1
<1>3. \A y \in R : y \in L
  OBVIOUS
<1>4. <<b, a>> \in L
  <2>1. <<a, b>> \in S \cup {<<a, b>>}
    OBVIOUS
  <2>2. <<<<a, b>>[2], <<a, b>>[1]>> \in L
    BY <2>1
  <2>3. QED
    BY <1>1, <2>2
<1> HIDE DEF L, R
<1>5. L = R \cup {<<b, a>>}
  BY <1>2, <1>3, <1>4
<1>6. QED
  BY <1>5 DEF L, R, Mirror

OneNumber(T, v) == \A p \in T : v[p[1]].num = p[2]
Dropped(D, n) == {p \in D : p[1] # n}
TableWithout(T, D, n) == {r \in T : r[1] \notin {q[2] : q \in {k \in D : k[1] = n}}}

\* The mirror image of a table without one number, where an id has one number.
LEMMA MirrorWithout ==
  ASSUME NEW T, NEW n, NEW v, OneNumber(T, v),
         NEW D, D = Mirror(T), NEW U, U = TableWithout(T, D, n)
  PROVE  (\A p \in T : p \in U <=> p[2] # n) /\ Dropped(D, n) = Mirror(U)
<1> USE DEF OneNumber, Mirror, Dropped, TableWithout
<1> DEFINE ids == {q[2] : q \in {k \in D : k[1] = n}}
<1>0. U = {r \in T : r[1] \notin ids}
  OBVIOUS
<1>1. \A p \in T : p[1] \in ids <=> p[2] = n
  <2> SUFFICES ASSUME NEW p \in T PROVE p[1] \in ids <=> p[2] = n
    OBVIOUS
  <2>1. ASSUME p[2] = n PROVE p[1] \in ids
    <3>1. <<p[2], p[1]>> \in D
      OBVIOUS
    <3>2. <<p[2], p[1]>>[1] = n /\ <<p[2], p[1]>>[2] = p[1]
      BY <2>1
    <3>3. <<p[2], p[1]>> \in {k \in D : k[1] = n}
      BY <3>1, <3>2
    <3>4. QED
      BY <3>2, <3>3
  <2>2. ASSUME p[1] \in ids PROVE p[2] = n
    <3>1. PICK r \in T : r[2] = n /\ p[1] = r[1]
      BY <2>2
    <3>2. QED
      BY <3>1
  <2>3. QED
    BY <2>1, <2>2
<1> HIDE DEF ids
<1>2. \A p \in T : p \in U <=> p[2] # n
  BY <1>0, <1>1
<1>3. {p \in D : p[1] # n} = {<<p[2], p[1]>> : p \in U}
  <2>1. ASSUME NEW p \in D, p[1] # n PROVE p \in {<<r[2], r[1]>> : r \in U}
    <3>1. PICK r \in T : p = <<r[2], r[1]>>
      OBVIOUS
    <3>2. r \in U
      BY <1>2, <2>1, <3>1
    <3>3. QED
      BY <3>1, <3>2
  <2>2. ASSUME NEW r \in U PROVE <<r[2], r[1]>> \in D /\ <<r[2], r[1]>>[1] # n
    <3>1. r \in T /\ r[2] # n
      BY <1>0, <1>2
    <3>2. QED
      BY <3>1
  <2>3. QED
    BY <2>1, <2>2
<1>4. QED
  BY <1>2, <1>3

-----------------------------------------------------------------------------
(* Sequences of which some elements are left out.                          *)

\* f[k] is what stays of the first k elements of q without the places in D.
Keeping(f, q, D) ==
  f = [k \in 0..Len(q) |-> IF k = 0 THEN <<>>
                           ELSE IF k \in D THEN f[k - 1] ELSE Append(f[k - 1], q[k])]

\* f has the values of the first n.
KeptTo(f, n, q, D) ==
  f = [k \in 0..n |-> IF k = 0 THEN <<>>
                      ELSE IF k \in D THEN f[k - 1] ELSE Append(f[k - 1], q[k])]

LEMMA KeepingExists ==
  ASSUME NEW q, NEW D, Len(q) \in Nat
  PROVE  \E f : Keeping(f, q, D)
<1> DEFINE Bad == {n \in 0..Len(q) : ~\E f : KeptTo(f, n, q, D)}
<1>1. Bad = {}
  <2> SUFFICES ASSUME Bad # {} PROVE FALSE
    OBVIOUS
  <2>1. PICK n \in Bad : \A m \in Bad : ~(m < n)
    <3>1. Bad \in SUBSET Nat
      OBVIOUS
    <3> HIDE DEF Bad
    <3>2. QED
      BY <3>1, Least
  <2>2. n # 0
    <3> DEFINE g == [k \in 0..0 |-> <<>>]
    <3>1. 0..0 = {0}
      OBVIOUS
    <3>2. KeptTo(g, 0, q, D)
      BY <3>1 DEF KeptTo
    <3>3. QED
      BY <2>1, <3>2
  <2>3. n \in Nat /\ n - 1 \in 0..Len(q) /\ n - 1 < n /\ n \in 0..Len(q)
    BY <2>1, <2>2
  <2>4. PICK f : KeptTo(f, n - 1, q, D)
    BY <2>1, <2>3
  <2> DEFINE V(k) == IF k = 0 THEN <<>>
                     ELSE IF k \in D THEN f[k - 1] ELSE Append(f[k - 1], q[k])
             g == [k \in 0..n |-> V(k)]
  <2>5. \A k \in 0..(n - 1) : f[k] = V(k)
    <3>1. f = [k \in 0..(n - 1) |-> V(k)]
      BY <2>4 DEF KeptTo
    <3> HIDE DEF V
    <3>2. QED
      BY <3>1
  <2>6. \A k \in 0..n : g[k] = V(k)
    OBVIOUS
  <2>7. \A k \in 0..n : k # 0 => g[k - 1] = f[k - 1]
    <3> HIDE DEF g
    <3>1. \A k \in 0..n : k # 0 => k - 1 \in 0..(n - 1) /\ k - 1 \in 0..n
      BY <2>3
    <3> HIDE DEF V
    <3>2. QED
      BY <2>5, <2>6, <3>1
  <2>8. \A k \in 0..n : V(k) = IF k = 0 THEN <<>>
                               ELSE IF k \in D THEN g[k - 1] ELSE Append(g[k - 1], q[k])
    <3> HIDE DEF g
    <3>1. QED
      BY <2>7
  <2>9. KeptTo(g, n, q, D)
    <3>1. g = [k \in 0..n |-> V(k)]
      OBVIOUS
    <3> HIDE DEF g, V
    <3>2. QED
      BY <2>8, <3>1 DEF KeptTo
  <2>10. QED
    BY <2>1, <2>9
<1>2. Len(q) \in 0..Len(q)
  OBVIOUS
<1>3. QED
  BY <1>1, <1>2 DEF KeptTo, Keeping

\* w is made of the elements of q at the places outside of D, in their order.
MadeOf(w, q, D) ==
  /\ \A k \in DOMAIN w : \E j \in DOMAIN q : j \notin D /\ w[k] = q[j]
  /\ \A j \in DOMAIN q : j \in D \/ \E k \in DOMAIN w : w[k] = q[j]

\* What stays is that, and repeats no key g[x] of an element x that q does not.
LEMMA KeepingKeeps ==
  ASSUME NEW S, NEW q \in Seq(S), NEW D, NEW g, NEW f, Keeping(f, q, D)
  PROVE  /\ f[Len(q)] \in Seq(S) /\ MadeOf(f[Len(q)], q, D)
         /\ (\A k, l \in DOMAIN q : g[q[k]] = g[q[l]] => k = l) =>
              \A k, l \in DOMAIN f[Len(q)] : g[f[Len(q)][k]] = g[f[Len(q)][l]] => k = l
<1> DEFINE N == Len(q)
<1>1. N \in Nat /\ DOMAIN q = 1..N
  OBVIOUS
<1>2. /\ f[0] = <<>>
      /\ \A n \in 1..N : f[n] = IF n \in D THEN f[n - 1] ELSE Append(f[n - 1], q[n])
  <2> HIDE DEF N
  <2>1. \A n \in 0..N : f[n] = IF n = 0 THEN <<>>
                               ELSE IF n \in D THEN f[n - 1] ELSE Append(f[n - 1], q[n])
    BY DEF Keeping, N
  <2>2. 0 \in 0..N /\ \A n \in 1..N : n \in 0..N /\ n # 0
    BY <1>1
  <2>3. QED
    BY <2>1, <2>2
<1> DEFINE Once == \A k, l \in 1..N : g[q[k]] = g[q[l]] => k = l
           Right(n) == /\ f[n] \in Seq(S)
                       /\ \A k \in DOMAIN f[n] : \E j \in 1..n : j \notin D /\ f[n][k] = q[j]
                       /\ \A j \in 1..n : j \in D \/ \E k \in DOMAIN f[n] : f[n][k] = q[j]
                       /\ Once => \A k, l \in DOMAIN f[n] : g[f[n][k]] = g[f[n][l]] => k = l
           Bad == {n \in 0..N : ~Right(n)}
<1>3. Bad = {}
  <2> SUFFICES ASSUME Bad # {} PROVE FALSE
    OBVIOUS
  <2>1. PICK n \in Bad : \A m \in Bad : ~(m < n)
    <3>1. Bad \in SUBSET Nat
      BY <1>1
    <3> HIDE DEF Bad
    <3>2. QED
      BY <3>1, Least
  <2>2. n # 0
    <3>1. Right(0)
      BY <1>2
    <3>2. QED
      BY <2>1, <3>1
  <2>3. n \in 1..N /\ n - 1 \in 0..N /\ n - 1 < n /\ n \in 0..N /\ n \in Nat
    BY <1>1, <2>1, <2>2
  <2>4. Right(n - 1)
    <3> HIDE DEF Right
    <3>1. QED
      BY <2>1, <2>3
  <2>5. n \in 1..n /\ \A j \in 1..n : j = n \/ j \in 1..(n - 1)
    BY <2>3
  <2>6. \A j \in 1..(n - 1) : j \in 1..n /\ j \in 1..N /\ j # n
    BY <1>1, <2>3
  <2>7. CASE n \in D
    <3>1. f[n] = f[n - 1]
      BY <1>2, <2>3, <2>7
    <3>2. Right(n)
      <4>1. f[n] \in Seq(S)
        BY <2>4, <3>1
      <4>2. \A k \in DOMAIN f[n] : \E j \in 1..n : j \notin D /\ f[n][k] = q[j]
        BY <2>4, <2>6, <3>1
      <4>3. \A j \in 1..n : j \in D \/ \E k \in DOMAIN f[n] : f[n][k] = q[j]
        BY <2>4, <2>5, <2>7, <3>1
      <4>4. Once => \A k, l \in DOMAIN f[n] : g[f[n][k]] = g[f[n][l]] => k = l
        <5> HIDE DEF Once
        <5>1. QED
          BY <2>4, <3>1
      <4>5. QED
        BY <4>1, <4>2, <4>3, <4>4
    <3> HIDE DEF Right
    <3>3. QED
      BY <2>1, <3>2
  <2>8. CASE n \notin D
    <3> DEFINE s == f[n - 1]
    <3>1. f[n] = Append(s, q[n]) /\ s \in Seq(S) /\ q[n] \in S
      <4>1. f[n] = Append(s, q[n])
        BY <1>2, <2>3, <2>8
      <4>2. s \in Seq(S)
        BY <2>4
      <4>3. q[n] \in S
        BY <2>3
      <4>4. QED
        BY <4>1, <4>2, <4>3
    <3>2. /\ \A k \in DOMAIN s : \E j \in 1..(n - 1) : j \notin D /\ s[k] = q[j]
          /\ \A j \in 1..(n - 1) : j \in D \/ \E k \in DOMAIN s : s[k] = q[j]
          /\ Once => \A k, l \in DOMAIN s : g[s[k]] = g[s[l]] => k = l
      BY <2>4
    <3> HIDE DEF s
    <3>3. \A k \in DOMAIN f[n] : \/ k \in DOMAIN s /\ f[n][k] = s[k]
                                 \/ k = Len(s) + 1 /\ f[n][k] = q[n]
      BY <3>1, AddedOne
    <3>4. /\ f[n] \in Seq(S)
          /\ \A k \in DOMAIN s : k \in DOMAIN f[n] /\ f[n][k] = s[k]
          /\ Len(s) + 1 \in DOMAIN f[n] /\ f[n][Len(s) + 1] = q[n]
      <4>1. /\ f[n] \in Seq(S) /\ f[n][Len(s) + 1] = q[n]
            /\ \A j \in 1..Len(s) : f[n][j] = s[j]
            /\ DOMAIN f[n] = 1..(Len(s) + 1) /\ DOMAIN s = 1..Len(s) /\ Len(s) \in Nat
        BY <3>1, Added
      <4>2. Len(s) + 1 \in 1..(Len(s) + 1) /\ \A j \in 1..Len(s) : j \in 1..(Len(s) + 1)
        BY <4>1
      <4>3. QED
        BY <4>1, <4>2
    <3>5. \A k \in DOMAIN f[n] : \E j \in 1..n : j \notin D /\ f[n][k] = q[j]
      BY <2>5, <2>6, <2>8, <3>2, <3>3
    <3>6. \A j \in 1..n : j \in D \/ \E k \in DOMAIN f[n] : f[n][k] = q[j]
      BY <2>5, <3>2, <3>4
    <3>7. ASSUME Once, NEW k \in DOMAIN f[n], NEW l \in DOMAIN f[n], g[f[n][k]] = g[f[n][l]]
          PROVE  k = l
      <4>1. \A i \in DOMAIN s : g[s[i]] # g[q[n]]
        BY <2>3, <2>6, <3>2, <3>7
      <4> HIDE DEF Once
      <4>2. CASE k \in DOMAIN s /\ f[n][k] = s[k]
        BY <3>2, <3>3, <3>7, <4>1, <4>2
      <4>3. CASE k = Len(s) + 1 /\ f[n][k] = q[n]
        BY <3>3, <3>7, <4>1, <4>3
      <4>4. QED
        BY <3>3, <4>2, <4>3
    <3>8. Right(n)
      BY <3>4, <3>5, <3>6, <3>7
    <3> HIDE DEF Right
    <3>9. QED
      BY <2>1, <3>8
  <2>9. QED
    BY <2>7, <2>8
<1>4. Right(N)
  <2>1. N \in 0..N
    BY <1>1
  <2> HIDE DEF Right
  <2>2. QED
    BY <1>3, <2>1
<1>5. PICK w : w = f[N]
  OBVIOUS
<1>6. /\ w \in Seq(S)
      /\ \A k \in DOMAIN w : \E j \in 1..N : j \notin D /\ w[k] = q[j]
      /\ \A j \in 1..N : j \in D \/ \E k \in DOMAIN w : w[k] = q[j]
      /\ Once => \A k, l \in DOMAIN w : g[w[k]] = g[w[l]] => k = l
  BY <1>4, <1>5
<1>7. f[Len(q)] = w
  BY <1>5
<1> HIDE DEF N
<1>8. MadeOf(w, q, D)
  BY <1>1, <1>6 DEF MadeOf
<1>9. QED
  BY <1>1, <1>6, <1>7, <1>8
=============================================================================
