------------------------ MODULE SubscriptionsProofs ------------------------
(***************************************************************************)
(* Proofs about subscriptions: the loops of account_update and of          *)
(* decent_housekeeping do what they are for although they change the key   *)
(* of the index they walk over.                                            *)
(***************************************************************************)
EXTENDS Subscriptions, InductionTheorems, SequenceTheorems

-----------------------------------------------------------------------------
(* Indexes                                                                 *)

(* An index of the objects ids, those of P first.                          *)
IndexOk(index, ids, P) ==
  /\ index \in Seq(ids)
  /\ \A id \in ids : \E i \in 1..Len(index) : index[i] = id
  /\ \A i, j \in 1..Len(index) : index[i] = index[j] => i = j
  /\ \A i, j \in 1..Len(index) : index[i] \in P /\ index[j] \notin P => i < j

(* P are the objects with the key that comes first.                        *)
Keyed(subs, first, ids, P) ==
  \A x, y \in ids : Before(subs, first, x, y) <=> x \in P /\ y \notin P

(* Two sequences one after the other.                                      *)
LEMMA ConcatFacts ==
  ASSUME NEW T, NEW a \in Seq(T), NEW c \in Seq(T)
  PROVE  /\ a \o c \in Seq(T) /\ Len(a \o c) = Len(a) + Len(c)
         /\ \A i \in 1..Len(a) : (a \o c)[i] = a[i]
         /\ \A i \in (Len(a) + 1)..(Len(a) + Len(c)) : (a \o c)[i] = c[i - Len(a)]
<1>1. Len(a) \in Nat /\ Len(c) \in Nat
  OBVIOUS
<1>2. a \o c \in Seq(T) /\ Len(a \o c) = Len(a) + Len(c)
  BY ConcatProperties
<1>3. \A i \in 1..(Len(a) + Len(c)) : (a \o c)[i] = IF i <= Len(a) THEN a[i] ELSE c[i - Len(a)]
  BY ConcatProperties
<1>4. \A i \in 1..Len(a) : i \in 1..(Len(a) + Len(c)) /\ i <= Len(a)
  BY <1>1
<1>5. \A i \in (Len(a) + 1)..(Len(a) + Len(c)) : i \in 1..(Len(a) + Len(c)) /\ ~(i <= Len(a))
  BY <1>1
<1> QED BY <1>2, <1>3, <1>4, <1>5

(* An element put in.                                                      *)
LEMMA InsertAtFacts ==
  ASSUME NEW T, NEW q \in Seq(T), NEW k \in 1..(Len(q) + 1), NEW e \in T
  PROVE  /\ InsertAt(q, k, e) \in Seq(T)
         /\ Len(InsertAt(q, k, e)) = Len(q) + 1
         /\ \A i \in 1..(k - 1) : InsertAt(q, k, e)[i] = q[i]
         /\ InsertAt(q, k, e)[k] = e
         /\ \A i \in (k + 1)..(Len(q) + 1) : InsertAt(q, k, e)[i] = q[i - 1]
<1> DEFINE a == SubSeq(q, 1, k - 1)
           b == <<e>>
           c == SubSeq(q, k, Len(q))
           d == a \o b
<1>1. a \in Seq(T) /\ Len(a) = k - 1 /\ \A i \in 1..(k - 1) : a[i] = q[i]
  OBVIOUS
<1>2. c \in Seq(T) /\ Len(c) = Len(q) - k + 1 /\ \A i \in 1..(Len(q) - k + 1) : c[i] = q[k + i - 1]
  OBVIOUS
<1>3. b \in Seq(T) /\ Len(b) = 1 /\ b[1] = e
  OBVIOUS
<1>4. InsertAt(q, k, e) = d \o c
  BY DEF InsertAt
<1>5. k \in Nat /\ k >= 1 /\ Len(q) \in Nat /\ k <= Len(q) + 1
  OBVIOUS
<1> HIDE DEF a, b, c
<1>6. /\ d \in Seq(T) /\ Len(d) = Len(a) + Len(b)
      /\ \A i \in 1..Len(a) : d[i] = a[i]
      /\ \A i \in (Len(a) + 1)..(Len(a) + Len(b)) : d[i] = b[i - Len(a)]
  BY <1>1, <1>3, ConcatFacts
<1> HIDE DEF d
<1>7. Len(d) = k /\ d[k] = e /\ \A i \in 1..(k - 1) : d[i] = q[i]
  <2>1. Len(d) = k
    BY <1>1, <1>3, <1>5, <1>6
  <2>2. d[k] = b[k - (k - 1)]
    BY <1>1, <1>3, <1>5, <1>6
  <2>3. k - (k - 1) = 1
    BY <1>5
  <2> QED BY <2>1, <2>2, <2>3, <1>1, <1>3, <1>6
<1>8. /\ d \o c \in Seq(T) /\ Len(d \o c) = k + Len(c)
      /\ \A i \in 1..k : (d \o c)[i] = d[i]
      /\ \A i \in (k + 1)..(k + Len(c)) : (d \o c)[i] = c[i - k]
  BY <1>2, <1>6, <1>7, ConcatFacts
<1>9. ASSUME NEW i \in (k + 1)..(Len(q) + 1) PROVE (d \o c)[i] = q[i - 1]
  <2>1. i \in (k + 1)..(k + Len(c)) /\ i - k \in 1..(Len(q) - k + 1) /\ k + (i - k) - 1 = i - 1
    BY <1>2, <1>5
  <2> QED BY <2>1, <1>2, <1>8
<1>10. k \in 1..k /\ \A i \in 1..(k - 1) : i \in 1..k
  BY <1>5
<1> QED BY <1>2, <1>4, <1>5, <1>7, <1>8, <1>9, <1>10

(* An element taken out.                                                   *)
LEMMA RemoveAtFacts ==
  ASSUME NEW T, NEW q \in Seq(T), NEW k \in 1..Len(q)
  PROVE  /\ RemoveAt(q, k) \in Seq(T)
         /\ Len(RemoveAt(q, k)) = Len(q) - 1
         /\ \A i \in 1..(k - 1) : RemoveAt(q, k)[i] = q[i]
         /\ \A i \in k..(Len(q) - 1) : RemoveAt(q, k)[i] = q[i + 1]
<1> DEFINE a == SubSeq(q, 1, k - 1)
           c == SubSeq(q, k + 1, Len(q))
<1>1. a \in Seq(T) /\ Len(a) = k - 1 /\ \A i \in 1..(k - 1) : a[i] = q[i]
  OBVIOUS
<1>2. c \in Seq(T) /\ Len(c) = Len(q) - k /\ \A i \in 1..(Len(q) - k) : c[i] = q[k + i]
  OBVIOUS
<1>3. RemoveAt(q, k) = a \o c
  BY DEF RemoveAt
<1>4. k \in Nat /\ k >= 1 /\ Len(q) \in Nat /\ k <= Len(q)
  OBVIOUS
<1> HIDE DEF a, c
<1>5. /\ a \o c \in Seq(T) /\ Len(a \o c) = Len(a) + Len(c)
      /\ \A i \in 1..Len(a) : (a \o c)[i] = a[i]
      /\ \A i \in (Len(a) + 1)..(Len(a) + Len(c)) : (a \o c)[i] = c[i - Len(a)]
  BY <1>1, <1>2, ConcatFacts
<1>6. Len(a) + Len(c) = Len(q) - 1
  BY <1>1, <1>2, <1>4
<1>7. ASSUME NEW i \in k..(Len(q) - 1) PROVE (a \o c)[i] = q[i + 1]
  <2>1. /\ i \in (Len(a) + 1)..(Len(a) + Len(c)) /\ i - Len(a) \in 1..(Len(q) - k)
        /\ k + (i - Len(a)) = i + 1
    BY <1>1, <1>2, <1>4
  <2> QED BY <2>1, <1>2, <1>5
<1> QED BY <1>1, <1>3, <1>5, <1>6, <1>7

(* Where an element is.                                                    *)
LEMMA PositionFacts ==
  ASSUME NEW index, NEW ids, NEW P, IndexOk(index, ids, P), NEW id \in ids
  PROVE  /\ Position(index, id) \in 1..Len(index) /\ index[Position(index, id)] = id
         /\ \A i \in 1..Len(index) : index[i] = id <=> i = Position(index, id)
<1>1. /\ index \in Seq(ids) /\ \E i \in 1..Len(index) : index[i] = id
      /\ \A i, j \in 1..Len(index) : index[i] = index[j] => i = j
  BY DEF IndexOk
<1>2. DOMAIN index = 1..Len(index)
  BY <1>1
<1>3. Position(index, id) \in 1..Len(index) /\ index[Position(index, id)] = id
  BY <1>1, <1>2 DEF Position
<1> QED BY <1>1, <1>3

(* The least of some positions.                                            *)
LEMMA MinFacts ==
  ASSUME NEW n \in Nat, NEW S \in SUBSET (1..n), S # {}
  PROVE  Min(S) \in S /\ \A i \in S : Min(S) <= i
<1>1. S \in SUBSET Nat
  OBVIOUS
<1>2. \E m \in S : \A k \in S : m <= k
  BY <1>1, LeastNatural
<1> QED BY <1>2 DEF Min

(* ++ goes to the next position.                                           *)
LEMMA FollowingFacts ==
  ASSUME NEW index, NEW ids, NEW P, IndexOk(index, ids, P), NEW k \in 1..Len(index)
  PROVE  /\ index[k] \in ids
         /\ Following(index, index[k]) = IF k = Len(index) THEN 0 ELSE index[k + 1]
<1>1. index[k] \in ids
  BY DEF IndexOk
<1>2. Position(index, index[k]) = k
  BY <1>1, PositionFacts
<1> QED BY <1>1, <1>2 DEF Following

(* Insertion keeps the order.                                              *)
LEMMA LinkOk ==
  ASSUME NEW index, NEW ids, NEW P, IndexOk(index, ids, P), NEW id, id \notin ids,
         NEW subs, NEW first, Keyed(subs, first, ids \cup {id}, P)
  PROVE  IndexOk(Link(index, id, subs, first), ids \cup {id}, P)
<1> DEFINE T == ids \cup {id}
           n == Len(index)
           after == {i \in DOMAIN index : Before(subs, first, id, index[i])}
           k == IF after = {} THEN n + 1 ELSE Min(after)
           r == InsertAt(index, k, id)
<1>1. /\ index \in Seq(ids) /\ index \in Seq(T) /\ n \in Nat /\ DOMAIN index = 1..n
      /\ \A i \in 1..n : index[i] \in ids
  BY DEF IndexOk
<1>2. /\ \A x \in ids : \E i \in 1..n : index[i] = x
      /\ \A i, j \in 1..n : index[i] = index[j] => i = j
      /\ \A i, j \in 1..n : index[i] \in P /\ index[j] \notin P => i < j
  BY DEF IndexOk
<1>3. Link(index, id, subs, first) = r
  BY DEF Link
<1>4. \A i \in 1..n : i \in after <=> id \in P /\ index[i] \notin P
  BY <1>1 DEF Keyed
<1>5. /\ k \in 1..(n + 1)
      /\ id \notin P => k = n + 1
      /\ id \in P => \A i \in 1..n : IF i < k THEN index[i] \in P ELSE index[i] \notin P
  <2>1. CASE after = {}
    BY <2>1, <1>1, <1>4
  <2>2. CASE after # {}
    <3>1. after \in SUBSET (1..n)
      BY <1>1
    <3>2. k \in after /\ \A i \in after : k <= i
      <4> HIDE DEF after
      <4> QED BY <3>1, <2>2, <1>1, MinFacts
    <3> HIDE DEF k, after
    <3>3. k \in 1..n /\ id \in P /\ index[k] \notin P
      BY <3>1, <3>2, <1>4
    <3>4. ASSUME NEW i \in 1..n, i < k PROVE index[i] \in P
      <4>1. ~(k <= i)
        BY <3>3, <3>4
      <4> QED BY <4>1, <3>2, <3>3, <1>4
    <3>5. ASSUME NEW i \in 1..n, ~(i < k) PROVE index[i] \notin P
      BY <3>3, <3>5, <1>2
    <3> QED BY <3>3, <3>4, <3>5
  <2> QED BY <2>1, <2>2
<1> HIDE DEF k, after
<1>6. /\ r \in Seq(T) /\ Len(r) = n + 1
      /\ \A i \in 1..(k - 1) : r[i] = index[i]
      /\ r[k] = id
      /\ \A i \in (k + 1)..(n + 1) : r[i] = index[i - 1]
  <2>1. id \in T /\ k \in 1..(Len(index) + 1) /\ index \in Seq(T)
    BY <1>1, <1>5
  <2> HIDE DEF T
  <2> QED BY <2>1, InsertAtFacts
<1> HIDE DEF r
<1> DEFINE Old(i) == IF i < k THEN i ELSE i - 1
<1>7. ASSUME NEW i \in 1..(n + 1), i # k
      PROVE  Old(i) \in 1..n /\ r[i] = index[Old(i)] /\ r[i] \in ids
  <2>1. CASE i < k
    BY <2>1, <1>1, <1>5, <1>6
  <2>2. CASE i > k
    BY <2>2, <1>1, <1>5, <1>6
  <2> QED BY <2>1, <2>2, <1>5, <1>7
<1>8. \A x \in T : \E i \in 1..(n + 1) : r[i] = x
  <2>1. ASSUME NEW x \in ids PROVE \E i \in 1..(n + 1) : r[i] = x
    <3>1. PICK j \in 1..n : index[j] = x
      BY <1>2
    <3>2. CASE j < k
      BY <3>1, <3>2, <1>1, <1>5, <1>6
    <3>3. CASE ~(j < k)
      <4>1. j + 1 \in (k + 1)..(n + 1) /\ (j + 1) - 1 = j /\ j + 1 \in 1..(n + 1)
        BY <3>3, <1>1, <1>5
      <4> QED BY <4>1, <3>1, <1>6
    <3> QED BY <3>2, <3>3
  <2> QED BY <2>1, <1>5, <1>6
<1>9. ASSUME NEW i \in 1..(n + 1), NEW j \in 1..(n + 1), r[i] = r[j] PROVE i = j
  <2>1. CASE i # k /\ j # k
    <3>1. Old(i) = Old(j)
      BY <1>7, <1>9, <2>1, <1>2
    <3> QED BY <3>1, <2>1, <1>5
  <2>2. CASE i = k \/ j = k
    BY <2>2, <1>6, <1>7, <1>9
  <2> QED BY <2>1, <2>2
<1>10. ASSUME NEW i \in 1..(n + 1), NEW j \in 1..(n + 1), r[i] \in P, r[j] \notin P PROVE i < j
  <2>1. CASE i # k /\ j # k
    <3>1. Old(i) < Old(j)
      BY <1>7, <1>10, <2>1, <1>2
    <3> QED BY <3>1, <2>1, <1>5
  <2>2. CASE i = k
    <3>1. id \in P /\ j # k
      BY <2>2, <1>6, <1>10
    <3>2. ~(Old(j) < k)
      BY <3>1, <1>5, <1>7, <1>10
    <3> QED BY <3>1, <3>2, <2>2, <1>5
  <2>3. CASE j = k
    <3>1. id \notin P /\ i # k
      BY <2>3, <1>6, <1>10
    <3> QED BY <3>1, <2>3, <1>5, <1>1
  <2> QED BY <2>1, <2>2, <2>3
<1> QED BY <1>3, <1>6, <1>8, <1>9, <1>10 DEF IndexOk

(* Taking an element out keeps the order of the others.                    *)
LEMMA RemoveOk ==
  ASSUME NEW index, NEW ids, NEW P, IndexOk(index, ids, P), NEW id \in ids
  PROVE  IndexOk(RemoveAt(index, Position(index, id)), ids \ {id}, P)
<1> DEFINE k == Position(index, id)
           n == Len(index)
           r == RemoveAt(index, k)
           T == ids \ {id}
           New(i) == IF i < k THEN i ELSE i + 1
<1>1. /\ index \in Seq(ids) /\ n \in Nat
      /\ \A i \in 1..n : index[i] \in ids
  BY DEF IndexOk
<1>2. /\ \A x \in ids : \E i \in 1..n : index[i] = x
      /\ \A i, j \in 1..n : index[i] = index[j] => i = j
      /\ \A i, j \in 1..n : index[i] \in P /\ index[j] \notin P => i < j
  BY DEF IndexOk
<1>3. k \in 1..n /\ \A i \in 1..n : index[i] = id <=> i = k
  BY PositionFacts
<1> HIDE DEF k
<1>4. /\ r \in Seq(ids) /\ Len(r) = n - 1
      /\ \A i \in 1..(k - 1) : r[i] = index[i]
      /\ \A i \in k..(n - 1) : r[i] = index[i + 1]
  BY <1>1, <1>3, RemoveAtFacts
<1> HIDE DEF r
<1>5. ASSUME NEW i \in 1..(n - 1) PROVE New(i) \in 1..n /\ New(i) # k /\ r[i] = index[New(i)]
  <2>1. CASE i < k
    BY <2>1, <1>1, <1>3, <1>4
  <2>2. CASE ~(i < k)
    BY <2>2, <1>1, <1>3, <1>4
  <2> QED BY <2>1, <2>2
<1>6. r \in Seq(T)
  <2>1. \A i \in 1..(n - 1) : r[i] \in T
    BY <1>1, <1>3, <1>5
  <2> QED BY <2>1, <1>1, <1>4
<1>7. ASSUME NEW x \in T PROVE \E i \in 1..(n - 1) : r[i] = x
  <2>1. PICK j \in 1..n : index[j] = x
    BY <1>2
  <2>2. j # k
    BY <2>1, <1>3
  <2>3. CASE j < k
    <3>1. j \in 1..(k - 1) /\ j \in 1..(n - 1)
      BY <2>3, <1>1, <1>3
    <3> QED BY <3>1, <2>1, <1>4
  <2>4. CASE j > k
    <3>1. j - 1 \in k..(n - 1) /\ j - 1 \in 1..(n - 1) /\ (j - 1) + 1 = j
      BY <2>4, <1>1, <1>3
    <3> QED BY <3>1, <2>1, <1>4
  <2> QED BY <2>2, <2>3, <2>4, <1>3
<1>8. ASSUME NEW i \in 1..(n - 1), NEW j \in 1..(n - 1), r[i] = r[j] PROVE i = j
  <2>1. New(i) = New(j)
    BY <1>2, <1>5, <1>8
  <2> QED BY <2>1, <1>1, <1>3
<1>9. ASSUME NEW i \in 1..(n - 1), NEW j \in 1..(n - 1), r[i] \in P, r[j] \notin P PROVE i < j
  <2>1. New(i) < New(j)
    BY <1>2, <1>5, <1>9
  <2> QED BY <2>1, <1>1, <1>3
<1>10. IndexOk(r, T, P)
  BY <1>4, <1>6, <1>7, <1>8, <1>9 DEF IndexOk
<1> QED BY <1>10 DEF r, k

(* Only the order of the elements of an index matters.                     *)
LEMMA SameKeys ==
  ASSUME NEW index, NEW ids, NEW P, NEW Q, IndexOk(index, ids, P),
         \A x \in ids : x \in P <=> x \in Q
  PROVE  IndexOk(index, ids, Q)
<1>1. \A i \in 1..Len(index) : index[i] \in ids
  BY DEF IndexOk
<1> QED BY <1>1 DEF IndexOk

(* modify: the element with a new key is put where it belongs; with the    *)
(* same key it stays where it is.                                          *)
LEMMA RelinkOk ==
  ASSUME NEW index, NEW ids, NEW P, NEW Q, IndexOk(index, ids, P), NEW id \in ids,
         \A x \in ids \ {id} : x \in P <=> x \in Q,
         NEW subs, NEW first, Keyed(subs, first, ids, Q)
  PROVE  /\ IndexOk(Relink(index, id, subs, first), ids, Q)
         /\ (id \in P <=> id \in Q) => Relink(index, id, subs, first) = index
<1> DEFINE k == Position(index, id)
           n == Len(index)
           fits == /\ k > 1 => ~Before(subs, first, id, index[k - 1])
                   /\ k < n => ~Before(subs, first, index[k + 1], id)
<1>1. /\ index \in Seq(ids) /\ n \in Nat
      /\ \A i \in 1..n : index[i] \in ids
  BY DEF IndexOk
<1>2. /\ \A i, j \in 1..n : index[i] = index[j] => i = j
      /\ \A i, j \in 1..n : index[i] \in P /\ index[j] \notin P => i < j
  BY DEF IndexOk
<1>3. k \in 1..n /\ \A i \in 1..n : index[i] = id <=> i = k
  BY PositionFacts
<1>4. Relink(index, id, subs, first) =
        IF fits THEN index ELSE Link(RemoveAt(index, k), id, subs, first)
  BY DEF Relink
<1>5. k > 1 => k - 1 \in 1..n /\ index[k - 1] \in ids \ {id}
  BY <1>1, <1>3
<1>6. k < n => k + 1 \in 1..n /\ index[k + 1] \in ids \ {id}
  BY <1>1, <1>3
<1>7. fits <=> /\ k > 1 => ~(id \in Q /\ index[k - 1] \notin Q)
               /\ k < n => ~(index[k + 1] \in Q /\ id \notin Q)
  BY <1>5, <1>6 DEF Keyed
<1> HIDE DEF k, fits
<1>8. ASSUME fits PROVE IndexOk(index, ids, Q)
  <2> SUFFICES ASSUME NEW i \in 1..n, NEW j \in 1..n, index[i] \in Q, index[j] \notin Q PROVE i < j
    BY DEF IndexOk
  <2>1. CASE i # k /\ j # k
    BY <2>1, <1>1, <1>2, <1>3
  <2>2. CASE i = k
    <3>1. j # k /\ id \in Q
      BY <2>2, <1>3
    <3>2. ASSUME j < k PROVE FALSE
      <4>1. k > 1 /\ index[k - 1] \in Q /\ index[k - 1] \in P
        BY <3>1, <3>2, <1>3, <1>5, <1>7, <1>8
      <4>2. index[j] \notin P
        BY <3>1, <1>1, <1>3
      <4>3. k - 1 < j
        BY <4>1, <4>2, <1>2, <1>5
      <4> QED BY <4>3, <3>2, <1>3
    <3> QED BY <3>1, <3>2, <2>2, <1>3
  <2>3. CASE j = k
    <3>1. i # k /\ id \notin Q
      BY <2>3, <1>3
    <3>2. ASSUME i > k PROVE FALSE
      <4>1. k < n /\ index[k + 1] \notin Q /\ index[k + 1] \notin P
        BY <3>1, <3>2, <1>1, <1>3, <1>6, <1>7, <1>8
      <4>2. index[i] \in P
        BY <3>1, <1>1, <1>3
      <4>3. i < k + 1
        BY <4>1, <4>2, <1>2, <1>6
      <4> QED BY <4>3, <3>2, <1>3
    <3> QED BY <3>1, <3>2, <2>3, <1>3
  <2> QED BY <2>1, <2>2, <2>3
<1>9. IndexOk(Link(RemoveAt(index, k), id, subs, first), ids, Q)
  <2>1. IndexOk(RemoveAt(index, k), ids \ {id}, P)
    BY RemoveOk DEF k
  <2>2. IndexOk(RemoveAt(index, k), ids \ {id}, Q)
    BY <2>1, SameKeys
  <2>3. (ids \ {id}) \cup {id} = ids /\ id \notin ids \ {id}
    OBVIOUS
  <2>4. IndexOk(Link(RemoveAt(index, k), id, subs, first), (ids \ {id}) \cup {id}, Q)
    BY <2>2, <2>3, LinkOk
  <2> QED BY <2>3, <2>4
<1>10. ASSUME id \in P <=> id \in Q PROVE fits
  <2>1. k > 1 => ~(id \in Q /\ index[k - 1] \notin Q)
    <3>1. ASSUME k > 1, id \in Q, index[k - 1] \notin Q PROVE FALSE
      <4>1. id \in P /\ index[k - 1] \notin P /\ index[k] = id
        BY <3>1, <1>3, <1>5, <1>10
      <4>2. k < k - 1
        BY <4>1, <3>1, <1>2, <1>3, <1>5
      <4> QED BY <4>2, <1>3
    <3> QED BY <3>1
  <2>2. k < n => ~(index[k + 1] \in Q /\ id \notin Q)
    <3>1. ASSUME k < n, index[k + 1] \in Q, id \notin Q PROVE FALSE
      <4>1. id \notin P /\ index[k + 1] \in P /\ index[k] = id
        BY <3>1, <1>3, <1>6, <1>10
      <4>2. k + 1 < k
        BY <4>1, <3>1, <1>2, <1>3, <1>6
      <4> QED BY <4>2, <1>3
    <3> QED BY <3>1
  <2> QED BY <2>1, <2>2, <1>7
<1> QED BY <1>4, <1>8, <1>9, <1>10

(* The element stays where it is, with the keys P before and Q after.      *)
Stays(index, ids, P, Q, id, subs, first) == Relink(index, id, subs, first) = index

(* With the same keys nothing moves.                                       *)
LEMMA RelinkSame ==
  ASSUME NEW index, NEW ids, NEW P, NEW Q, IndexOk(index, ids, P), NEW id \in ids,
         \A x \in ids : x \in P <=> x \in Q,
         NEW subs, NEW first, Keyed(subs, first, ids, Q)
  PROVE  Stays(index, ids, P, Q, id, subs, first)
<1>1. /\ \A x \in ids \ {id} : x \in P <=> x \in Q
      /\ id \in P <=> id \in Q
  OBVIOUS
<1>2. (id \in P <=> id \in Q) => Relink(index, id, subs, first) = index
  BY <1>1, RelinkOk
<1> QED BY <1>1, <1>2 DEF Stays

(* An element that now comes first stays behind one that does.             *)
LEMMA RelinkStays ==
  ASSUME NEW index, NEW ids, NEW P, IndexOk(index, ids, P), NEW k \in 1..Len(index),
         NEW subs, NEW first, NEW Q, Keyed(subs, first, ids, Q),
         index[k] \in Q, k > 1 => index[k - 1] \in Q
  PROVE  Relink(index, index[k], subs, first) = index
<1>1. index \in Seq(ids) /\ Len(index) \in Nat /\ \A i \in 1..Len(index) : index[i] \in ids
  BY DEF IndexOk
<1>2. Position(index, index[k]) = k
  BY <1>1, PositionFacts
<1>3. k > 1 => ~Before(subs, first, index[k], index[k - 1])
  BY <1>1 DEF Keyed
<1>4. k < Len(index) => ~Before(subs, first, index[k + 1], index[k])
  BY <1>1 DEF Keyed
<1> QED BY <1>2, <1>3, <1>4 DEF Relink

(* An index is not longer than there are objects.                          *)
LEMMA IndexLength ==
  ASSUME NEW m \in Nat, NEW ids \in SUBSET (1..m), NEW index, NEW P, IndexOk(index, ids, P)
  PROVE  Len(index) <= m
<1> DEFINE n == Len(index)
<1>1. index \in [1..n -> 1..m] /\ n \in Nat
  <2>1. index \in Seq(ids)
    BY DEF IndexOk
  <2>2. n \in Nat /\ index \in [1..n -> ids]
    BY <2>1
  <2> QED BY <2>2
<1>2. index \in Injection(1..n, 1..m)
  BY <1>1 DEF IndexOk, Injection, IsInjective
<1>3. IsFiniteSet(1..m) /\ Cardinality(1..m) = m /\ Cardinality(1..n) = n
  <2>1. 1 \in Int /\ m \in Int /\ n \in Int /\ m - 1 + 1 = m /\ n - 1 + 1 = n /\ ~(1 > m /\ m # 0) /\ ~(1 > n /\ n # 0)
    BY <1>1
  <2> HIDE DEF n
  <2> QED BY <2>1, FS_Interval
<1> QED BY <1>2, <1>3, FS_Injection

-----------------------------------------------------------------------------
(* What a node holds                                                       *)

(* The subscriptions with a value of automatic_renewal, and those to an    *)
(* author.                                                                 *)
By(subs, first) == {id \in 1..Len(subs) : subs[id].automatic_renewal = first}
SubsTo(subs, a) == {id \in 1..Len(subs) : subs[id].to = a}

(* Both indexes hold what they should in the order of their keys, and no   *)
(* account is overdrawn.                                                   *)
DbOk(D) ==
  /\ D \in DbType
  /\ Len(D.subs) <= MaxSubs
  /\ IndexOk(D.by_renewal, 1..Len(D.subs), By(D.subs, TRUE))
  /\ \A a \in Authors : IndexOk(D.by_to_renewal[a], SubsTo(D.subs, a), By(D.subs, FALSE))
  /\ \A a \in Accounts : D.balance[a] >= 0

(* The fields of what a node holds.                                        *)
LEMMA DbFields ==
  ASSUME NEW D \in DbType
  PROVE  /\ D.subs \in Seq(SubscriptionType) /\ D.by_renewal \in Seq(Ids)
         /\ D.by_to_renewal \in [Authors -> Seq(Ids)] /\ D.balance \in [Accounts -> Int]
         /\ D.options \in [Authors -> Options] /\ D.rate \in Nat
         /\ DOMAIN D.subs = 1..Len(D.subs) /\ Len(D.subs) \in Nat
         /\ \A id \in 1..Len(D.subs) : D.subs[id] \in SubscriptionType
BY DEF DbType

(* The fields of a subscription.                                           *)
LEMMA SubFields ==
  ASSUME NEW s \in SubscriptionType
  PROVE  /\ s.from \in Consumers /\ s.to \in Authors /\ s.expiration \in Nat
         /\ s.automatic_renewal \in BOOLEAN /\ s.agreed \in Options
BY DEF SubscriptionType

(* New subscriptions and indexes.                                          *)
Updated(D, subs, index, a, part) ==
  [D EXCEPT !.subs = subs, !.by_renewal = index, !.by_to_renewal[a] = part]

(* Its fields.                                                             *)
LEMMA DbUpdate ==
  ASSUME NEW D \in DbType, NEW subs \in Seq(SubscriptionType), NEW index \in Seq(Ids),
         NEW a \in Authors, NEW part \in Seq(Ids), NEW E,
         E = Updated(D, subs, index, a, part)
  PROVE  /\ E \in DbType
         /\ E.subs = subs /\ E.by_renewal = index
         /\ E.by_to_renewal = [D.by_to_renewal EXCEPT ![a] = part]
         /\ E.balance = D.balance /\ E.options = D.options /\ E.rate = D.rate
<1>1. E = [D EXCEPT !.subs = subs, !.by_renewal = index,
                    !.by_to_renewal = [D.by_to_renewal EXCEPT ![a] = part]]
  BY DEF DbType, Updated
<1>2. [D.by_to_renewal EXCEPT ![a] = part] \in [Authors -> Seq(Ids)]
  BY DbFields
<1> DEFINE parts == [D.by_to_renewal EXCEPT ![a] = part]
<1> HIDE DEF parts
<1>3. E = [D EXCEPT !.subs = subs, !.by_renewal = index, !.by_to_renewal = parts]
  BY <1>1 DEF parts
<1>4. parts \in [Authors -> Seq(Ids)]
  BY <1>2 DEF parts
<1>5. /\ E \in DbType
      /\ E.subs = subs /\ E.by_renewal = index /\ E.by_to_renewal = parts
      /\ E.balance = D.balance /\ E.options = D.options /\ E.rate = D.rate
  BY <1>3, <1>4 DEF DbType
<1> QED BY <1>5 DEF parts

(* The keys of an index.                                                   *)
LEMMA KeyedBy ==
  ASSUME NEW subs, NEW ids, ids \subseteq 1..Len(subs), NEW first
  PROVE  Keyed(subs, first, ids, By(subs, first))
BY DEF Keyed, Before, By

(* What the indexes of a node say.                                         *)
LEMMA DbIndexes ==
  ASSUME NEW D, DbOk(D)
  PROVE  /\ D \in DbType /\ Len(D.subs) \in Nat /\ Len(D.subs) <= MaxSubs
         /\ IndexOk(D.by_renewal, 1..Len(D.subs), By(D.subs, TRUE))
         /\ \A a \in Authors : IndexOk(D.by_to_renewal[a], SubsTo(D.subs, a), By(D.subs, FALSE))
         /\ \A a \in Accounts : D.balance[a] >= 0
         /\ 1..Len(D.subs) \subseteq Ids /\ MaxSubs \in Nat
<1>1. D \in DbType /\ Len(D.subs) \in Nat /\ Len(D.subs) <= MaxSubs
  BY DbFields DEF DbOk
<1>2. 1..Len(D.subs) \subseteq Ids /\ MaxSubs \in Nat
  BY <1>1, NumberAssumption DEF Ids
<1> QED BY <1>1, <1>2 DEF DbOk

(* An index of objects is a sequence of ids.                               *)
LEMMA IndexIds ==
  ASSUME NEW index, NEW ids, NEW P, IndexOk(index, ids, P), ids \subseteq Ids
  PROVE  index \in Seq(Ids)
<1>1. index \in Seq(ids)
  BY DEF IndexOk
<1> QED BY <1>1

(* An object is created.                                                   *)
LEMMA CreateOk ==
  ASSUME NEW D, DbOk(D), NEW s \in SubscriptionType, Len(D.subs) < MaxSubs
  PROVE  /\ DbOk(Create(D, s))
         /\ Create(D, s).subs = Append(D.subs, s)
         /\ Create(D, s).balance = D.balance /\ Create(D, s).options = D.options
         /\ Create(D, s).rate = D.rate
<1> DEFINE subs == Append(D.subs, s)
           n == Len(D.subs)
           index == Link(D.by_renewal, n + 1, subs, TRUE)
           part == Link(D.by_to_renewal[s.to], n + 1, subs, FALSE)
           E == Create(D, s)
<1>1. /\ D \in DbType /\ n \in Nat /\ n <= MaxSubs
      /\ IndexOk(D.by_renewal, 1..n, By(D.subs, TRUE))
      /\ \A a \in Authors : IndexOk(D.by_to_renewal[a], SubsTo(D.subs, a), By(D.subs, FALSE))
      /\ \A a \in Accounts : D.balance[a] >= 0
      /\ 1..n \subseteq Ids /\ MaxSubs \in Nat
  BY DbIndexes
<1>2. /\ subs \in Seq(SubscriptionType) /\ Len(subs) = n + 1 /\ subs[n + 1] = s
      /\ \A id \in 1..n : subs[id] = D.subs[id]
  BY <1>1, DbFields
<1>3. s.to \in Authors
  BY SubFields
<1>4. E = Updated(D, subs, index, s.to, part)
  BY <1>1, <1>2 DEF Create, Updated, DbType
<1> HIDE DEF subs
<1>5. 1..(n + 1) = 1..n \cup {n + 1} /\ n + 1 \notin 1..n /\ 1..(n + 1) \subseteq Ids
  BY <1>1 DEF Ids
<1>6. \A f : \A id \in 1..n : id \in By(D.subs, f) <=> id \in By(subs, f)
  BY <1>1, <1>2 DEF By
<1>7. \A a : SubsTo(subs, a) = SubsTo(D.subs, a) \cup IF s.to = a THEN {n + 1} ELSE {}
  BY <1>1, <1>2, <1>5 DEF SubsTo
<1>8. \A a : SubsTo(D.subs, a) \subseteq 1..n
  BY DEF SubsTo
<1>9. IndexOk(index, 1..(n + 1), By(subs, TRUE))
  <2>1. IndexOk(D.by_renewal, 1..n, By(subs, TRUE))
    BY <1>1, <1>6, SameKeys
  <2>2. Keyed(subs, TRUE, 1..n \cup {n + 1}, By(subs, TRUE))
    BY <1>2, <1>5, KeyedBy
  <2>3. IndexOk(index, 1..n \cup {n + 1}, By(subs, TRUE))
    BY <2>1, <2>2, <1>5, LinkOk
  <2> QED BY <2>3, <1>5
<1>10. \A a \in Authors : IndexOk(D.by_to_renewal[a], SubsTo(D.subs, a), By(subs, FALSE))
  BY <1>1, <1>6, <1>8, SameKeys
<1>11. IndexOk(part, SubsTo(subs, s.to), By(subs, FALSE))
  <2> DEFINE ids == SubsTo(D.subs, s.to)
  <2>1. ids \cup {n + 1} = SubsTo(subs, s.to) /\ n + 1 \notin ids /\ ids \cup {n + 1} \subseteq 1..(n + 1)
    BY <1>5, <1>7, <1>8
  <2> HIDE DEF ids
  <2>2. Keyed(subs, FALSE, ids \cup {n + 1}, By(subs, FALSE))
    BY <2>1, <1>2, KeyedBy
  <2>3. IndexOk(D.by_to_renewal[s.to], ids, By(subs, FALSE))
    BY <1>3, <1>10 DEF ids
  <2>4. IndexOk(part, ids \cup {n + 1}, By(subs, FALSE))
    BY <2>1, <2>2, <2>3, LinkOk
  <2> QED BY <2>1, <2>4
<1> HIDE DEF index, part, E
<1>12. index \in Seq(Ids) /\ part \in Seq(Ids)
  <2>1. SubsTo(subs, s.to) \subseteq Ids
    BY <1>5, <1>7, <1>8
  <2> QED BY <2>1, <1>5, <1>9, <1>11, IndexIds
<1>13. /\ E \in DbType
       /\ E.subs = subs /\ E.by_renewal = index
       /\ E.by_to_renewal = [D.by_to_renewal EXCEPT ![s.to] = part]
       /\ E.balance = D.balance /\ E.options = D.options /\ E.rate = D.rate
  BY <1>1, <1>2, <1>3, <1>4, <1>12, DbUpdate
<1>14. ASSUME NEW a \in Authors PROVE IndexOk(E.by_to_renewal[a], SubsTo(subs, a), By(subs, FALSE))
  <2>1. CASE a = s.to
    <3>1. E.by_to_renewal[a] = part
      BY <2>1, <1>1, <1>13, DbFields
    <3> QED BY <3>1, <2>1, <1>11
  <2>2. CASE a # s.to
    <3>1. E.by_to_renewal[a] = D.by_to_renewal[a]
      BY <2>2, <1>1, <1>13, DbFields
    <3>2. SubsTo(subs, a) = SubsTo(D.subs, a)
      BY <2>2, <1>7
    <3> QED BY <3>1, <3>2, <1>10
  <2> QED BY <2>1, <2>2
<1>15. DbOk(E)
  <2>1. n + 1 <= MaxSubs
    BY <1>1
  <2> QED BY <2>1, <1>1, <1>2, <1>9, <1>13, <1>14 DEF DbOk
<1> QED BY <1>13, <1>15 DEF E, subs

(* E holds s for id, and otherwise what D holds.                           *)
Given(D, E, id, s) ==
  /\ Len(E.subs) = Len(D.subs) /\ E.subs[id] = s
  /\ \A x \in 1..Len(D.subs) : x # id => E.subs[x] = D.subs[x]
  /\ E.balance = D.balance /\ E.options = D.options /\ E.rate = D.rate

(* An object is given a new value, of the same author.                     *)
LEMMA ModifyOk ==
  ASSUME NEW D, DbOk(D), NEW id \in 1..Len(D.subs), NEW s \in SubscriptionType,
         s.to = D.subs[id].to
  PROVE  /\ DbOk(Modify(D, id, s)) /\ Given(D, Modify(D, id, s), id, s)
         /\ s.automatic_renewal = D.subs[id].automatic_renewal =>
              Modify(D, id, s).by_renewal = D.by_renewal
         /\ Modify(D, id, s).by_to_renewal[s.to] =
              Relink(D.by_to_renewal[s.to], id, Modify(D, id, s).subs, FALSE)
<1> DEFINE subs == [D.subs EXCEPT ![id] = s]
           n == Len(D.subs)
           index == Relink(D.by_renewal, id, subs, TRUE)
           part == Relink(D.by_to_renewal[s.to], id, subs, FALSE)
           E == Modify(D, id, s)
<1>1. /\ D \in DbType /\ n \in Nat /\ n <= MaxSubs
      /\ IndexOk(D.by_renewal, 1..n, By(D.subs, TRUE))
      /\ \A a \in Authors : IndexOk(D.by_to_renewal[a], SubsTo(D.subs, a), By(D.subs, FALSE))
      /\ \A a \in Accounts : D.balance[a] >= 0
      /\ 1..n \subseteq Ids /\ MaxSubs \in Nat
  BY DbIndexes
<1>2. /\ subs \in Seq(SubscriptionType) /\ Len(subs) = n /\ subs[id] = s
      /\ \A x \in 1..n : x # id => subs[x] = D.subs[x]
  BY <1>1, DbFields
<1>3. s.to \in Authors
  BY SubFields
<1>4. E = Updated(D, subs, index, s.to, part)
  BY <1>1, <1>2 DEF Modify, Updated, DbType
<1> HIDE DEF subs
<1>5. \A f : \A x \in (1..n) \ {id} : x \in By(D.subs, f) <=> x \in By(subs, f)
  BY <1>1, <1>2 DEF By
<1>6. \A a : SubsTo(subs, a) = SubsTo(D.subs, a)
  BY <1>1, <1>2 DEF SubsTo
<1>7. \A a : SubsTo(D.subs, a) \subseteq 1..n
  BY DEF SubsTo
<1>8. /\ IndexOk(index, 1..n, By(subs, TRUE))
      /\ (id \in By(D.subs, TRUE) <=> id \in By(subs, TRUE)) => index = D.by_renewal
  <2> DEFINE ids == 1..n
             P == By(D.subs, TRUE)
             Q == By(subs, TRUE)
  <2>1. Keyed(subs, TRUE, ids, Q)
    BY <1>2, KeyedBy
  <2>2. (\A x \in ids \ {id} : x \in P <=> x \in Q) /\ IndexOk(D.by_renewal, ids, P) /\ id \in ids
    BY <1>1, <1>5
  <2> HIDE DEF ids, P, Q
  <2>3. IndexOk(index, ids, Q)
    BY <2>1, <2>2, RelinkOk
  <2>4. ASSUME id \in P <=> id \in Q PROVE index = D.by_renewal
    <3>1. \A x \in ids : x \in P <=> x \in Q
      BY <2>2, <2>4
    <3>2. Stays(D.by_renewal, ids, P, Q, id, subs, TRUE)
      BY <2>1, <2>2, <3>1, RelinkSame
    <3> QED BY <3>2 DEF Stays
  <2> QED BY <2>3, <2>4 DEF ids, P, Q
<1>9. IndexOk(part, SubsTo(subs, s.to), By(subs, FALSE))
  <2> DEFINE ids == SubsTo(D.subs, s.to)
  <2>1. ids \subseteq 1..n /\ id \in ids
    BY <1>7 DEF SubsTo
  <2>2. IndexOk(D.by_to_renewal[s.to], ids, By(D.subs, FALSE))
    BY <1>1, <1>3
  <2> HIDE DEF ids
  <2>3. Keyed(subs, FALSE, ids, By(subs, FALSE))
    BY <1>2, <2>1, KeyedBy
  <2>4. \A x \in ids \ {id} : x \in By(D.subs, FALSE) <=> x \in By(subs, FALSE)
    BY <1>5, <2>1
  <2>5. IndexOk(part, ids, By(subs, FALSE))
    BY <2>1, <2>2, <2>3, <2>4, RelinkOk
  <2> QED BY <2>5, <1>6 DEF ids
<1> HIDE DEF index, part, E
<1>10. index \in Seq(Ids) /\ part \in Seq(Ids)
  <2>1. SubsTo(subs, s.to) \subseteq Ids
    BY <1>1, <1>6, <1>7
  <2> QED BY <2>1, <1>1, <1>8, <1>9, IndexIds
<1>11. /\ E \in DbType
       /\ E.subs = subs /\ E.by_renewal = index
       /\ E.by_to_renewal = [D.by_to_renewal EXCEPT ![s.to] = part]
       /\ E.balance = D.balance /\ E.options = D.options /\ E.rate = D.rate
  BY <1>1, <1>2, <1>3, <1>4, <1>10, DbUpdate
<1>12. E.by_to_renewal[s.to] = part
  BY <1>1, <1>3, <1>11, DbFields
<1>13. ASSUME NEW a \in Authors PROVE IndexOk(E.by_to_renewal[a], SubsTo(subs, a), By(subs, FALSE))
  <2>1. CASE a = s.to
    BY <2>1, <1>9, <1>12
  <2>2. CASE a # s.to
    <3>1. E.by_to_renewal[a] = D.by_to_renewal[a]
      BY <2>2, <1>1, <1>11, DbFields
    <3>2. IndexOk(D.by_to_renewal[a], SubsTo(D.subs, a), By(D.subs, FALSE))
      BY <1>1
    <3>3. id \notin SubsTo(D.subs, a)
      BY <2>2 DEF SubsTo
    <3>4. \A x \in SubsTo(D.subs, a) : x \in By(D.subs, FALSE) <=> x \in By(subs, FALSE)
      BY <3>3, <1>5, <1>7
    <3>5. IndexOk(D.by_to_renewal[a], SubsTo(D.subs, a), By(subs, FALSE))
      BY <3>2, <3>4, SameKeys
    <3> QED BY <3>1, <3>5, <1>6
  <2> QED BY <2>1, <2>2
<1>14. DbOk(E)
  BY <1>1, <1>2, <1>8, <1>11, <1>13 DEF DbOk
<1>15. s.automatic_renewal = D.subs[id].automatic_renewal => E.by_renewal = D.by_renewal
  <2>1. ASSUME s.automatic_renewal = D.subs[id].automatic_renewal
        PROVE  id \in By(D.subs, TRUE) <=> id \in By(subs, TRUE)
    BY <2>1, <1>2 DEF By
  <2> QED BY <2>1, <1>8, <1>11
<1>16. Given(D, E, id, s)
  BY <1>2, <1>11 DEF Given
<1>17. E.by_to_renewal[s.to] = Relink(D.by_to_renewal[s.to], id, E.subs, FALSE)
  BY <1>11, <1>12 DEF part
<1> QED BY <1>14, <1>15, <1>16, <1>17 DEF E

(* The newest object is removed.                                           *)
LEMMA RemoveLastOk ==
  ASSUME NEW D, DbOk(D), Len(D.subs) > 0
  PROVE  /\ DbOk(RemoveLast(D))
         /\ RemoveLast(D).subs = SubSeq(D.subs, 1, Len(D.subs) - 1)
<1> DEFINE n == Len(D.subs)
           subs == SubSeq(D.subs, 1, n - 1)
           to == D.subs[n].to
           index == RemoveAt(D.by_renewal, Position(D.by_renewal, n))
           part == RemoveAt(D.by_to_renewal[to], Position(D.by_to_renewal[to], n))
           E == RemoveLast(D)
<1>1. /\ D \in DbType /\ n \in Nat /\ n <= MaxSubs
      /\ IndexOk(D.by_renewal, 1..n, By(D.subs, TRUE))
      /\ \A a \in Authors : IndexOk(D.by_to_renewal[a], SubsTo(D.subs, a), By(D.subs, FALSE))
      /\ \A a \in Accounts : D.balance[a] >= 0
      /\ 1..n \subseteq Ids /\ MaxSubs \in Nat
  BY DbIndexes
<1>2. D.subs \in Seq(SubscriptionType)
  BY <1>1, DbFields
<1>3. subs \in Seq(SubscriptionType) /\ Len(subs) = n - 1 /\ \A x \in 1..(n - 1) : subs[x] = D.subs[x]
  BY <1>1, <1>2
<1>4. to \in Authors
  BY <1>1, <1>2, SubFields
<1>5. E = Updated(D, subs, index, to, part)
  BY <1>1 DEF RemoveLast, Updated, DbType, Front
<1> HIDE DEF subs, to
<1>6. 1..(n - 1) = (1..n) \ {n} /\ n \in 1..n
  BY <1>1
<1>7. \A f : \A x \in (1..n) \ {n} : x \in By(D.subs, f) <=> x \in By(subs, f)
  BY <1>1, <1>3 DEF By
<1>8. \A a : SubsTo(subs, a) = SubsTo(D.subs, a) \ {n}
  BY <1>3, <1>6 DEF SubsTo
<1>9. \A a : SubsTo(D.subs, a) \subseteq 1..n /\ (n \in SubsTo(D.subs, a) <=> to = a)
  BY <1>6 DEF SubsTo, to
<1>10. IndexOk(index, 1..(n - 1), By(subs, TRUE))
  <2>1. IndexOk(index, (1..n) \ {n}, By(D.subs, TRUE))
    BY <1>1, <1>6, RemoveOk
  <2>2. IndexOk(index, (1..n) \ {n}, By(subs, TRUE))
    BY <2>1, <1>7, SameKeys
  <2> QED BY <2>2, <1>6
<1>11. IndexOk(part, SubsTo(subs, to), By(subs, FALSE))
  <2>1. n \in SubsTo(D.subs, to)
    BY <1>9
  <2>2. IndexOk(part, SubsTo(D.subs, to) \ {n}, By(D.subs, FALSE))
    BY <2>1, <1>1, <1>4, RemoveOk
  <2>3. \A x \in SubsTo(D.subs, to) \ {n} : x \in By(D.subs, FALSE) <=> x \in By(subs, FALSE)
    BY <1>7, <1>9
  <2>4. IndexOk(part, SubsTo(D.subs, to) \ {n}, By(subs, FALSE))
    BY <2>2, <2>3, SameKeys
  <2> QED BY <2>4, <1>8
<1> HIDE DEF index, part, E
<1>12. index \in Seq(Ids) /\ part \in Seq(Ids)
  <2>1. SubsTo(subs, to) \subseteq Ids /\ 1..(n - 1) \subseteq Ids
    BY <1>1, <1>6, <1>8, <1>9
  <2> QED BY <2>1, <1>10, <1>11, IndexIds
<1>13. /\ E \in DbType
       /\ E.subs = subs /\ E.by_renewal = index
       /\ E.by_to_renewal = [D.by_to_renewal EXCEPT ![to] = part]
       /\ E.balance = D.balance
  BY <1>1, <1>3, <1>4, <1>5, <1>12, DbUpdate
<1>14. ASSUME NEW a \in Authors PROVE IndexOk(E.by_to_renewal[a], SubsTo(subs, a), By(subs, FALSE))
  <2>1. CASE a = to
    <3>1. E.by_to_renewal[a] = part
      BY <2>1, <1>1, <1>13, DbFields
    <3> QED BY <3>1, <2>1, <1>11
  <2>2. CASE a # to
    <3>1. E.by_to_renewal[a] = D.by_to_renewal[a]
      BY <2>2, <1>1, <1>13, DbFields
    <3>2. IndexOk(D.by_to_renewal[a], SubsTo(D.subs, a), By(D.subs, FALSE))
      BY <1>1
    <3>3. \A x \in SubsTo(D.subs, a) : x \in By(D.subs, FALSE) <=> x \in By(subs, FALSE)
      BY <2>2, <1>7, <1>9
    <3>4. IndexOk(D.by_to_renewal[a], SubsTo(D.subs, a), By(subs, FALSE))
      BY <3>2, <3>3, SameKeys
    <3>5. SubsTo(subs, a) = SubsTo(D.subs, a)
      BY <2>2, <1>8, <1>9
    <3> QED BY <3>1, <3>4, <3>5
  <2> QED BY <2>1, <2>2
<1>15. DbOk(E)
  <2>1. n - 1 <= MaxSubs
    BY <1>1
  <2> QED BY <2>1, <1>1, <1>3, <1>10, <1>13, <1>14 DEF DbOk
<1> QED BY <1>13, <1>15 DEF E, subs

-----------------------------------------------------------------------------
(* Operations                                                              *)

(* Price and period of two options are the same.                           *)
SameTerms(a, b) == <<a.asset, a.price, a.period>> = <<b.asset, b.price, b.period>>

(* What RenewedAsAgreed says of one node.                                  *)
AgreedOk(D) ==
  \A id \in 1..Len(D.subs) :
    D.subs[id].automatic_renewal => SameTerms(D.subs[id].agreed, D.options[D.subs[id].to])

Good(D) == DbOk(D) /\ AgreedOk(D)

(* E comes from D without a new object or with one, and each subscription  *)
(* is to the same author.                                                  *)
Follows(D, E) ==
  /\ DbOk(E) /\ Len(E.subs) \in {Len(D.subs), Len(D.subs) + 1}
  /\ \A id \in 1..Len(D.subs) : E.subs[id].to = D.subs[id].to

(* A subscription that is not renewed any more.                            *)
Off(s) == [s EXCEPT !.automatic_renewal = FALSE]

(* Switching renewal off changes nothing else.                             *)
LEMMA OffFacts ==
  ASSUME NEW s \in SubscriptionType
  PROVE  /\ Off(s) \in SubscriptionType /\ ~Off(s).automatic_renewal
         /\ Off(s).to = s.to /\ Off(s).from = s.from /\ Off(s).agreed = s.agreed
         /\ Off(s).expiration = s.expiration
BY DEF SubscriptionType, Off

(* Prices are natural numbers.                                             *)
LEMMA PriceFacts ==
  ASSUME NEW D, DbOk(D), NEW a \in Authors
  PROVE  DctPrice(D, a) \in Nat /\ D.options[a] \in Options /\ D.options[a].period \in Nat
<1>1. D.options[a] \in Options /\ D.rate \in Nat
  BY DbFields DEF DbOk
<1>2. D.options[a].price \in Nat /\ D.options[a].period \in Nat
  BY <1>1 DEF Options
<1> DEFINE f == IF D.options[a].asset = "DCT" THEN 1 ELSE D.rate
<1>3. f \in Nat
  BY <1>1
<1> HIDE DEF f
<1>4. D.options[a].price * f \in Nat
  BY <1>2, <1>3
<1> QED BY <1>1, <1>2, <1>4 DEF DctPrice, f

(* A payment that the balance covers.                                      *)
LEMMA PayOk ==
  ASSUME NEW D, DbOk(D), NEW from \in Consumers, NEW to \in Authors, NEW x \in Nat,
         x <= D.balance[from]
  PROVE  /\ DbOk(Pay(D, from, to, x))
         /\ Pay(D, from, to, x).subs = D.subs /\ Pay(D, from, to, x).options = D.options
         /\ Pay(D, from, to, x).rate = D.rate /\ Pay(D, from, to, x).by_renewal = D.by_renewal
         /\ \A c \in Consumers : Pay(D, from, to, x).balance[c] <= D.balance[c]
<1> DEFINE old == D.balance
           new == [old EXCEPT ![from] = @ - x, ![to] = @ + x]
           E == [D EXCEPT !.balance = new]
<1>1. D \in DbType /\ old \in [Accounts -> Int] /\ \A a \in Accounts : old[a] >= 0
  BY DbFields DEF DbOk
<1>2. from \in Accounts /\ to \in Accounts /\ from # to /\ \A c \in Consumers : c \in Accounts /\ c # to
  BY AccountAssumption DEF Accounts
<1>3. /\ new \in [Accounts -> Int] /\ new[from] = old[from] - x /\ new[to] = old[to] + x
      /\ \A a \in Accounts \ {from, to} : new[a] = old[a]
  BY <1>1, <1>2
<1>4. Pay(D, from, to, x) = E
  BY <1>1 DEF Pay, DbType
<1>5. x <= old[from]
  OBVIOUS
<1> HIDE DEF new
<1>6. /\ E \in DbType /\ E.subs = D.subs /\ E.by_renewal = D.by_renewal
      /\ E.by_to_renewal = D.by_to_renewal /\ E.balance = new
      /\ E.options = D.options /\ E.rate = D.rate
  BY <1>1, <1>3 DEF DbType
<1> HIDE DEF E, old
<1>7. \A a \in Accounts : new[a] >= 0
  BY <1>1, <1>2, <1>3, <1>5
<1>8. \A c \in Consumers : new[c] <= old[c]
  BY <1>1, <1>2, <1>3
<1>9. DbOk(E)
  BY <1>6, <1>7 DEF DbOk
<1> QED BY <1>4, <1>6, <1>8, <1>9 DEF old

(* A changed subscription keeps renewal to the agreed terms.               *)
LEMMA ModifyGood ==
  ASSUME NEW D, Good(D), NEW id \in 1..Len(D.subs), NEW s \in SubscriptionType,
         s.to = D.subs[id].to,
         s.automatic_renewal => SameTerms(s.agreed, D.options[s.to])
  PROVE  /\ Good(Modify(D, id, s)) /\ Follows(D, Modify(D, id, s))
         /\ Given(D, Modify(D, id, s), id, s)
<1> DEFINE E == Modify(D, id, s)
<1>1. DbOk(E) /\ Given(D, E, id, s)
  BY ModifyOk DEF Good
<1> HIDE DEF E
<1>2. AgreedOk(E)
  BY <1>1 DEF Good, AgreedOk, Given
<1>3. Follows(D, E)
  BY <1>1 DEF Follows, Given
<1> QED BY <1>1, <1>2, <1>3 DEF Good, E

(* A new subscription is not renewed.                                      *)
LEMMA CreateGood ==
  ASSUME NEW D, Good(D), NEW s \in SubscriptionType, Len(D.subs) < MaxSubs,
         s.automatic_renewal => SameTerms(s.agreed, D.options[s.to])
  PROVE  /\ Good(Create(D, s)) /\ Follows(D, Create(D, s))
         /\ Create(D, s).balance = D.balance /\ Create(D, s).options = D.options
         /\ Create(D, s).rate = D.rate
<1> DEFINE E == Create(D, s)
<1>1. /\ DbOk(E) /\ E.subs = Append(D.subs, s)
      /\ E.balance = D.balance /\ E.options = D.options /\ E.rate = D.rate
  BY CreateOk DEF Good
<1>2. D.subs \in Seq(SubscriptionType) /\ Len(D.subs) \in Nat
  BY DbFields DEF Good, DbOk
<1>3. Len(E.subs) = Len(D.subs) + 1 /\ E.subs[Len(D.subs) + 1] = s
      /\ \A x \in 1..Len(D.subs) : E.subs[x] = D.subs[x]
  BY <1>1, <1>2
<1> HIDE DEF E
<1>4. AgreedOk(E)
  <2> SUFFICES ASSUME NEW x \in 1..Len(E.subs), E.subs[x].automatic_renewal
               PROVE  SameTerms(E.subs[x].agreed, E.options[E.subs[x].to])
    BY DEF AgreedOk
  <2>1. CASE x = Len(D.subs) + 1
    BY <2>1, <1>1, <1>3
  <2>2. CASE x \in 1..Len(D.subs)
    BY <2>2, <1>1, <1>3 DEF Good, AgreedOk
  <2> QED BY <2>1, <2>2, <1>2, <1>3
<1>5. Follows(D, E)
  BY <1>1, <1>3 DEF Follows
<1> QED BY <1>1, <1>4, <1>5 DEF Good, E

(* A new subscription, or a longer one.                                    *)
LEMMA SubscribedGood ==
  ASSUME NEW D, Good(D), NEW from \in Consumers, NEW to \in Authors, now \in Nat,
         (\A id \in 1..Len(D.subs) : D.subs[id].from # from \/ D.subs[id].to # to) =>
           Len(D.subs) < MaxSubs
  PROVE  /\ Good(Subscribed(D, from, to)) /\ Follows(D, Subscribed(D, from, to))
         /\ Subscribed(D, from, to).balance = D.balance
<1> DEFINE have == {id \in DOMAIN D.subs : D.subs[id].from = from /\ D.subs[id].to = to}
           id == CHOOSE i \in have : TRUE
           period == D.options[to].period
           e == (IF D.subs[id].expiration < now THEN now ELSE D.subs[id].expiration) + period
           new == [from |-> from, to |-> to, expiration |-> now + period,
                   automatic_renewal |-> FALSE, agreed |-> D.options[to]]
           more == [D.subs[id] EXCEPT !.expiration = e]
<1>1. /\ D \in DbType /\ D.subs \in Seq(SubscriptionType) /\ Len(D.subs) \in Nat
      /\ DOMAIN D.subs = 1..Len(D.subs)
      /\ \A i \in 1..Len(D.subs) : D.subs[i] \in SubscriptionType
  BY DbFields DEF Good, DbOk
<1>2. period \in Nat /\ D.options[to] \in Options
  BY PriceFacts DEF Good
<1>3. CASE have = {}
  <2>1. new \in SubscriptionType /\ ~new.automatic_renewal
    BY <1>2 DEF SubscriptionType
  <2>2. Len(D.subs) < MaxSubs
    BY <1>1, <1>3
  <2>3. Subscribed(D, from, to) = Create(D, new)
    BY <1>3 DEF Subscribed
  <2> HIDE DEF new
  <2> QED BY <2>1, <2>2, <2>3, CreateGood
<1>4. CASE have # {}
  <2>1. id \in have
    BY <1>4
  <2> HIDE DEF id
  <2>2. id \in 1..Len(D.subs) /\ D.subs[id] \in SubscriptionType /\ D.subs[id].to = to
    BY <2>1, <1>1
  <2>3. D.subs[id].expiration \in Nat
    BY <2>2, SubFields
  <2>4. e \in Nat
    BY <2>3, <1>2
  <2>5. Subscribed(D, from, to) = Modify(D, id, more)
    BY <1>4 DEF Subscribed, id
  <2> HIDE DEF e
  <2>6. /\ more \in SubscriptionType /\ more.to = D.subs[id].to
        /\ more.automatic_renewal = D.subs[id].automatic_renewal
        /\ more.agreed = D.subs[id].agreed
    BY <2>2, <2>4 DEF SubscriptionType
  <2> HIDE DEF more
  <2>7. more.automatic_renewal => SameTerms(more.agreed, D.options[more.to])
    BY <2>2, <2>6 DEF Good, AgreedOk
  <2>8. Good(Modify(D, id, more)) /\ Follows(D, Modify(D, id, more)) /\ Given(D, Modify(D, id, more), id, more)
    BY <2>2, <2>6, <2>7, ModifyGood
  <2> QED BY <2>5, <2>8 DEF Given
<1> QED BY <1>3, <1>4

(* Renewal switched on is agreed to the author's options of that time.     *)
LEMMA RenewalSetGood ==
  ASSUME NEW D, Good(D), NEW op, op.id \in 1..Len(D.subs), op.on \in BOOLEAN
  PROVE  /\ Good(automatic_renewal_of_subscription(D, op))
         /\ Follows(D, automatic_renewal_of_subscription(D, op))
<1> DEFINE s == D.subs[op.id]
           o == IF op.on THEN D.options[s.to] ELSE s.agreed
           new == [s EXCEPT !.automatic_renewal = op.on, !.agreed = o]
<1>1. s \in SubscriptionType
  BY DbFields DEF Good, DbOk
<1> HIDE DEF s
<1>2. s.to \in Authors /\ s.agreed \in Options
  BY <1>1, SubFields
<1>3. o \in Options
  BY <1>2, PriceFacts DEF Good
<1>4. automatic_renewal_of_subscription(D, op) = Modify(D, op.id, new)
  BY DEF automatic_renewal_of_subscription, s
<1>5. op.on => o = D.options[s.to]
  OBVIOUS
<1> HIDE DEF o
<1>6. new \in SubscriptionType /\ new.to = s.to /\ new.automatic_renewal = op.on /\ new.agreed = o
  BY <1>1, <1>3 DEF SubscriptionType
<1> HIDE DEF new
<1>7. new.automatic_renewal => SameTerms(new.agreed, D.options[new.to])
  BY <1>5, <1>6 DEF SameTerms
<1>8. new.to = D.subs[op.id].to
  BY <1>6 DEF s
<1> QED BY <1>4, <1>6, <1>7, <1>8, ModifyGood

(* disallow_automatic_renewal does so, and the index follows.              *)
LEMMA DisallowOk ==
  ASSUME NEW D, DbOk(D), NEW id \in 1..Len(D.subs)
  PROVE  /\ DbOk(disallow_automatic_renewal(D, id))
         /\ Given(D, disallow_automatic_renewal(D, id), id, Off(D.subs[id]))
         /\ Off(D.subs[id]) \in SubscriptionType /\ Off(D.subs[id]).to = D.subs[id].to
         /\ ~Off(D.subs[id]).automatic_renewal
         /\ disallow_automatic_renewal(D, id).by_to_renewal[D.subs[id].to] =
              Relink(D.by_to_renewal[D.subs[id].to], id,
                     disallow_automatic_renewal(D, id).subs, FALSE)
<1>1. D.subs[id] \in SubscriptionType
  BY DbFields DEF DbOk
<1>2. Off(D.subs[id]) \in SubscriptionType /\ Off(D.subs[id]).to = D.subs[id].to
      /\ ~Off(D.subs[id]).automatic_renewal
  BY <1>1, OffFacts
<1>3. disallow_automatic_renewal(D, id) = Modify(D, id, Off(D.subs[id]))
  BY DEF disallow_automatic_renewal, Off
<1> QED BY <1>2, <1>3, ModifyOk


-----------------------------------------------------------------------------
(* The loop that stops the renewals of an author                           *)

(* Renewal may have been switched off, and nothing else was changed but    *)
(* when the subscription expires.                                          *)
OffOf(s, t) ==
  /\ t.to = s.to /\ t.from = s.from /\ t.agreed = s.agreed
  /\ t.automatic_renewal => s.automatic_renewal

(* What the loop that stops renewals may have made of D.                   *)
Stopped(D, X) ==
  /\ DbOk(X) /\ Len(X.subs) = Len(D.subs)
  /\ X.balance = D.balance /\ X.options = D.options /\ X.rate = D.rate
  /\ \A id \in 1..Len(D.subs) : OffOf(D.subs[id], X.subs[id])

(* Nothing has been stopped at the start.                                  *)
LEMMA StoppedSelf ==
  ASSUME NEW D, DbOk(D) PROVE Stopped(D, D)
BY DEF Stopped, OffOf

(* Stopping one more keeps that.                                           *)
LEMMA StoppedMore ==
  ASSUME NEW D, NEW X, Stopped(D, X), NEW id \in 1..Len(D.subs)
  PROVE  Stopped(D, disallow_automatic_renewal(X, id))
<1> DEFINE E == disallow_automatic_renewal(X, id)
           t == Off(X.subs[id])
<1>1. DbOk(X) /\ id \in 1..Len(X.subs)
  BY DEF Stopped
<1>2. X.subs[id] \in SubscriptionType
  BY <1>1, DbFields DEF DbOk
<1>3. OffOf(X.subs[id], t)
  BY <1>2, OffFacts DEF OffOf
<1>4. DbOk(E) /\ Given(X, E, id, t)
  BY <1>1, DisallowOk
<1> HIDE DEF E, t
<1>5. \A x \in 1..Len(D.subs) : OffOf(D.subs[x], E.subs[x])
  BY <1>3, <1>4 DEF Stopped, Given, OffOf
<1> QED BY <1>4, <1>5 DEF Stopped, Given, E

(* g[i] is where the loop of StopRenewals is after i elements.             *)
StopLoop(g, D, a) ==
  g = [i \in 0..Len(D.subs) |-> IF i = 0 THEN [D |-> D, at |-> FirstRenewed(D, a)]
                                ELSE StopNext(g[i - 1], a)]

(* Where the iterator may be while it walks over the author's part.        *)
Iterating(D, a) ==
  [D : {X \in DbType : Stopped(D, X)}, at : {0} \cup SubsTo(D.subs, a)]

(* The loop begins at the first position with a renewed subscription, or   *)
(* behind the end.                                                         *)
LEMMA FirstRenewedFacts ==
  ASSUME NEW D, DbOk(D), NEW a \in Authors
  PROVE  \E p \in 1..(Len(D.by_to_renewal[a]) + 1) :
           /\ FirstRenewed(D, a) = IF p <= Len(D.by_to_renewal[a]) THEN D.by_to_renewal[a][p] ELSE 0
           /\ \A j \in 1..Len(D.by_to_renewal[a]) :
                j < p => ~D.subs[D.by_to_renewal[a][j]].automatic_renewal
<1> DEFINE index == D.by_to_renewal[a]
           n == Len(index)
           on == {j \in DOMAIN index : D.subs[index[j]].automatic_renewal}
           p == IF on = {} THEN n + 1 ELSE Min(on)
<1>1. index \in Seq(Ids) /\ n \in Nat /\ DOMAIN index = 1..n
  BY DbFields DEF DbOk
<1>2. FirstRenewed(D, a) = IF on = {} THEN 0 ELSE index[Min(on)]
  BY DEF FirstRenewed
<1>3. on \in SUBSET (1..n) /\ \A j \in 1..n : j \notin on => ~D.subs[index[j]].automatic_renewal
  BY <1>1
<1>4. on # {} => Min(on) \in on /\ \A j \in on : Min(on) <= j
  <2> HIDE DEF on, n
  <2> QED BY <1>1, <1>3, MinFacts
<1>5. on = {} => p = n + 1
  OBVIOUS
<1>6. on # {} => p = Min(on)
  OBVIOUS
<1> HIDE DEF on, index, n, p
<1>7. CASE on = {}
  <2>1. p = n + 1 /\ FirstRenewed(D, a) = 0
    BY <1>2, <1>5, <1>7
  <2>2. \A j \in 1..n : ~D.subs[index[j]].automatic_renewal
    BY <1>3, <1>7
  <2> QED BY <2>1, <2>2, <1>1 DEF index, n
<1>8. CASE on # {}
  <2>1. p \in on /\ FirstRenewed(D, a) = index[p] /\ \A j \in on : p <= j
    BY <1>2, <1>4, <1>6, <1>8
  <2>2. p \in 1..n
    BY <2>1, <1>3
  <2>3. \A j \in 1..n : j < p => ~D.subs[index[j]].automatic_renewal
    BY <2>1, <2>2, <1>1, <1>3
  <2> QED BY <2>1, <2>2, <2>3, <1>1 DEF index, n
<1> QED BY <1>7, <1>8

(* The loop can be run.                                                    *)
LEMMA StopNextType ==
  ASSUME NEW D, DbOk(D), NEW a \in Authors, NEW R \in Iterating(D, a)
  PROVE  StopNext(R, a) \in Iterating(D, a)
<1> DEFINE E == disallow_automatic_renewal(R.D, R.at)
           part == E.by_to_renewal[a]
<1>1. Stopped(D, R.D) /\ R.at \in {0} \cup SubsTo(D.subs, a)
  BY DEF Iterating
<1>2. CASE R.at = 0
  BY <1>2 DEF StopNext
<1>3. CASE R.at # 0
  <2>1. R.at \in SubsTo(D.subs, a) /\ R.at \in 1..Len(D.subs)
    BY <1>1, <1>3 DEF SubsTo
  <2>2. Stopped(D, E)
    BY <1>1, <2>1, StoppedMore
  <2>3. StopNext(R, a) = [D |-> E, at |-> Following(part, R.at)]
    BY <1>3 DEF StopNext
  <2> HIDE DEF E
  <2>4. SubsTo(E.subs, a) = SubsTo(D.subs, a)
    BY <2>2 DEF Stopped, OffOf, SubsTo
  <2>5. IndexOk(part, SubsTo(D.subs, a), By(E.subs, FALSE))
    BY <2>2, <2>4 DEF Stopped, DbOk
  <2> HIDE DEF part
  <2>6. PICK k \in 1..Len(part) : part[k] = R.at
    BY <2>5, <2>1 DEF IndexOk
  <2>7. Following(part, R.at) \in {0} \cup SubsTo(D.subs, a)
    <3>1. Following(part, R.at) = IF k = Len(part) THEN 0 ELSE part[k + 1]
      BY <2>5, <2>6, FollowingFacts
    <3>2. part \in Seq(SubsTo(D.subs, a))
      BY <2>5 DEF IndexOk
    <3> QED BY <3>1, <3>2
  <2>8. E \in DbType
    BY <2>2 DEF Stopped, DbOk
  <2> QED BY <2>2, <2>3, <2>7, <2>8 DEF Iterating
<1> QED BY <1>2, <1>3

(* The recursive function in StopRenewals exists, so StopRenewals is the   *)
(* value of such a function.                                               *)
LEMMA StopRenewalsIs ==
  ASSUME NEW D, DbOk(D), NEW a \in Authors
  PROVE  \E g : StopLoop(g, D, a) /\ StopRenewals(D, a) = g[Len(D.subs)].D
<1> DEFINE n == Len(D.subs)
           V == Iterating(D, a)
           H == [x \in (1..n) \X V |-> StopNext(x[2], a)]
           v0 == [D |-> D, at |-> FirstRenewed(D, a)]
<1>1. n \in Nat /\ D \in DbType
  BY DbFields DEF DbOk
<1>2. v0 \in V
  <2>1. Stopped(D, D)
    BY StoppedSelf
  <2>2. FirstRenewed(D, a) \in {0} \cup SubsTo(D.subs, a)
    <3> DEFINE index == D.by_to_renewal[a]
    <3>1. PICK p \in 1..(Len(index) + 1) : FirstRenewed(D, a) = IF p <= Len(index) THEN index[p] ELSE 0
      BY FirstRenewedFacts
    <3>2. index \in Seq(SubsTo(D.subs, a))
      BY DEF DbOk, IndexOk
    <3> HIDE DEF index
    <3> QED BY <3>1, <3>2
  <2> QED BY <1>1, <2>1, <2>2 DEF Iterating
<1>3. H \in [(1..n) \X V -> V]
  <2> SUFFICES ASSUME NEW x \in (1..n) \X V PROVE StopNext(x[2], a) \in V
    OBVIOUS
  <2>1. x[2] \in V
    OBVIOUS
  <2> QED BY <2>1, StopNextType
<1> HIDE DEF V, v0
<1>4. PICK f : LoopOf(f, n, V, v0, H)
  <2> HIDE DEF H, n
  <2> QED BY <1>1, <1>2, <1>3, LoopExists
<1>5. StopLoop(f, D, a)
  <2>1. f \in [0..n -> V] /\ f[0] = v0 /\ \A i \in 1..n : f[i] = H[<<i, f[i - 1]>>]
    <3> HIDE DEF H
    <3> QED BY <1>4 DEF LoopOf
  <2>2. \A i \in 1..n : i - 1 \in 0..n
    BY <1>1
  <2>3. \A i \in 1..n : f[i] = StopNext(f[i - 1], a)
    BY <2>1, <2>2
  <2>4. \A i \in 0..n : i = 0 \/ (i # 0 /\ i \in 1..n)
    BY <1>1
  <2>5. f = [i \in 0..n |-> f[i]]
    BY <2>1
  <2> HIDE DEF H, n
  <2>6. \A i \in 0..n : f[i] = IF i = 0 THEN v0 ELSE StopNext(f[i - 1], a)
    BY <2>1, <2>3, <2>4
  <2> QED BY <2>5, <2>6 DEF StopLoop, n, v0
<1>6. StopRenewals(D, a) = (CHOOSE g : StopLoop(g, D, a))[n].D
  BY DEF StopRenewals, StopLoop
<1> QED BY <1>5, <1>6


(* After i elements the iterator, which began at position p, is at         *)
(* position p + i of an index that has not moved, with renewals off behind *)
(* it.                                                                     *)
StopStage(D, a, p, i, R) ==
  /\ Stopped(D, R.D) /\ R.D.by_to_renewal[a] = D.by_to_renewal[a]
  /\ R.at = IF p + i <= Len(D.by_to_renewal[a]) THEN D.by_to_renewal[a][p + i] ELSE 0
  /\ \A j \in 1..Len(D.by_to_renewal[a]) :
       j < p + i => ~R.D.subs[D.by_to_renewal[a][j]].automatic_renewal

(* disallow_automatic_renewal leaves the element where it is, as all       *)
(* before it are off already, so ++ goes to the element behind it.         *)
LEMMA StopStep ==
  ASSUME NEW D, DbOk(D), NEW a \in Authors, NEW p \in Nat \ {0}, NEW i \in Nat, NEW R,
         StopStage(D, a, p, i, R)
  PROVE  StopStage(D, a, p, i + 1, StopNext(R, a))
<1> DEFINE index == D.by_to_renewal[a]
           n == Len(index)
           ids == SubsTo(D.subs, a)
           k == p + i
           X == R.D
<1>1. /\ Stopped(D, X) /\ X.by_to_renewal[a] = index
      /\ R.at = IF k <= n THEN index[k] ELSE 0
      /\ \A j \in 1..n : j < k => ~X.subs[index[j]].automatic_renewal
  BY DEF StopStage
<1>2. /\ IndexOk(index, ids, By(D.subs, FALSE)) /\ index \in Seq(ids) /\ n \in Nat
      /\ ids \subseteq 1..Len(D.subs)
  <2>1. IndexOk(index, ids, By(D.subs, FALSE))
    BY DEF DbOk
  <2>2. ids \subseteq 1..Len(D.subs)
    BY DEF SubsTo
  <2> HIDE DEF index, ids
  <2>3. index \in Seq(ids)
    BY <2>1 DEF IndexOk
  <2>4. n \in Nat
    BY <2>3
  <2> HIDE DEF n
  <2> QED BY <2>1, <2>2, <2>3, <2>4
<1>3. \A j \in 1..n : index[j] \in 1..Len(D.subs) /\ D.subs[index[j]].to = a
  BY SMTT(30), <1>2 DEF SubsTo
<1>4. k \in Nat \ {0} /\ k + 1 = p + (i + 1)
  OBVIOUS
<1>5. SUFFICES /\ Stopped(D, StopNext(R, a).D) /\ StopNext(R, a).D.by_to_renewal[a] = index
               /\ StopNext(R, a).at = IF k + 1 <= n THEN index[k + 1] ELSE 0
               /\ \A j \in 1..n : j < k + 1 => ~StopNext(R, a).D.subs[index[j]].automatic_renewal
  BY <1>4 DEF StopStage
<1> HIDE DEF index, n, ids, k
<1>6. CASE k > n
  <2>1. R.at = 0 /\ ~(k + 1 <= n) /\ \A j \in 1..n : j < k
    BY <1>1, <1>2, <1>4, <1>6
  <2>2. StopNext(R, a) = R
    BY <2>1 DEF StopNext
  <2> QED BY <2>1, <2>2, <1>1
<1>7. CASE k <= n
  <2> DEFINE E == disallow_automatic_renewal(X, R.at)
  <2>1. k \in 1..n /\ R.at = index[k]
    BY <1>1, <1>2, <1>4, <1>7
  <2>2. R.at \in 1..Len(D.subs) /\ R.at # 0 /\ D.subs[R.at].to = a
    BY <2>1, <1>3
  <2>3. DbOk(X) /\ R.at \in 1..Len(X.subs) /\ X.subs[R.at].to = a
    BY <2>2, <1>1 DEF Stopped, OffOf
  <2>4. StopNext(R, a) = [D |-> E, at |-> Following(E.by_to_renewal[a], R.at)]
    BY <2>2 DEF StopNext
  <2>5. /\ DbOk(E) /\ Given(X, E, R.at, Off(X.subs[R.at]))
        /\ ~Off(X.subs[R.at]).automatic_renewal
        /\ E.by_to_renewal[X.subs[R.at].to] = Relink(X.by_to_renewal[X.subs[R.at].to], R.at, E.subs, FALSE)
    BY <2>3, DisallowOk
  <2>6. Stopped(D, E)
    BY <2>2, <1>1, StoppedMore
  <2> HIDE DEF E, X
  <2>7. E.by_to_renewal[a] = Relink(index, R.at, E.subs, FALSE)
    BY <2>3, <2>5, <1>1
  <2>8. \A j \in 1..n : j < k + 1 => ~E.subs[index[j]].automatic_renewal
    <3> SUFFICES ASSUME NEW j \in 1..n, j < k + 1 PROVE ~E.subs[index[j]].automatic_renewal
      OBVIOUS
    <3>1. CASE index[j] = R.at
      BY <3>1, <2>5 DEF Given
    <3>2. CASE index[j] # R.at
      <4>1. j < k
        BY <3>2, <2>1
      <4>2. index[j] \in 1..Len(X.subs)
        BY <1>1, <1>3 DEF Stopped
      <4> QED BY <4>1, <4>2, <3>2, <2>5, <1>1 DEF Given
    <3> QED BY <3>1, <3>2
  <2>9. Relink(index, index[k], E.subs, FALSE) = index
    <3> DEFINE Q == By(E.subs, FALSE)
    <3>1. Len(E.subs) = Len(D.subs) /\ E \in DbType
      BY <2>6 DEF Stopped, DbOk
    <3>2. ids \subseteq 1..Len(E.subs)
      BY <3>1, <1>2
    <3>3. Keyed(E.subs, FALSE, ids, Q)
      BY <3>2, KeyedBy
    <3>4. \A j \in 1..n : j < k + 1 => index[j] \in Q
      <4>1. \A j \in 1..n : index[j] \in 1..Len(E.subs)
        BY <3>1, <1>3
      <4>2. \A x \in 1..Len(E.subs) : E.subs[x].automatic_renewal \in BOOLEAN
        BY <3>1, DbFields, SubFields
      <4> QED BY <4>1, <4>2, <2>8 DEF By
    <3> HIDE DEF Q
    <3>5. index[k] \in Q /\ (k > 1 => index[k - 1] \in Q)
      <4>1. k < k + 1 /\ (k > 1 => k - 1 \in 1..n /\ k - 1 < k + 1)
        BY <2>1, <1>2
      <4> QED BY <4>1, <3>4, <2>1
    <3> QED BY <3>3, <3>5, <2>1, <1>2, RelinkStays DEF n
  <2>10. E.by_to_renewal[a] = index
    BY <2>1, <2>7, <2>9
  <2>11. Following(index, index[k]) = IF k = n THEN 0 ELSE index[k + 1]
    BY <2>1, <1>2, FollowingFacts DEF n
  <2>12. Following(index, index[k]) = IF k + 1 <= n THEN index[k + 1] ELSE 0
    BY <2>1, <2>11, <1>2
  <2> QED BY <2>1, <2>4, <2>6, <2>8, <2>10, <2>12
<1> QED BY <1>2, <1>4, <1>6, <1>7

(* No renewal of the author is left, although each element the loop stops  *)
(* could have moved in the index that it walks over.                       *)
LEMMA StopRenewalsOk ==
  ASSUME NEW D, DbOk(D), NEW a \in Authors
  PROVE  /\ Stopped(D, StopRenewals(D, a))
         /\ \A id \in 1..Len(D.subs) :
              D.subs[id].to = a => ~StopRenewals(D, a).subs[id].automatic_renewal
<1> DEFINE index == D.by_to_renewal[a]
           n == Len(D.subs)
<1>1. PICK g : StopLoop(g, D, a) /\ StopRenewals(D, a) = g[n].D
  BY StopRenewalsIs
<1>2. PICK p \in 1..(Len(index) + 1) :
        /\ FirstRenewed(D, a) = IF p <= Len(index) THEN index[p] ELSE 0
        /\ \A j \in 1..Len(index) : j < p => ~D.subs[index[j]].automatic_renewal
  BY FirstRenewedFacts
<1>3. /\ n \in Nat /\ IndexOk(index, SubsTo(D.subs, a), By(D.subs, FALSE))
      /\ SubsTo(D.subs, a) \subseteq 1..n /\ index \in Seq(SubsTo(D.subs, a))
  BY DbFields DEF DbOk, IndexOk, SubsTo
<1>4. p \in Nat \ {0} /\ Len(index) \in Nat
  BY <1>3
<1>5. g[0] = [D |-> D, at |-> FirstRenewed(D, a)] /\ \A i \in 1..n : g[i] = StopNext(g[i - 1], a)
  <2>1. \A i \in 0..n : g[i] = IF i = 0 THEN [D |-> D, at |-> FirstRenewed(D, a)] ELSE StopNext(g[i - 1], a)
    BY <1>1 DEF StopLoop
  <2>2. 0 \in 0..n /\ \A i \in 1..n : i \in 0..n /\ i # 0
    BY <1>3
  <2> HIDE DEF n
  <2> QED BY <2>1, <2>2
<1> HIDE DEF n
<1> DEFINE S == {i \in 0..n : StopStage(D, a, p, i, g[i])}
<1>6. StopStage(D, a, p, 0, g[0])
  <2>1. p + 0 = p
    BY <1>4
  <2>2. g[0].D = D /\ g[0].at = FirstRenewed(D, a)
    BY <1>5
  <2> QED BY <2>1, <2>2, <1>2, StoppedSelf DEF StopStage
<1>7. ASSUME NEW i \in 1..n, i - 1 \in S PROVE i \in S
  <2>1. i - 1 \in Nat /\ (i - 1) + 1 = i /\ StopStage(D, a, p, i - 1, g[i - 1])
    BY <1>7, <1>3
  <2>2. StopStage(D, a, p, (i - 1) + 1, StopNext(g[i - 1], a))
    BY <2>1, <1>4, StopStep
  <2> QED BY <2>1, <2>2, <1>3, <1>5
<1>8. 0 \in S
  BY <1>3, <1>6
<1>9. n \in S
  <2> HIDE DEF S
  <2>1. \A i \in 0..n : i \in S
    BY <1>3, <1>7, <1>8, UpTo
  <2> QED BY <2>1, <1>3
<1>10. StopStage(D, a, p, n, g[n])
  BY <1>9
<1>11. Len(index) <= n
  BY <1>3, IndexLength
<1>12. \A j \in 1..Len(index) : j < p + n
  BY <1>3, <1>4, <1>11
<1>13. \A j \in 1..Len(index) : ~g[n].D.subs[index[j]].automatic_renewal
  BY <1>10, <1>12 DEF StopStage
<1>14. ASSUME NEW id \in 1..n, D.subs[id].to = a PROVE ~g[n].D.subs[id].automatic_renewal
  <2>1. id \in SubsTo(D.subs, a)
    BY <1>14 DEF SubsTo, n
  <2>2. PICK j \in 1..Len(index) : index[j] = id
    BY <2>1, <1>3 DEF IndexOk
  <2> QED BY <2>2, <1>13
<1> QED BY <1>1, <1>10, <1>14 DEF StopStage, n


(* What is stored beside the subscriptions may be anything of its type.    *)
LEMMA OtherFields ==
  ASSUME NEW D, DbOk(D), NEW E \in DbType, E.subs = D.subs, E.by_renewal = D.by_renewal,
         E.by_to_renewal = D.by_to_renewal, \A a \in Accounts : E.balance[a] >= 0
  PROVE  DbOk(E)
BY DEF DbOk

(* New options of an author: if the price or the period is another, no     *)
(* renewal is left that was agreed to the old ones.                        *)
LEMMA account_updateGood ==
  ASSUME NEW D, Good(D), NEW op, op.to \in Authors, op.options \in Terms
  PROVE  Good(account_update(D, op)) /\ Follows(D, account_update(D, op))
<1> DEFINE a == op.to
           old == D.options[a]
           new == op.options
           stop == \/ ~new.allow
                   \/ <<old.asset, old.price>> # <<new.asset, new.price>>
                   \/ old.period # new.period
           X == IF stop THEN StopRenewals(D, a) ELSE D
           E == account_update(D, op)
<1>1. new \in Options
  BY TermsAssumption
<1>2. E = [X EXCEPT !.options[a] = new]
  BY DEF account_update
<1>3. ~stop => SameTerms(old, new)
  BY DEF SameTerms
<1>4. Stopped(D, X)
  BY StoppedSelf, StopRenewalsOk DEF Good
<1>5. stop => \A id \in 1..Len(D.subs) : D.subs[id].to = a => ~X.subs[id].automatic_renewal
  BY StopRenewalsOk DEF Good
<1> HIDE DEF X, E, stop
<1>6. X \in DbType /\ \A c \in Accounts : X.balance[c] >= 0
  BY <1>4 DEF Stopped, DbOk
<1>7. /\ E \in DbType /\ E.subs = X.subs /\ E.by_renewal = X.by_renewal
      /\ E.by_to_renewal = X.by_to_renewal /\ E.balance = X.balance
      /\ E.options[a] = new /\ \A b \in Authors \ {a} : E.options[b] = X.options[b]
  BY <1>1, <1>2, <1>6 DEF DbType
<1>8. DbOk(E)
  BY <1>4, <1>6, <1>7, OtherFields DEF Stopped
<1>9. AgreedOk(E)
  <2> SUFFICES ASSUME NEW id \in 1..Len(E.subs), E.subs[id].automatic_renewal
               PROVE  SameTerms(E.subs[id].agreed, E.options[E.subs[id].to])
    BY DEF AgreedOk
  <2>1. /\ id \in 1..Len(D.subs) /\ OffOf(D.subs[id], E.subs[id]) /\ X.options = D.options
    BY <1>4, <1>7 DEF Stopped
  <2>2. SameTerms(D.subs[id].agreed, D.options[D.subs[id].to])
    BY <2>1 DEF OffOf, Good, AgreedOk
  <2>3. D.subs[id].to \in Authors
    BY <2>1, DbFields, SubFields DEF Good, DbOk
  <2>4. CASE D.subs[id].to = a
    <3>1. ~stop
      BY <2>4, <2>1, <1>5, <1>7
    <3> QED BY <3>1, <2>1, <2>2, <2>4, <1>3, <1>7 DEF OffOf, SameTerms
  <2>5. CASE D.subs[id].to # a
    BY <2>1, <2>2, <2>3, <2>5, <1>7 DEF OffOf
  <2> QED BY <2>4, <2>5
<1>10. Follows(D, E)
  BY <1>4, <1>7, <1>8 DEF Follows, Stopped, OffOf
<1> QED BY <1>8, <1>9, <1>10 DEF Good, E

(* A new feed changes prices, but no terms.                                *)
LEMMA publish_feedGood ==
  ASSUME NEW D, Good(D), NEW op, op.rate \in Rates
  PROVE  Good(publish_feed(D, op)) /\ Follows(D, publish_feed(D, op))
<1> DEFINE E == publish_feed(D, op)
<1>1. D \in DbType /\ op.rate \in Nat /\ \A c \in Accounts : D.balance[c] >= 0
  BY NumberAssumption DEF Good, DbOk
<1>2. /\ E \in DbType /\ E.subs = D.subs /\ E.by_renewal = D.by_renewal
      /\ E.by_to_renewal = D.by_to_renewal /\ E.balance = D.balance /\ E.options = D.options
  BY <1>1 DEF DbType, publish_feed
<1> HIDE DEF E
<1>3. DbOk(E)
  BY <1>1, <1>2, OtherFields DEF Good
<1> QED BY <1>2, <1>3 DEF Good, AgreedOk, Follows, E

(* A paid subscription: the balance covers the price that is paid.         *)
LEMMA subscribeGood ==
  ASSUME NEW D, Good(D), NEW op, op.from \in Consumers, op.to \in Authors, op.price \in Prices,
         can_subscribe(D, op), now \in Nat
  PROVE  Good(subscribe(D, op)) /\ Follows(D, subscribe(D, op))
<1> DEFINE X == Subscribed(D, op.from, op.to)
           E == Pay(X, op.from, op.to, op.price)
<1>1. (\A id \in 1..Len(D.subs) : D.subs[id].from # op.from \/ D.subs[id].to # op.to) =>
        Len(D.subs) < MaxSubs
  BY DbFields DEF Good, DbOk, can_subscribe, RoomFor
<1>2. Good(X) /\ Follows(D, X) /\ X.balance = D.balance
  BY <1>1, SubscribedGood
<1>3. E = subscribe(D, op)
  BY DEF subscribe
<1>4. op.price \in Nat /\ op.price <= D.balance[op.from]
  BY NumberAssumption DEF can_subscribe
<1> HIDE DEF X
<1>5. DbOk(E) /\ E.subs = X.subs /\ E.options = X.options
  BY <1>2, <1>4, PayOk DEF Good
<1> HIDE DEF E
<1> QED BY <1>2, <1>3, <1>5 DEF Good, AgreedOk, Follows

(* Whatever operation is applied.                                          *)
LEMMA ApplyGood ==
  ASSUME NEW D, Good(D), NEW op \in Operations, Evaluate(D, op), now \in Nat
  PROVE  Good(Apply(D, op)) /\ Follows(D, Apply(D, op))
<1>1. CASE op \in [type : {"subscribe"}, from : Consumers, to : Authors, price : Prices]
  <2>1. op.type = "subscribe" /\ op.from \in Consumers /\ op.to \in Authors /\ op.price \in Prices
    BY <1>1
  <2>2. can_subscribe(D, op) /\ Apply(D, op) = subscribe(D, op)
    BY <2>1 DEF Evaluate, Apply
  <2> QED BY <2>1, <2>2, subscribeGood
<1>2. CASE op \in [type : {"subscribe_by_author"}, from : Consumers, to : Authors]
  <2>1. op.type = "subscribe_by_author" /\ op.from \in Consumers /\ op.to \in Authors
    BY <1>2
  <2>2. can_subscribe_by_author(D, op) /\ Apply(D, op) = subscribe_by_author(D, op)
    BY <2>1 DEF Evaluate, Apply
  <2>3. (\A id \in 1..Len(D.subs) : D.subs[id].from # op.from \/ D.subs[id].to # op.to) =>
          Len(D.subs) < MaxSubs
    BY <2>2, DbFields DEF Good, DbOk, can_subscribe_by_author, RoomFor
  <2>4. Good(Subscribed(D, op.from, op.to)) /\ Follows(D, Subscribed(D, op.from, op.to))
    BY <2>1, <2>3, SubscribedGood
  <2> QED BY <2>2, <2>4 DEF subscribe_by_author
<1>3. CASE op \in [type : {"automatic_renewal"}, id : Ids, on : BOOLEAN]
  <2>1. op.type = "automatic_renewal" /\ op.on \in BOOLEAN
    BY <1>3
  <2>2. can_set_renewal(D, op) /\ Apply(D, op) = automatic_renewal_of_subscription(D, op)
    BY <2>1 DEF Evaluate, Apply
  <2>3. op.id \in 1..Len(D.subs)
    BY <2>2, DbFields DEF can_set_renewal, Good, DbOk
  <2> QED BY <2>1, <2>2, <2>3, RenewalSetGood
<1>4. CASE op \in [type : {"account_update"}, to : Authors, options : Terms]
  <2>1. op.type = "account_update" /\ op.to \in Authors /\ op.options \in Terms
    BY <1>4
  <2>2. Apply(D, op) = account_update(D, op)
    BY <2>1 DEF Apply
  <2> QED BY <2>1, <2>2, account_updateGood
<1>5. CASE op \in [type : {"publish_feed"}, rate : Rates]
  <2>1. op.type = "publish_feed" /\ op.rate \in Rates
    BY <1>5
  <2>2. Apply(D, op) = publish_feed(D, op)
    BY <2>1 DEF Apply
  <2> QED BY <2>1, <2>2, publish_feedGood
<1> QED BY <1>1, <1>2, <1>3, <1>4, <1>5 DEF Operations


-----------------------------------------------------------------------------
(* A restart                                                               *)

(* i objects have been loaded.                                             *)
LoadStage(D, i, X) ==
  /\ DbOk(X) /\ Len(X.subs) = i /\ \A x \in 1..i : X.subs[x] = D.subs[x]
  /\ X.balance = D.balance /\ X.options = D.options /\ X.rate = D.rate

(* One more object is loaded.                                              *)
LEMMA LoadStep ==
  ASSUME NEW D, DbOk(D), NEW i \in 1..Len(D.subs), NEW X, LoadStage(D, i - 1, X)
  PROVE  LoadStage(D, i, Create(X, D.subs[i]))
<1> DEFINE s == D.subs[i]
           E == Create(X, s)
<1>1. s \in SubscriptionType /\ Len(D.subs) \in Nat /\ Len(D.subs) <= MaxSubs /\ MaxSubs \in Nat
  BY DbFields, NumberAssumption DEF DbOk
<1>2. DbOk(X) /\ Len(X.subs) = i - 1 /\ X.subs \in Seq(SubscriptionType)
  BY DbFields DEF LoadStage, DbOk
<1>3. Len(X.subs) < MaxSubs
  BY <1>1, <1>2
<1>4. /\ DbOk(E) /\ E.subs = Append(X.subs, s)
      /\ E.balance = X.balance /\ E.options = X.options /\ E.rate = X.rate
  BY <1>1, <1>2, <1>3, CreateOk
<1>5. Len(E.subs) = i /\ E.subs[i] = s /\ \A x \in 1..(i - 1) : E.subs[x] = X.subs[x]
  BY <1>1, <1>2, <1>4
<1>6. \A x \in 1..i : x = i \/ x \in 1..(i - 1)
  OBVIOUS
<1> HIDE DEF E
<1> QED BY <1>4, <1>5, <1>6 DEF LoadStage, E

(* An empty container is in order.                                         *)
LEMMA EmptiedOk ==
  ASSUME NEW D, DbOk(D)
  PROVE  LoadStage(D, 0, Emptied(D))
<1> DEFINE E == Emptied(D)
           parts == [a \in Authors |-> <<>>]
<1>1. D \in DbType /\ MaxSubs \in Nat /\ \A a \in Accounts : D.balance[a] >= 0
  BY NumberAssumption DEF DbOk
<1>2. /\ E \in DbType /\ E.subs = <<>> /\ E.by_renewal = <<>>
      /\ \A a \in Authors : E.by_to_renewal[a] = <<>>
      /\ E.balance = D.balance /\ E.options = D.options /\ E.rate = D.rate
  <2>1. parts \in [Authors -> Seq(Ids)] /\ \A a \in Authors : parts[a] = <<>>
    OBVIOUS
  <2> DEFINE none == <<>>
  <2>2. E = [D EXCEPT !.subs = none, !.by_renewal = none, !.by_to_renewal = parts]
    BY DEF Emptied
  <2>3. none \in Seq(SubscriptionType) /\ none \in Seq(Ids)
    OBVIOUS
  <2>4. none = <<>>
    OBVIOUS
  <2> HIDE DEF parts, E, none
  <2>5. E.by_to_renewal = parts /\ E \in DbType /\ E.subs = none /\ E.by_renewal = none
    BY <1>1, <2>1, <2>2, <2>3 DEF DbType
  <2>6. E.balance = D.balance /\ E.options = D.options /\ E.rate = D.rate
    BY <1>1, <2>2 DEF DbType
  <2> QED BY <2>1, <2>4, <2>5, <2>6
<1> HIDE DEF E
<1>3. Len(E.subs) = 0
  BY <1>2
<1>4. ASSUME NEW P, NEW ids, ids \subseteq 1..0 PROVE IndexOk(<<>>, ids, P)
  BY <1>4 DEF IndexOk
<1>5. \A a : SubsTo(E.subs, a) \subseteq 1..0
  BY <1>3 DEF SubsTo
<1>6. IndexOk(E.by_renewal, 1..Len(E.subs), By(E.subs, TRUE))
  BY <1>2, <1>3, <1>4
<1>7. \A a \in Authors : IndexOk(E.by_to_renewal[a], SubsTo(E.subs, a), By(E.subs, FALSE))
  BY <1>2, <1>4, <1>5
<1>8. DbOk(E)
  <2>1. E \in DbType /\ Len(E.subs) <= MaxSubs /\ \A a \in Accounts : E.balance[a] >= 0
    BY <1>1, <1>2, <1>3
  <2> QED BY <2>1, <1>6, <1>7 DEF DbOk
<1> QED BY <1>2, <1>3, <1>8 DEF LoadStage, E

(* g[i] is what is held after i objects.                                   *)
Loading(g, D) ==
  g = [i \in 0..Len(D.subs) |-> IF i = 0 THEN Emptied(D) ELSE Create(g[i - 1], D.subs[i])]

(* The recursive function in Reload exists.                                *)
LEMMA ReloadIs ==
  ASSUME NEW D, DbOk(D)
  PROVE  \E g : Loading(g, D) /\ Reload(D) = g[Len(D.subs)]
<1> DEFINE n == Len(D.subs)
           W == [i \in 0..n |-> {X \in DbType : LoadStage(D, i, X)}]
           H == [x \in (1..n) \X DbType |-> Create(x[2], D.subs[x[1]])]
           v0 == Emptied(D)
<1>1. n \in Nat /\ 0 \in 0..n /\ \A i \in 1..n : i \in 0..n /\ i - 1 \in 0..n /\ i # 0
  BY DbFields DEF DbOk
<1>2. W \in [0..n -> SUBSET DbType]
  OBVIOUS
<1>3. v0 \in W[0]
  BY <1>1, EmptiedOk DEF LoadStage, DbOk
<1>4. ASSUME NEW i \in 1..n, NEW X \in W[i - 1] PROVE H[<<i, X>>] \in W[i]
  <2>1. X \in DbType /\ LoadStage(D, i - 1, X)
    BY <1>1
  <2>2. LoadStage(D, i, Create(X, D.subs[i]))
    BY <2>1, LoadStep
  <2>3. Create(X, D.subs[i]) \in DbType
    BY <2>2 DEF LoadStage, DbOk
  <2> QED BY <2>1, <2>2, <2>3, <1>1
<1> HIDE DEF v0
<1>5. PICK f : /\ f \in [0..n -> DbType] /\ f[0] = v0
               /\ \A i \in 1..n : f[i] = H[<<i, f[i - 1]>>]
  <2> HIDE DEF W, H, n
  <2>1. \E f : LoopOf(f, n, DbType, v0, H)
    BY <1>1, <1>2, <1>3, <1>4, LoopWithin
  <2> QED BY <2>1 DEF LoopOf
<1>6. Loading(f, D)
  <2>1. \A i \in 1..n : f[i] = Create(f[i - 1], D.subs[i])
    BY <1>1, <1>5
  <2>2. \A i \in 0..n : i = 0 \/ (i # 0 /\ i \in 1..n)
    BY <1>1
  <2>3. f = [i \in 0..n |-> f[i]]
    BY <1>5
  <2> HIDE DEF n, H, W
  <2>4. \A i \in 0..n : f[i] = IF i = 0 THEN v0 ELSE Create(f[i - 1], D.subs[i])
    BY <1>5, <2>1, <2>2
  <2> QED BY <2>3, <2>4 DEF Loading, n, v0
<1>7. Reload(D) = (CHOOSE g : Loading(g, D))[n]
  BY DEF Reload, Loading
<1> QED BY <1>6, <1>7

(* What holds at the start and is kept by every pass holds at the end.     *)
LEMMA ReloadOk ==
  ASSUME NEW D, DbOk(D)
  PROVE  LoadStage(D, Len(D.subs), Reload(D))
<1> DEFINE n == Len(D.subs)
<1>1. PICK g : Loading(g, D) /\ Reload(D) = g[n]
  BY ReloadIs
<1>2. n \in Nat /\ 0 \in 0..n /\ \A i \in 1..n : i \in 0..n /\ i # 0
  BY DbFields DEF DbOk
<1>3. g[0] = Emptied(D) /\ \A i \in 1..n : g[i] = Create(g[i - 1], D.subs[i])
  <2>1. \A i \in 0..n : g[i] = IF i = 0 THEN Emptied(D) ELSE Create(g[i - 1], D.subs[i])
    BY <1>1 DEF Loading
  <2> HIDE DEF n
  <2> QED BY <2>1, <1>2
<1> HIDE DEF n
<1> DEFINE S == {i \in 0..n : LoadStage(D, i, g[i])}
<1>4. 0 \in S
  BY <1>2, <1>3, EmptiedOk
<1>5. ASSUME NEW i \in 1..n, i - 1 \in S PROVE i \in S
  BY <1>2, <1>3, <1>5, LoadStep DEF n
<1>6. n \in S
  <2> HIDE DEF S
  <2>1. \A i \in 0..n : i \in S
    BY <1>2, <1>4, <1>5, UpTo
  <2> QED BY <2>1, <1>2
<1> QED BY <1>1, <1>6 DEF n

(* A restart keeps objects and order, though not the order of equal keys.  *)
LEMMA ReloadGood ==
  ASSUME NEW D, Good(D) PROVE Good(Reload(D))
<1>1. LoadStage(D, Len(D.subs), Reload(D))
  BY ReloadOk DEF Good
<1> QED BY <1>1 DEF LoadStage, Good, AgreedOk


-----------------------------------------------------------------------------
(* Undoing                                                                 *)

(* An order of a set is a sequence that holds every element.               *)
LEMMA OrderFacts ==
  ASSUME NEW m \in Nat, NEW S \in SUBSET (1..m), NEW order \in SetToSeqs(S)
  PROVE  order \in Seq(S) /\ \A x \in S : \E k \in 1..Len(order) : order[k] = x
<1> DEFINE c == Cardinality(S)
<1>1. IsFiniteSet(1..m)
  <2>1. 1 \in Int /\ m \in Int
    OBVIOUS
  <2> QED BY <2>1, FS_Interval
<1>2. IsFiniteSet(S) /\ c \in Nat
  BY <1>1, FS_Subset, FS_CardinalityType
<1>3. order \in [1..c -> S] /\ \A i, j \in 1..c : i # j => order[i] # order[j]
  BY DEF SetToSeqs
<1>4. order \in Injection(1..c, S)
  BY <1>3 DEF Injection, IsInjective
<1>5. Cardinality(1..c) = c
  <2>1. 1 \in Int /\ c \in Int /\ c - 1 + 1 = c /\ ~(1 > c /\ c # 0)
    BY <1>2
  <2> HIDE DEF c
  <2> QED BY <2>1, FS_Interval
<1>6. order \in Surjection(1..c, S)
  <2> HIDE DEF c
  <2>1. Cardinality(S) = c
    BY DEF c
  <2> QED BY <2>1, <1>2, <1>4, <1>5, FS_Injection
<1> HIDE DEF c
<1>7. order \in Seq(S) /\ Len(order) = c
  BY <1>2, <1>3
<1> QED BY <1>6, <1>7 DEF Surjection

(* The first i objects of the order have their old values.                 *)
BackStage(D, E, order, i, X) ==
  /\ DbOk(X) /\ Len(X.subs) = Len(E.subs)
  /\ \A id \in 1..Len(D.subs) :
       X.subs[id] = IF \E k \in 1..i : order[k] = id THEN D.subs[id] ELSE E.subs[id]

(* One more object gets its old value back.                                *)
LEMMA BackStep ==
  ASSUME NEW D, DbOk(D), NEW E, Follows(D, E), NEW order \in Seq(1..Len(D.subs)),
         NEW i \in 1..Len(order), NEW X, BackStage(D, E, order, i - 1, X)
  PROVE  BackStage(D, E, order, i, Modify(X, order[i], D.subs[order[i]]))
<1> DEFINE id == order[i]
           s == D.subs[id]
           Y == Modify(X, id, s)
<1>1. id \in 1..Len(D.subs) /\ Len(D.subs) \in Nat
  BY DbFields DEF DbOk
<1>2. s \in SubscriptionType
  BY <1>1, DbFields DEF DbOk
<1>3. Len(E.subs) >= Len(D.subs) /\ E.subs[id].to = s.to
  BY <1>1 DEF Follows
<1>4. /\ DbOk(X) /\ Len(X.subs) = Len(E.subs)
      /\ X.subs[id] = IF \E k \in 1..(i - 1) : order[k] = id THEN s ELSE E.subs[id]
  BY <1>1 DEF BackStage
<1>5. id \in 1..Len(X.subs) /\ s.to = X.subs[id].to
  <2>1. Len(X.subs) \in Nat
    BY <1>4, DbFields DEF DbOk
  <2>2. s.to = X.subs[id].to
    BY <1>3, <1>4
  <2> QED BY <2>1, <2>2, <1>1, <1>3, <1>4
<1> HIDE DEF s
<1>6. DbOk(Y) /\ Given(X, Y, id, s)
  BY <1>2, <1>4, <1>5, ModifyOk
<1> HIDE DEF Y
<1>7. ASSUME NEW x \in 1..Len(D.subs)
      PROVE  Y.subs[x] = IF \E k \in 1..i : order[k] = x THEN D.subs[x] ELSE E.subs[x]
  <2>1. \A k \in 1..i : k = i \/ k \in 1..(i - 1)
    OBVIOUS
  <2>2. \A k \in 1..(i - 1) : k \in 1..i
    OBVIOUS
  <2>3. x \in 1..Len(X.subs)
    <3>1. Len(X.subs) \in Nat
      BY <1>4, DbFields DEF DbOk
    <3> QED BY <3>1, <1>1, <1>3, <1>4
  <2>4. CASE x = id
    <3>1. \E k \in 1..i : order[k] = x
      BY <2>4
    <3> QED BY <3>1, <2>4, <1>6 DEF Given, s
  <2>5. CASE x # id
    <3>1. Y.subs[x] = X.subs[x]
      BY <2>3, <2>5, <1>6 DEF Given
    <3>2. X.subs[x] = IF \E k \in 1..(i - 1) : order[k] = x THEN D.subs[x] ELSE E.subs[x]
      BY DEF BackStage
    <3>3. (\E k \in 1..i : order[k] = x) <=> (\E k \in 1..(i - 1) : order[k] = x)
      BY <2>1, <2>2, <2>5
    <3> QED BY <3>1, <3>2, <3>3
  <2> QED BY <2>4, <2>5
<1>8. Len(Y.subs) = Len(E.subs)
  BY <1>4, <1>6 DEF Given
<1> QED BY <1>6, <1>7, <1>8 DEF BackStage, Y, s

(* g[i] is what is held after i objects were put back.                     *)
Undoing(g, D, E, order) ==
  g = [i \in 0..Len(order) |-> IF i = 0 THEN E
                               ELSE Modify(g[i - 1], order[i], D.subs[order[i]])]

(* The objects put back, as the loop leaves them.                          *)
PutBack(D, E, order) == (CHOOSE g : Undoing(g, D, E, order))[Len(order)]

(* That recursive function exists, and its last value has put back all.    *)
LEMMA PutBackOk ==
  ASSUME NEW D, DbOk(D), NEW E, Follows(D, E), NEW order \in Seq(1..Len(D.subs))
  PROVE  BackStage(D, E, order, Len(order), PutBack(D, E, order))
<1> DEFINE n == Len(order)
           W == [i \in 0..n |-> {X \in DbType : BackStage(D, E, order, i, X)}]
           H == [x \in (1..n) \X DbType |-> Modify(x[2], order[x[1]], D.subs[order[x[1]]])]
<1>1. n \in Nat /\ 0 \in 0..n /\ \A i \in 1..n : i \in 0..n /\ i - 1 \in 0..n /\ i # 0
  OBVIOUS
<1>2. W \in [0..n -> SUBSET DbType]
  OBVIOUS
<1>3. BackStage(D, E, order, 0, E) /\ E \in DbType
  <2>1. ~\E k \in 1..0 : TRUE
    OBVIOUS
  <2> QED BY <2>1 DEF BackStage, Follows, DbOk
<1>4. E \in W[0]
  BY <1>1, <1>3
<1>5. ASSUME NEW i \in 1..n, NEW X \in W[i - 1] PROVE H[<<i, X>>] \in W[i]
  <2> DEFINE Y == Modify(X, order[i], D.subs[order[i]])
  <2>1. X \in DbType /\ BackStage(D, E, order, i - 1, X)
    BY <1>1
  <2>2. BackStage(D, E, order, i, Y)
    BY <2>1, BackStep
  <2>3. Y \in DbType
    BY <2>2 DEF BackStage, DbOk
  <2> QED BY <2>1, <2>2, <2>3, <1>1
<1>6. PICK f : /\ f \in [0..n -> DbType] /\ f[0] = E
               /\ \A i \in 1..n : f[i] = H[<<i, f[i - 1]>>]
  <2> HIDE DEF W, H, n
  <2>1. \E f : LoopOf(f, n, DbType, E, H)
    BY <1>1, <1>2, <1>4, <1>5, LoopWithin
  <2> QED BY <2>1 DEF LoopOf
<1>7. Undoing(f, D, E, order)
  <2>1. \A i \in 1..n : f[i] = Modify(f[i - 1], order[i], D.subs[order[i]])
    BY <1>1, <1>6
  <2>2. \A i \in 0..n : i = 0 \/ (i # 0 /\ i \in 1..n)
    BY <1>1
  <2>3. f = [i \in 0..n |-> f[i]]
    BY <1>6
  <2> HIDE DEF n, H, W
  <2>4. \A i \in 0..n : f[i] = IF i = 0 THEN E ELSE Modify(f[i - 1], order[i], D.subs[order[i]])
    BY <1>6, <2>1, <2>2
  <2> QED BY <2>3, <2>4 DEF Undoing, n
<1> HIDE DEF W, H
<1>8. PICK g : Undoing(g, D, E, order) /\ PutBack(D, E, order) = g[n]
  BY <1>7 DEF PutBack
<1>9. g[0] = E /\ \A i \in 1..n : g[i] = Modify(g[i - 1], order[i], D.subs[order[i]])
  <2>1. \A i \in 0..n : g[i] = IF i = 0 THEN E ELSE Modify(g[i - 1], order[i], D.subs[order[i]])
    BY <1>8 DEF Undoing
  <2> HIDE DEF n
  <2> QED BY <2>1, <1>1
<1> HIDE DEF n
<1> DEFINE S == {i \in 0..n : BackStage(D, E, order, i, g[i])}
<1>10. 0 \in S
  BY <1>1, <1>3, <1>9
<1>11. ASSUME NEW i \in 1..n, i - 1 \in S PROVE i \in S
  BY <1>1, <1>9, <1>11, BackStep DEF n
<1>12. n \in S
  <2> HIDE DEF S
  <2>1. \A i \in 0..n : i \in S
    BY <1>1, <1>10, <1>11, UpTo
  <2> QED BY <2>1, <1>1
<1> QED BY <1>8, <1>12 DEF n

(* After an undo the node holds the old objects, in indexes that are in    *)
(* order, though equal keys need not be where they were.                   *)
LEMMA UndoneGood ==
  ASSUME NEW D, Good(D), NEW E, Follows(D, E),
         NEW order \in SetToSeqs({id \in DOMAIN D.subs : D.subs[id] # E.subs[id]})
  PROVE  Good(UndoneTo(D, E, order)) /\ UndoneTo(D, E, order).subs = D.subs
<1> DEFINE n == Len(D.subs)
           changed == {id \in DOMAIN D.subs : D.subs[id] # E.subs[id]}
           F == PutBack(D, E, order)
           G == IF Len(F.subs) > n THEN RemoveLast(F) ELSE F
           U == UndoneTo(D, E, order)
<1>1. D \in DbType /\ n \in Nat /\ DOMAIN D.subs = 1..n /\ D.subs \in Seq(SubscriptionType)
      /\ DbOk(D) /\ \A a \in Accounts : D.balance[a] >= 0
  BY DbFields DEF Good, DbOk
<1>2. changed \in SUBSET (1..n)
  BY <1>1
<1>3. order \in Seq(changed) /\ \A x \in changed : \E k \in 1..Len(order) : order[k] = x
  <2> HIDE DEF n
  <2> QED BY <1>1, <1>2, OrderFacts
<1>4. order \in Seq(1..n)
  <2>1. \A x \in changed : x \in 1..n
    BY <1>2
  <2> HIDE DEF changed, n
  <2>2. Len(order) \in Nat /\ order \in [1..Len(order) -> changed]
    BY <1>3
  <2> DEFINE m == Len(order)
             T == 1..n
  <2>3. order \in [1..m -> T] /\ m \in Nat
    BY <2>1, <2>2
  <2> HIDE DEF m, T
  <2>4. order \in Seq(T)
    BY <2>3
  <2> QED BY <2>4 DEF T
<1>5. BackStage(D, E, order, Len(order), F)
  BY <1>1, <1>4, PutBackOk
<1>6. U = [D EXCEPT !.by_renewal = G.by_renewal, !.by_to_renewal = G.by_to_renewal]
  BY DEF UndoneTo, PutBack, Undoing
<1> HIDE DEF F, U
<1>7. /\ DbOk(F) /\ F.subs \in Seq(SubscriptionType) /\ Len(F.subs) \in {n, n + 1}
      /\ \A id \in 1..n : F.subs[id] = D.subs[id]
  <2>1. DbOk(F) /\ Len(F.subs) = Len(E.subs)
    BY <1>5 DEF BackStage
  <2>2. \A id \in 1..n : F.subs[id] = D.subs[id]
    BY <1>1, <1>3, <1>5 DEF BackStage
  <2> QED BY <2>1, <2>2, DbFields DEF Follows, DbOk
<1>8. DbOk(G) /\ G.subs = D.subs
  <2>1. CASE Len(F.subs) > n
    <3>1. Len(F.subs) = n + 1 /\ Len(F.subs) > 0 /\ Len(F.subs) - 1 = n
      BY <2>1, <1>1, <1>7
    <3>2. DbOk(G) /\ G.subs = SubSeq(F.subs, 1, n)
      BY <2>1, <3>1, <1>7, RemoveLastOk
    <3>3. SubSeq(F.subs, 1, n) = D.subs
      BY <3>1, <1>1, <1>7
    <3> QED BY <3>2, <3>3
  <2>2. CASE ~(Len(F.subs) > n)
    <3>1. Len(F.subs) = n
      BY <2>2, <1>1, <1>7
    <3>2. F.subs = D.subs
      BY <3>1, <1>1, <1>7
    <3> QED BY <2>2, <3>2, <1>7
  <2> QED BY <2>1, <2>2
<1> HIDE DEF G
<1>9. G \in DbType
  BY <1>8 DEF DbOk
<1>10. /\ U \in DbType /\ U.subs = D.subs /\ U.by_renewal = G.by_renewal
       /\ U.by_to_renewal = G.by_to_renewal /\ U.balance = D.balance /\ U.options = D.options
  BY <1>1, <1>6, <1>9 DEF DbType
<1>11. DbOk(U)
  BY <1>1, <1>8, <1>10 DEF DbOk
<1> QED BY <1>10, <1>11 DEF Good, AgreedOk, U


-----------------------------------------------------------------------------
(* Maintenance                                                             *)

(* All subscriptions but id are the same.                                  *)
Others(X, E, id) == \A x \in 1..Len(X.subs) : x # id => E.subs[x] = X.subs[x]

(* A subscription whose consumer can pay is lengthened by a period.        *)
LEMMA RenewOk ==
  ASSUME NEW D, Good(D), NEW id \in 1..Len(D.subs), CanPay(D, id)
  PROVE  LET E == renew_subscription(D, id)
         IN /\ Good(E) /\ Len(E.subs) = Len(D.subs) /\ E.options = D.options /\ E.rate = D.rate
            /\ \A c \in Consumers : E.balance[c] <= D.balance[c]
            /\ E.by_renewal = D.by_renewal /\ Others(D, E, id)
            /\ E.subs[id].to = D.subs[id].to /\ E.subs[id].from = D.subs[id].from
            /\ E.subs[id].agreed = D.subs[id].agreed
            /\ E.subs[id].automatic_renewal = D.subs[id].automatic_renewal
            /\ E.subs[id].expiration =
                 D.subs[id].expiration + D.options[D.subs[id].to].period
<1> DEFINE s == D.subs[id]
           e == s.expiration + D.options[s.to].period
           new == [s EXCEPT !.expiration = e]
           X == Modify(D, id, new)
           x == DctPrice(D, s.to)
           E == Pay(X, s.from, s.to, x)
<1>1. s \in SubscriptionType /\ D \in DbType
  BY DbFields DEF Good, DbOk
<1>2. s.to \in Authors /\ s.from \in Consumers /\ s.expiration \in Nat
  BY <1>1, SubFields
<1>3. x \in Nat /\ D.options[s.to].period \in Nat
  BY <1>2, PriceFacts DEF Good
<1>4. x <= D.balance[s.from]
  BY DEF CanPay
<1>5. e \in Nat
  BY <1>2, <1>3
<1>6. E = renew_subscription(D, id)
  BY DEF renew_subscription
<1>7. s.automatic_renewal => SameTerms(s.agreed, D.options[s.to])
  BY DEF Good, AgreedOk
<1> HIDE DEF e
<1>8. /\ new \in SubscriptionType /\ new.to = s.to /\ new.from = s.from
      /\ new.automatic_renewal = s.automatic_renewal /\ new.agreed = s.agreed
      /\ new.expiration = e
  <2> HIDE DEF s
  <2> QED BY <1>1, <1>5 DEF SubscriptionType
<1> HIDE DEF new
<1>9. Good(X) /\ Given(D, X, id, new)
  BY <1>7, <1>8, ModifyGood
<1>10. X.by_renewal = D.by_renewal
  BY <1>8, ModifyOk DEF Good
<1> HIDE DEF X, x
<1>11. /\ DbOk(E) /\ E.subs = X.subs /\ E.options = X.options
       /\ E.rate = X.rate /\ E.by_renewal = X.by_renewal
       /\ \A c \in Consumers : E.balance[c] <= X.balance[c]
  <2>1. x <= X.balance[s.from] /\ DbOk(X)
    BY <1>4, <1>9 DEF Given, Good
  <2> QED BY <2>1, <1>2, <1>3, PayOk
<1> HIDE DEF E
<1>12. Good(E)
  BY <1>9, <1>11 DEF Good, AgreedOk
<1>13. E.subs[id] = new /\ Others(D, E, id) /\ Len(E.subs) = Len(D.subs)
       /\ E.options = D.options /\ E.rate = D.rate
       /\ \A c \in Consumers : E.balance[c] <= D.balance[c]
  BY <1>9, <1>11 DEF Given, Others
<1> QED BY <1>6, <1>8, <1>10, <1>11, <1>12, <1>13 DEF e

(* What maintenance does to a subscription.                                *)
Renewed(X, E, id) ==
  /\ E.by_renewal = X.by_renewal
  /\ E.subs[id].automatic_renewal = X.subs[id].automatic_renewal
  /\ E.subs[id].expiration = X.subs[id].expiration + X.options[X.subs[id].to].period

(* One subscription that is due: it is lengthened if the consumer can pay, *)
(* and otherwise not renewed any more.                                     *)
LEMMA RenewOrStopOk ==
  ASSUME NEW D, Good(D), NEW id \in 1..Len(D.subs)
  PROVE  LET E == RenewOrStop(D, id)
         IN /\ Good(E) /\ Len(E.subs) = Len(D.subs) /\ E.options = D.options /\ E.rate = D.rate
            /\ \A c \in Consumers : E.balance[c] <= D.balance[c]
            /\ Others(D, E, id) /\ OffOf(D.subs[id], E.subs[id])
            /\ CanPay(D, id) => Renewed(D, E, id)
            /\ ~CanPay(D, id) => ~E.subs[id].automatic_renewal
<1> DEFINE E == RenewOrStop(D, id)
<1>1. CASE CanPay(D, id)
  <2>1. E = renew_subscription(D, id)
    BY <1>1 DEF RenewOrStop
  <2>2. /\ Good(E) /\ Len(E.subs) = Len(D.subs) /\ E.options = D.options /\ E.rate = D.rate
        /\ \A c \in Consumers : E.balance[c] <= D.balance[c]
        /\ E.by_renewal = D.by_renewal /\ Others(D, E, id)
        /\ E.subs[id].to = D.subs[id].to /\ E.subs[id].from = D.subs[id].from
        /\ E.subs[id].agreed = D.subs[id].agreed
        /\ E.subs[id].automatic_renewal = D.subs[id].automatic_renewal
        /\ E.subs[id].expiration = D.subs[id].expiration + D.options[D.subs[id].to].period
    BY <2>1, <1>1, RenewOk
  <2> HIDE DEF E
  <2> QED BY <2>2, <1>1 DEF OffOf, Renewed, E
<1>2. CASE ~CanPay(D, id)
  <2> DEFINE t == Off(D.subs[id])
  <2>1. E = disallow_automatic_renewal(D, id)
    BY <1>2 DEF RenewOrStop
  <2>2. DbOk(E) /\ Given(D, E, id, t) /\ ~t.automatic_renewal
    BY <2>1, DisallowOk DEF Good
  <2>3. D \in DbType /\ OffOf(D.subs[id], t)
    <3>1. D.subs[id] \in SubscriptionType
      BY DbFields DEF Good, DbOk
    <3> QED BY <3>1, OffFacts DEF OffOf, Good, DbOk
  <2> HIDE DEF E, t
  <2>4. AgreedOk(E)
    BY <2>2 DEF Given, Good, AgreedOk
  <2>5. \A c \in Consumers : E.balance[c] <= D.balance[c]
    <3>1. \A c \in Consumers : D.balance[c] \in Int
      BY <2>3, DbFields DEF Accounts
    <3> QED BY <3>1, <2>2 DEF Given
  <2> QED BY <2>2, <2>3, <2>4, <2>5, <1>2 DEF Given, Good, Others, E
<1> QED BY <1>1, <1>2

(* What every pass of the loop keeps: renewals are only stopped, and only  *)
(* of those who cannot pay, now or later, for balances only go down.       *)
KeepStage(D, X) ==
  /\ Good(X) /\ Len(X.subs) = Len(D.subs) /\ X.options = D.options /\ X.rate = D.rate
  /\ \A c \in Consumers : X.balance[c] <= D.balance[c]
  /\ \A id \in 1..Len(D.subs) :
       /\ OffOf(D.subs[id], X.subs[id])
       /\ D.subs[id].automatic_renewal /\ ~X.subs[id].automatic_renewal => ~CanPay(X, id)

(* A pass of the loop keeps that: prices are the same, and what a consumer *)
(* could not pay is not affordable after others were paid.                 *)
LEMMA KeepStep ==
  ASSUME NEW D, Good(D), NEW X, KeepStage(D, X), NEW id \in 1..Len(D.subs)
  PROVE  KeepStage(D, RenewOrStop(X, id))
<1> DEFINE E == RenewOrStop(X, id)
<1>1. Good(X) /\ Len(X.subs) = Len(D.subs) /\ id \in 1..Len(X.subs)
  BY DEF KeepStage
<1>2. /\ Good(E) /\ Len(E.subs) = Len(X.subs) /\ E.options = X.options /\ E.rate = X.rate
      /\ \A c \in Consumers : E.balance[c] <= X.balance[c]
      /\ Others(X, E, id) /\ OffOf(X.subs[id], E.subs[id])
      /\ CanPay(X, id) => Renewed(X, E, id)
      /\ ~CanPay(X, id) => ~E.subs[id].automatic_renewal
  BY <1>1, RenewOrStopOk
<1> HIDE DEF E
<1>3. /\ \A c \in Consumers : D.balance[c] \in Int /\ X.balance[c] \in Int /\ E.balance[c] \in Int
      /\ \A x \in 1..Len(D.subs) : X.subs[x].to \in Authors /\ X.subs[x].from \in Consumers
  <2>1. D \in DbType /\ X \in DbType /\ E \in DbType
    BY <1>1, <1>2 DEF Good, DbOk
  <2> QED BY <2>1, <1>1, DbFields, SubFields DEF Accounts
<1>4. \A c \in Consumers : E.balance[c] <= D.balance[c]
  BY <1>2, <1>3 DEF KeepStage
<1>5. \A x \in 1..Len(D.subs) : OffOf(X.subs[x], E.subs[x])
  <2>1. \A x \in 1..Len(D.subs) : OffOf(X.subs[x], X.subs[x])
    BY DEF OffOf
  <2> QED BY <2>1, <1>1, <1>2 DEF Others
<1>6. \A x \in 1..Len(D.subs) : OffOf(D.subs[x], E.subs[x])
  BY <1>5 DEF KeepStage, OffOf
<1>7. ASSUME NEW x \in 1..Len(D.subs), ~CanPay(X, x) PROVE ~CanPay(E, x)
  <2> DEFINE c == X.subs[x].from
             a == X.subs[x].to
  <2>1. c \in Consumers /\ a \in Authors /\ E.subs[x].from = c /\ E.subs[x].to = a
    BY <1>3, <1>5 DEF OffOf
  <2>2. DctPrice(X, a) \in Nat
    BY <2>1, <1>1, PriceFacts DEF Good
  <2>3. DctPrice(E, a) = DctPrice(X, a) /\ (HasPrice(E, a) <=> HasPrice(X, a))
    BY <1>2 DEF DctPrice, HasPrice
  <2>4. ~(HasPrice(X, a) /\ DctPrice(X, a) <= X.balance[c])
    BY <1>7 DEF CanPay
  <2> HIDE DEF a, c
  <2>5. ~(HasPrice(E, a) /\ DctPrice(E, a) <= E.balance[c])
    BY <2>1, <2>2, <2>3, <2>4, <1>2, <1>3
  <2> QED BY <2>1, <2>5 DEF CanPay
<1>8. ASSUME NEW x \in 1..Len(D.subs), D.subs[x].automatic_renewal, ~E.subs[x].automatic_renewal
      PROVE  ~CanPay(E, x)
  <2>1. CASE ~X.subs[x].automatic_renewal
    <3>1. ~CanPay(X, x)
      BY <2>1, <1>8 DEF KeepStage
    <3> QED BY <3>1, <1>7
  <2>2. CASE X.subs[x].automatic_renewal
    <3>1. x = id
      BY <2>2, <1>1, <1>2, <1>8 DEF Others
    <3>2. ~CanPay(X, id)
      BY <3>1, <2>2, <1>2, <1>8 DEF Renewed
    <3> QED BY <3>1, <3>2, <1>7
  <2> QED BY <2>1, <2>2
<1>9. /\ Good(E) /\ Len(E.subs) = Len(D.subs) /\ E.options = D.options /\ E.rate = D.rate
  BY <1>2 DEF KeepStage
<1> QED BY <1>4, <1>6, <1>8, <1>9 DEF KeepStage, E


(* The loop of decent_housekeeping: its states.                            *)
Passing(D) == [D : {X \in DbType : KeepStage(D, X)}, at : {0} \cup 1..Len(D.subs)]

(* It holds before the first pass.                                         *)
LEMMA KeepSelf ==
  ASSUME NEW D, Good(D) PROVE KeepStage(D, D)
<1>1. \A c \in Consumers : D.balance[c] \in Int
  BY DbFields DEF Good, DbOk, Accounts
<1> QED BY <1>1 DEF KeepStage, OffOf

(* The element after another one in an index of all the subscriptions.     *)
LEMMA FollowingId ==
  ASSUME NEW E, DbOk(E), NEW id \in 1..Len(E.subs)
  PROVE  Following(E.by_renewal, id) \in {0} \cup 1..Len(E.subs)
<1> DEFINE index == E.by_renewal
           ids == 1..Len(E.subs)
<1>1. IndexOk(index, ids, By(E.subs, TRUE)) /\ id \in ids
  BY DEF DbOk
<1> HIDE DEF index, ids
<1>2. PICK k \in 1..Len(index) : index[k] = id
  BY <1>1 DEF IndexOk
<1>3. Following(index, id) = IF k = Len(index) THEN 0 ELSE index[k + 1]
  BY <1>1, <1>2, FollowingFacts
<1>4. index \in Seq(ids)
  BY <1>1 DEF IndexOk
<1>5. Following(index, id) \in {0} \cup ids
  BY <1>3, <1>4
<1> QED BY <1>5 DEF index, ids

(* A pass of the loop takes a state to a state.                            *)
LEMMA RenewNextType ==
  ASSUME NEW D, Good(D), NEW R \in Passing(D), NEW time
  PROVE  RenewNext(R, time) \in Passing(D)
<1> DEFINE E == IF Due(R.D, R.at, time) THEN RenewOrStop(R.D, R.at) ELSE R.D
<1>1. KeepStage(D, R.D) /\ R.D \in DbType /\ R.at \in {0} \cup 1..Len(D.subs)
  BY DEF Passing
<1>2. CASE R.at = 0 \/ ~R.D.subs[R.at].automatic_renewal
  <2>1. RenewNext(R, time) = [R EXCEPT !.at = 0]
    BY <1>2 DEF RenewNext
  <2> QED BY <2>1 DEF Passing
<1>3. CASE ~(R.at = 0 \/ ~R.D.subs[R.at].automatic_renewal)
  <2>1. RenewNext(R, time) = [D |-> E, at |-> Following(E.by_renewal, R.at)]
    BY <1>3 DEF RenewNext
  <2>2. KeepStage(D, E) /\ R.at \in 1..Len(D.subs)
    BY <1>1, <1>3, KeepStep
  <2> HIDE DEF E
  <2>3. E \in DbType /\ DbOk(E) /\ Len(E.subs) = Len(D.subs)
    BY <2>2 DEF KeepStage, Good, DbOk
  <2>4. Following(E.by_renewal, R.at) \in {0} \cup 1..Len(D.subs)
    BY <2>2, <2>3, FollowingId
  <2> QED BY <2>1, <2>2, <2>3, <2>4 DEF Passing
<1> QED BY <1>2, <1>3

(* Where the iterator begins.                                              *)
FirstOf(D) == IF D.by_renewal = <<>> THEN 0 ELSE D.by_renewal[1]

(* g[i] is where the loop is after i passes.                               *)
Keeping(g, D, time) ==
  g = [i \in 0..Len(D.subs) |-> IF i = 0 THEN [D |-> D, at |-> FirstOf(D)]
                                ELSE RenewNext(g[i - 1], time)]

(* That is the first element, if there is one.                             *)
LEMMA FirstOfFacts ==
  ASSUME NEW D, DbOk(D)
  PROVE  /\ FirstOf(D) = IF Len(D.by_renewal) = 0 THEN 0 ELSE D.by_renewal[1]
         /\ FirstOf(D) \in {0} \cup 1..Len(D.subs)
<1> DEFINE index == D.by_renewal
           ids == 1..Len(D.subs)
<1>1. index \in Seq(ids)
  BY DEF DbOk, IndexOk
<1> HIDE DEF index, ids
<1>2. index = <<>> <=> Len(index) = 0
  BY <1>1
<1>3. index # <<>> => index[1] \in ids
  BY <1>1
<1> QED BY <1>2, <1>3 DEF FirstOf, index, ids

(* The recursive function in decent_housekeeping exists.                   *)
LEMMA decent_housekeepingIs ==
  ASSUME NEW D, Good(D), NEW time
  PROVE  \E g : Keeping(g, D, time) /\ decent_housekeeping(D, time) = g[Len(D.subs)].D
<1> DEFINE n == Len(D.subs)
           V == Passing(D)
           H == [x \in (1..n) \X V |-> RenewNext(x[2], time)]
           v0 == [D |-> D, at |-> FirstOf(D)]
<1>1. n \in Nat /\ D \in DbType
  BY DbFields DEF Good, DbOk
<1>2. v0 \in V
  BY <1>1, KeepSelf, FirstOfFacts DEF Passing, Good
<1>3. H \in [(1..n) \X V -> V]
  <2> SUFFICES ASSUME NEW x \in (1..n) \X V PROVE RenewNext(x[2], time) \in V
    OBVIOUS
  <2>1. x[2] \in V
    OBVIOUS
  <2> QED BY <2>1, RenewNextType
<1> HIDE DEF V, v0
<1>4. PICK f : LoopOf(f, n, V, v0, H)
  <2> HIDE DEF H, n
  <2> QED BY <1>1, <1>2, <1>3, LoopExists
<1>5. Keeping(f, D, time)
  <2>1. f \in [0..n -> V] /\ f[0] = v0 /\ \A i \in 1..n : f[i] = H[<<i, f[i - 1]>>]
    <3> HIDE DEF H
    <3> QED BY <1>4 DEF LoopOf
  <2>2. \A i \in 1..n : i - 1 \in 0..n
    BY <1>1
  <2>3. \A i \in 1..n : f[i] = RenewNext(f[i - 1], time)
    BY <2>1, <2>2
  <2>4. \A i \in 0..n : i = 0 \/ (i # 0 /\ i \in 1..n)
    BY <1>1
  <2>5. f = [i \in 0..n |-> f[i]]
    BY <2>1
  <2> HIDE DEF H, n
  <2>6. \A i \in 0..n : f[i] = IF i = 0 THEN v0 ELSE RenewNext(f[i - 1], time)
    BY <2>1, <2>3, <2>4
  <2> QED BY <2>5, <2>6 DEF Keeping, n, v0
<1>6. decent_housekeeping(D, time) = (CHOOSE g : Keeping(g, D, time))[n].D
  BY DEF decent_housekeeping, Keeping, FirstOf
<1> QED BY <1>5, <1>6


(* A renewal that was on in D is off in X.                                 *)
AnyStopped(D, X) ==
  \E id \in 1..Len(D.subs) : D.subs[id].automatic_renewal /\ ~X.subs[id].automatic_renewal

(* When it expires after the maintenance.                                  *)
LaterBy(D, id, time) ==
  D.subs[id].expiration + IF Due(D, id, time) THEN D.options[D.subs[id].to].period ELSE 0

(* As long as nothing was stopped, the iterator goes through the index     *)
(* element by element, and the first i are done.                           *)
InPass(D, time, i, R) ==
  LET index == D.by_renewal
      on(j) == D.subs[index[j]].automatic_renewal
      exp(X, j) == X.subs[index[j]].expiration
  IN /\ R.D.by_renewal = index
     /\ \/ R.at = 0 /\ \A j \in 1..Len(index) : on(j) => j <= i
        \/ i < Len(index) /\ R.at = index[i + 1]
     /\ \A j \in 1..Len(index) :
          /\ j <= i /\ on(j) => exp(R.D, j) = LaterBy(D, index[j], time)
          /\ j > i => exp(R.D, j) = exp(D, j)

(* A pass stops a renewal, or the next element is done: it kept its place, *)
(* so the iterator goes to the one behind it; the loop ends at the end or  *)
(* at an element that is off, behind which all are.                        *)
LEMMA PassStep ==
  ASSUME NEW D, Good(D), NEW R \in Passing(D), NEW time, NEW i \in Nat,
         AnyStopped(D, R.D) \/ InPass(D, time, i, R)
  PROVE  \/ AnyStopped(D, RenewNext(R, time).D)
         \/ InPass(D, time, i + 1, RenewNext(R, time))
<1> DEFINE index == D.by_renewal
           n == Len(index)
           X == R.D
           E == IF Due(X, R.at, time) THEN RenewOrStop(X, R.at) ELSE X
           N == RenewNext(R, time)
           ids == 1..Len(D.subs)
           P == By(D.subs, TRUE)
<1>1. KeepStage(D, X) /\ R.at \in {0} \cup ids
  BY DEF Passing
<1>2. IndexOk(index, ids, P)
  BY DEF Good, DbOk
<1>3. /\ Good(X) /\ Len(X.subs) = Len(D.subs) /\ X.options = D.options
      /\ \A id \in ids : OffOf(D.subs[id], X.subs[id])
  BY <1>1 DEF KeepStage
<1>4. \A id \in ids : D.subs[id].automatic_renewal <=> id \in P
  BY DbFields, SubFields DEF By, Good, DbOk
<1> HIDE DEF ids, P
<1>5. /\ n \in Nat /\ \A j \in 1..n : index[j] \in ids
      /\ \A j, k \in 1..n : index[j] = index[k] => j = k
      /\ \A j, k \in 1..n : index[j] \in P /\ index[k] \notin P => j < k
  <2>1. index \in Seq(ids)
    BY <1>2 DEF IndexOk
  <2> QED BY <2>1, <1>2 DEF IndexOk
<1> HIDE DEF index, n
<1> SUFFICES ASSUME ~AnyStopped(D, N.D) PROVE InPass(D, time, i + 1, N)
  OBVIOUS
<1>6. CASE R.at = 0 \/ ~X.subs[R.at].automatic_renewal
  <2>1. N = [R EXCEPT !.at = 0]
    BY <1>6 DEF RenewNext
  <2>2. N.D = X /\ N.at = 0
    BY <2>1 DEF Passing
  <2>3. ~AnyStopped(D, X) /\ InPass(D, time, i, R)
    BY <2>2
  <2>4. /\ X.by_renewal = index
        /\ \/ R.at = 0 /\ \A j \in 1..n : D.subs[index[j]].automatic_renewal => j <= i
           \/ i < n /\ R.at = index[i + 1]
        /\ \A j \in 1..n :
             /\ j <= i /\ D.subs[index[j]].automatic_renewal =>
                  X.subs[index[j]].expiration = LaterBy(D, index[j], time)
             /\ j > i => X.subs[index[j]].expiration = D.subs[index[j]].expiration
    BY <2>3 DEF InPass, index, n
  <2>5. ASSUME NEW j \in 1..n, D.subs[index[j]].automatic_renewal PROVE j <= i
    <3>1. CASE R.at = 0 /\ \A k \in 1..n : D.subs[index[k]].automatic_renewal => k <= i
      BY <3>1, <2>5
    <3>2. CASE R.at # 0 /\ i < n /\ R.at = index[i + 1]
      <4>1. i + 1 \in 1..n /\ ~X.subs[index[i + 1]].automatic_renewal
        BY <3>2, <1>5, <1>6
      <4>2. index[i + 1] \in ids /\ ~D.subs[index[i + 1]].automatic_renewal
        BY <4>1, <1>5, <2>3 DEF AnyStopped, ids
      <4>3. index[j] \in P /\ index[i + 1] \notin P
        BY <4>2, <2>5, <1>4, <1>5
      <4>4. j < i + 1
        BY <4>1, <4>3, <1>5
      <4> QED BY <4>4, <1>5
    <3>3. CASE R.at = 0 /\ i < n /\ R.at = index[i + 1]
      BY <3>3, <1>5 DEF ids
    <3> QED BY <3>1, <3>2, <3>3, <2>4
  <2>6. \A j \in 1..n : (D.subs[index[j]].automatic_renewal => j <= i + 1) /\ (j > i + 1 => j > i)
    BY <2>5, <1>5
  <2> QED BY <2>2, <2>4, <2>5, <2>6 DEF InPass, index, n
<1>7. CASE ~(R.at = 0 \/ ~X.subs[R.at].automatic_renewal)
  <2> DEFINE id == R.at
  <2>1. N = [D |-> E, at |-> Following(E.by_renewal, id)]
    BY <1>7 DEF RenewNext
  <2>2. id \in ids /\ id \in 1..Len(X.subs) /\ X.subs[id].automatic_renewal
    BY <1>1, <1>3, <1>7 DEF ids
  <2>3. \A x \in ids : E.subs[x].automatic_renewal => X.subs[x].automatic_renewal
    <3>1. CASE E = RenewOrStop(X, id)
      <4>1. Others(X, E, id) /\ OffOf(X.subs[id], E.subs[id])
        BY <3>1, <2>2, <1>3, RenewOrStopOk
      <4> QED BY <4>1, <1>3 DEF Others, OffOf, ids
    <3>2. CASE E = X
      BY <3>2
    <3> QED BY <3>1, <3>2
  <2>4. ~AnyStopped(D, E)
    BY <2>1
  <2>5. ~AnyStopped(D, X)
    BY <2>3, <2>4 DEF AnyStopped, ids
  <2>6. /\ X.by_renewal = index /\ i < n /\ id = index[i + 1]
        /\ \A j \in 1..n :
             /\ j <= i /\ D.subs[index[j]].automatic_renewal =>
                  X.subs[index[j]].expiration = LaterBy(D, index[j], time)
             /\ j > i => X.subs[index[j]].expiration = D.subs[index[j]].expiration
    BY <2>5, <1>7 DEF InPass, index, n
  <2>7. i + 1 \in 1..n /\ i + 1 > i
    BY <2>6, <1>5
  <2>8. X.subs[id].expiration = D.subs[id].expiration /\ X.subs[id].to = D.subs[id].to
        /\ D.subs[id].automatic_renewal
    BY <2>2, <2>6, <2>7, <1>3 DEF OffOf
  <2>9. Due(X, id, time) <=> Due(D, id, time)
    BY <2>8 DEF Due
  <2>10. E.by_renewal = index /\ E.subs[id].expiration = LaterBy(D, id, time) /\ Others(X, E, id)
    <3>1. CASE Due(X, id, time)
      <4>1. E = RenewOrStop(X, id)
        BY <3>1
      <4> HIDE DEF E
      <4>2. /\ CanPay(X, id) => Renewed(X, E, id)
            /\ ~CanPay(X, id) => ~E.subs[id].automatic_renewal
        BY <4>1, <2>2, <1>3, RenewOrStopOk
      <4>3. E.subs[id].automatic_renewal
        BY <2>2, <2>4, <2>8 DEF AnyStopped, ids
      <4>4. Renewed(X, E, id)
        BY <4>2, <4>3
      <4>5. Others(X, E, id)
        BY <4>1, <2>2, <1>3, RenewOrStopOk
      <4>6. E.subs[id].expiration = X.subs[id].expiration + X.options[X.subs[id].to].period
        BY <4>4 DEF Renewed
      <4>7. LaterBy(D, id, time) = D.subs[id].expiration + D.options[D.subs[id].to].period
        BY <3>1, <2>9 DEF LaterBy
      <4> QED BY <4>4, <4>5, <4>6, <4>7, <2>6, <2>8, <1>3 DEF Renewed
    <3>2. CASE ~Due(X, id, time)
      <4>1. E = X
        BY <3>2
      <4>2. D.subs[id].expiration \in Nat
        BY <2>2, DbFields, SubFields DEF Good, DbOk, ids
      <4>3. LaterBy(D, id, time) = D.subs[id].expiration
        BY <3>2, <4>2, <2>9 DEF LaterBy
      <4> HIDE DEF E
      <4> QED BY <4>1, <4>3, <2>6, <2>8 DEF Others
    <3> QED BY <3>1, <3>2
  <2> HIDE DEF E, N
  <2>11. N.D = E /\ N.at = Following(index, index[i + 1])
    BY <2>1, <2>6, <2>10
  <2>12. Following(index, index[i + 1]) = IF i + 1 = n THEN 0 ELSE index[(i + 1) + 1]
    BY <2>7, <1>2, FollowingFacts DEF n
  <2>13. \/ N.at = 0 /\ \A j \in 1..n : D.subs[index[j]].automatic_renewal => j <= i + 1
         \/ i + 1 < n /\ N.at = index[(i + 1) + 1]
    <3>1. CASE i + 1 = n
      <4>1. N.at = 0 /\ \A j \in 1..n : j <= i + 1
        BY <3>1, <2>11, <2>12, <1>5
      <4> QED BY <4>1
    <3>2. CASE i + 1 # n
      <4>1. i + 1 < n
        BY <3>2, <2>7, <1>5
      <4> QED BY <4>1, <3>2, <2>11, <2>12
    <3> QED BY <3>1, <3>2
  <2>14. ASSUME NEW j \in 1..n
         PROVE  /\ j <= i + 1 /\ D.subs[index[j]].automatic_renewal =>
                     E.subs[index[j]].expiration = LaterBy(D, index[j], time)
                /\ j > i + 1 => E.subs[index[j]].expiration = D.subs[index[j]].expiration
    <3>1. CASE j = i + 1
      <4>1. ~(j > i + 1)
        BY <3>1
      <4> QED BY <4>1, <3>1, <2>6, <2>10
    <3>2. CASE j # i + 1
      <4>1. index[j] # id /\ index[j] \in 1..Len(X.subs)
        BY <3>2, <2>6, <2>7, <1>3, <1>5 DEF ids
      <4>2. E.subs[index[j]] = X.subs[index[j]]
        BY <4>1, <2>10 DEF Others
      <4>3. (j <= i + 1 => j <= i) /\ (j > i + 1 => j > i)
        BY <3>2, <1>5
      <4> QED BY <4>2, <4>3, <2>6
    <3> QED BY <3>1, <3>2
  <2> QED BY <2>10, <2>11, <2>13, <2>14 DEF InPass, index, n
<1> QED BY <1>6, <1>7

(* The maintenance as a whole.                                             *)
LEMMA decent_housekeepingOk ==
  ASSUME NEW D, Good(D), NEW time
  PROVE  /\ KeepStage(D, decent_housekeeping(D, time))
         /\ ~AnyStopped(D, decent_housekeeping(D, time)) =>
              \A id \in 1..Len(D.subs) : D.subs[id].automatic_renewal =>
                decent_housekeeping(D, time).subs[id].expiration = LaterBy(D, id, time)
<1> DEFINE index == D.by_renewal
           n == Len(D.subs)
           H == decent_housekeeping(D, time)
<1>1. PICK g : Keeping(g, D, time) /\ H = g[n].D
  BY decent_housekeepingIs
<1>2. n \in Nat /\ 0 \in 0..n /\ \A i \in 1..n : i \in 0..n /\ i # 0 /\ i - 1 \in Nat /\ (i - 1) + 1 = i
  BY DbFields DEF Good, DbOk
<1>3. g[0] = [D |-> D, at |-> FirstOf(D)] /\ \A i \in 1..n : g[i] = RenewNext(g[i - 1], time)
  <2>1. \A i \in 0..n : g[i] = IF i = 0 THEN [D |-> D, at |-> FirstOf(D)] ELSE RenewNext(g[i - 1], time)
    BY <1>1 DEF Keeping
  <2> HIDE DEF n
  <2> QED BY <2>1, <1>2
<1>4. IndexOk(index, 1..n, By(D.subs, TRUE))
  BY DEF Good, DbOk
<1> HIDE DEF n, H
<1>5. index \in Seq(1..n) /\ Len(index) \in Nat
  BY <1>4 DEF IndexOk
<1>6. g[0] \in Passing(D)
  <2>1. D \in DbType /\ KeepStage(D, D) /\ FirstOf(D) \in {0} \cup 1..Len(D.subs)
    BY KeepSelf, FirstOfFacts DEF Good, DbOk
  <2> QED BY <2>1, <1>3 DEF Passing
<1>7. InPass(D, time, 0, g[0])
  <2>1. g[0].D = D /\ g[0].at = IF Len(index) = 0 THEN 0 ELSE index[1]
    BY <1>3, FirstOfFacts DEF Good
  <2> HIDE DEF index
  <2>2. CASE Len(index) = 0
    BY <2>1, <2>2 DEF InPass, index
  <2>3. CASE Len(index) # 0
    <3>1. 0 < Len(index) /\ g[0].at = index[0 + 1] /\ \A j \in 1..Len(index) : ~(j <= 0)
      BY <2>1, <2>3, <1>5
    <3> QED BY <2>1, <3>1 DEF InPass, index
  <2> QED BY <2>2, <2>3
<1> HIDE DEF index
<1> DEFINE S == {i \in 0..n : g[i] \in Passing(D) /\ (AnyStopped(D, g[i].D) \/ InPass(D, time, i, g[i]))}
<1>8. 0 \in S
  BY <1>2, <1>6, <1>7
<1>9. ASSUME NEW i \in 1..n, i - 1 \in S PROVE i \in S
  <2>1. g[i] = RenewNext(g[i - 1], time) /\ g[i - 1] \in Passing(D) /\ i - 1 \in Nat /\ (i - 1) + 1 = i
    BY <1>2, <1>3, <1>9
  <2>2. g[i] \in Passing(D)
    BY <2>1, RenewNextType
  <2>3. AnyStopped(D, g[i - 1].D) \/ InPass(D, time, i - 1, g[i - 1])
    BY <1>9
  <2>4. AnyStopped(D, g[i].D) \/ InPass(D, time, (i - 1) + 1, g[i])
    BY <2>1, <2>3, PassStep
  <2> QED BY <1>2, <2>1, <2>2, <2>4
<1>10. n \in S
  <2> HIDE DEF S
  <2>1. \A i \in 0..n : i \in S
    BY <1>2, <1>8, <1>9, UpTo
  <2> QED BY <2>1, <1>2
<1>11. KeepStage(D, H)
  BY <1>1, <1>10 DEF Passing
<1>12. ASSUME ~AnyStopped(D, H), NEW id \in 1..n, D.subs[id].automatic_renewal
       PROVE  H.subs[id].expiration = LaterBy(D, id, time)
  <2>1. InPass(D, time, n, g[n])
    BY <1>1, <1>10, <1>12
  <2>2. PICK j \in 1..Len(index) : index[j] = id
    BY <1>4 DEF IndexOk
  <2>3. Len(index) <= n
    BY <1>2, <1>4, IndexLength
  <2>4. j <= n
    BY <2>3, <1>2, <1>5
  <2> QED BY <2>1, <2>2, <2>4, <1>1, <1>12 DEF InPass, index
<1> QED BY <1>11, <1>12 DEF H, n


-----------------------------------------------------------------------------
(* The invariant                                                           *)

(* The inductive invariant: on every node the indexes are in order, no     *)
(* account is overdrawn and renewals are as agreed.                        *)
Inv ==
  /\ now \in 0..MaxTime /\ undone \in 0..MaxUndone
  /\ db = [n \in Nodes |-> db[n]] /\ \A n \in Nodes : Good(db[n])

(* A block, with or without maintenance.                                   *)
LEMMA AfterBlockGood ==
  ASSUME NEW D, Good(D), NEW time
  PROVE  Good(AfterBlock(D, time)) /\ Follows(D, AfterBlock(D, time))
<1>1. KeepStage(D, AfterBlock(D, time))
  BY KeepSelf, decent_housekeepingOk DEF AfterBlock
<1> QED BY <1>1 DEF KeepStage, Good, Follows, OffOf

(* It holds when there are no subscriptions.                               *)
LEMMA InitInv == Init => Inv
<1> SUFFICES ASSUME Init PROVE Inv
  OBVIOUS
<1> DEFINE parts == [a \in Authors |-> <<>>]
           funds == [a \in Accounts |-> IF a \in Consumers THEN Funds ELSE 0]
<1>1. PICK terms \in [Authors -> {t \in Terms : t.allow}], rate \in Rates :
        db = [n \in Nodes |->
                [subs |-> <<>>, by_renewal |-> <<>>, by_to_renewal |-> parts,
                 balance |-> funds, options |-> terms, rate |-> rate]]
  BY DEF Init
<1> DEFINE D == [subs |-> <<>>, by_renewal |-> <<>>, by_to_renewal |-> parts,
                 balance |-> funds, options |-> terms, rate |-> rate]
<1>2. /\ terms \in [Authors -> Options] /\ rate \in Nat /\ Funds \in Nat
      /\ MaxSubs \in Nat /\ MaxTime \in Nat /\ MaxUndone \in Nat
  BY TermsAssumption, NumberAssumption
<1>3. funds \in [Accounts -> Int] /\ \A a \in Accounts : funds[a] >= 0
  BY <1>2
<1>4. parts \in [Authors -> Seq(Ids)] /\ \A a \in Authors : parts[a] = <<>>
  OBVIOUS
<1>5. <<>> \in Seq(SubscriptionType) /\ <<>> \in Seq(Ids)
  OBVIOUS
<1> HIDE DEF parts, funds
<1>6. D \in DbType
  BY <1>2, <1>3, <1>4, <1>5 DEF DbType
<1>7. D.subs = <<>> /\ D.by_renewal = <<>> /\ D.by_to_renewal = parts /\ D.balance = funds
  OBVIOUS
<1> HIDE DEF D
<1>8. Len(D.subs) = 0
  BY <1>7
<1>9. ASSUME NEW P, NEW ids, ids \subseteq 1..0 PROVE IndexOk(<<>>, ids, P)
  BY <1>9 DEF IndexOk
<1>10. \A a : SubsTo(D.subs, a) \subseteq 1..0
  BY <1>8 DEF SubsTo
<1>11. IndexOk(D.by_renewal, 1..Len(D.subs), By(D.subs, TRUE))
  BY <1>7, <1>8, <1>9
<1>12. \A a \in Authors : IndexOk(D.by_to_renewal[a], SubsTo(D.subs, a), By(D.subs, FALSE))
  BY <1>4, <1>7, <1>9, <1>10
<1>13. Good(D)
  <2>1. Len(D.subs) <= MaxSubs /\ \A a \in Accounts : D.balance[a] >= 0
    BY <1>2, <1>3, <1>7, <1>8
  <2>2. AgreedOk(D)
    BY <1>8 DEF AgreedOk
  <2> QED BY <2>1, <2>2, <1>6, <1>11, <1>12 DEF Good, DbOk
<1>14. db = [n \in Nodes |-> D]
  BY <1>1 DEF D
<1> QED BY <1>2, <1>13, <1>14 DEF Inv, Init

(* Every step keeps it, whatever a node undoes and in which order.         *)
LEMMA NextInv == Inv /\ [Next]_vars => Inv'
<1> SUFFICES ASSUME Inv, [Next]_vars PROVE Inv'
  OBVIOUS
<1>1. /\ now \in Nat /\ now \in 0..MaxTime /\ undone \in 0..MaxUndone /\ \A n \in Nodes : Good(db[n])
      /\ db = [n \in Nodes |-> db[n]] /\ MaxTime \in Nat /\ MaxUndone \in Nat
  BY NumberAssumption DEF Inv
<1>2. CASE NextBlock
  <2>1. PICK time \in (now + 1)..(now + MaxGap) :
          /\ time <= MaxTime /\ now' = time
          /\ db' = [n \in Nodes |-> AfterBlock(db[n], time)]
          /\ undone' = undone
    BY <1>2 DEF NextBlock
  <2>2. now' \in 0..MaxTime
    BY <2>1, <1>1, NumberAssumption
  <2>3. \A n \in Nodes : Good(AfterBlock(db[n], time))
    BY <1>1, AfterBlockGood
  <2> QED BY <2>1, <2>2, <2>3, <1>1 DEF Inv
<1>3. ASSUME NEW op \in Operations, ApplyOperation(op) PROVE Inv'
  <2>1. /\ \A n \in Nodes : Evaluate(db[n], op)
        /\ db' = [n \in Nodes |-> Apply(db[n], op)] /\ now' = now /\ undone' = undone
    BY <1>3 DEF ApplyOperation
  <2>2. \A n \in Nodes : Good(Apply(db[n], op))
    BY <2>1, <1>1, ApplyGood
  <2> QED BY <2>1, <2>2, <1>1 DEF Inv
<1>4. ASSUME NEW n \in Nodes, NEW E, Follows(db[n], E), Undo(n, E) PROVE Inv'
  <2> DEFINE D == db[n]
             changed == {id \in DOMAIN D.subs : D.subs[id] # E.subs[id]}
  <2>1. PICK order \in SetToSeqs(changed) : db' = [db EXCEPT ![n] = UndoneTo(D, E, order)]
    BY <1>4 DEF Undo
  <2>2. undone < MaxUndone /\ undone' = undone + 1 /\ now' = now
    BY <1>4 DEF Undo
  <2>3. Good(UndoneTo(D, E, order))
    BY <2>1, <1>1, <1>4, UndoneGood
  <2>4. undone' \in 0..MaxUndone
    BY <2>2, <1>1
  <2>5. db' = [m \in Nodes |-> db'[m]] /\ \A m \in Nodes : Good(db'[m])
    BY <2>1, <2>3, <1>1
  <2> QED BY <2>2, <2>4, <2>5, <1>1 DEF Inv
<1>5. ASSUME NEW n \in Nodes, UndoBlock(n) PROVE Inv'
  <2>1. PICK time : Undo(n, AfterBlock(db[n], time))
    BY <1>5 DEF UndoBlock
  <2> QED BY <2>1, <1>1, <1>4, AfterBlockGood
<1>6. ASSUME NEW n \in Nodes, Restart(n) PROVE Inv'
  <2>1. undone < MaxUndone /\ undone' = undone + 1 /\ now' = now /\ db' = [db EXCEPT ![n] = Reload(db[n])]
    BY <1>6, <1>1 DEF Restart
  <2>2. Good(Reload(db[n]))
    BY <1>1, ReloadGood
  <2>3. undone' \in 0..MaxUndone
    BY <2>1, <1>1
  <2>4. db' = [m \in Nodes |-> db'[m]] /\ \A m \in Nodes : Good(db'[m])
    BY <2>1, <2>2, <1>1
  <2> QED BY <2>1, <2>3, <2>4, <1>1 DEF Inv
<1>7. ASSUME NEW n \in Nodes, NEW op \in Operations, UndoOperation(n, op) PROVE Inv'
  <2>1. Evaluate(db[n], op) /\ Undo(n, Apply(db[n], op))
    BY <1>7 DEF UndoOperation
  <2> QED BY <2>1, <1>1, <1>4, ApplyGood
<1>8. CASE UNCHANGED vars
  BY <1>8 DEF Inv, vars
<1> QED BY <1>2, <1>3, <1>5, <1>6, <1>7, <1>8 DEF Next

(* It is an invariant of the specification.                                *)
THEOREM Invariance == Spec => []Inv
<1> QED BY InitInv, NextInv, PTL DEF Spec

(* It implies the type invariant.                                          *)
LEMMA InvTypeOK == Inv => TypeOK
<1> SUFFICES ASSUME Inv PROVE TypeOK
  OBVIOUS
<1>1. \A n \in Nodes : Good(db[n]) /\ db[n] \in DbType
  BY DEF Inv, Good, DbOk
<1>2. db \in [Nodes -> DbType]
  BY <1>1 DEF Inv
<1>3. ASSUME NEW n \in Nodes
      PROVE  /\ IsInjective(db[n].by_renewal) /\ ToSet(db[n].by_renewal) = DOMAIN db[n].subs
             /\ \A i, j \in DOMAIN db[n].by_renewal :
                  Before(db[n].subs, TRUE, db[n].by_renewal[i], db[n].by_renewal[j]) => i < j
             /\ \A a \in Accounts : db[n].balance[a] >= 0
  <2> DEFINE D == db[n]
             index == D.by_renewal
             ids == 1..Len(D.subs)
  <2>1. IndexOk(index, ids, By(D.subs, TRUE)) /\ DOMAIN D.subs = ids
        /\ \A a \in Accounts : D.balance[a] >= 0
    BY <1>1, DbFields DEF Good, DbOk
  <2> HIDE DEF index
  <2>2. index \in Seq(ids) /\ DOMAIN index = 1..Len(index) /\ \A i \in 1..Len(index) : index[i] \in ids
    BY <2>1 DEF IndexOk
  <2>3. \A i, j \in 1..Len(index) : Before(D.subs, TRUE, index[i], index[j]) => i < j
    BY <2>1, <2>2 DEF IndexOk, Before, By
  <2>4. IsInjective(index)
    BY <2>1, <2>2 DEF IndexOk, IsInjective
  <2>5. ToSet(index) = ids
    <3>1. ToSet(index) = {index[i] : i \in 1..Len(index)}
      BY <2>2 DEF ToSet
    <3>2. \A x \in ids : \E i \in 1..Len(index) : index[i] = x
      BY <2>1 DEF IndexOk
    <3> HIDE DEF ids
    <3> QED BY <3>1, <3>2, <2>2
  <2> QED BY <2>1, <2>2, <2>3, <2>4, <2>5 DEF index
<1> QED BY <1>2, <1>3 DEF Inv, TypeOK

(* On every node each index holds every subscription once in the order of  *)
(* its key, whatever was modified while it was walked over, undone or      *)
(* loaded again, and no account is overdrawn (multi_index container of     *)
(* subscription_object).                                                   *)
THEOREM TypeCorrect == Spec => []TypeOK
<1> QED BY Invariance, InvTypeOK, PTL

(* Automatic renewal is on only under the price and period it was switched *)
(* on for: account_update_evaluator stops every renewal whose terms it     *)
(* changes, although its loop moves the elements it walks over.            *)
THEOREM AgreedRenewals == Spec => []RenewedAsAgreed
<1>1. Inv => RenewedAsAgreed
  <2> SUFFICES ASSUME Inv, NEW n \in Nodes, NEW id \in DOMAIN db[n].subs,
                      db[n].subs[id].automatic_renewal
               PROVE  SameTerms(db[n].subs[id].agreed, db[n].options[db[n].subs[id].to])
    BY DEF RenewedAsAgreed, SameTerms
  <2>1. Good(db[n]) /\ DOMAIN db[n].subs = 1..Len(db[n].subs)
    BY DbFields DEF Inv, Good, DbOk
  <2> QED BY <2>1 DEF Good, AgreedOk
<1> QED BY <1>1, Invariance, PTL


(* A step that lets time go on is a block, and only one that reaches the   *)
(* maintenance time is a maintenance.                                      *)
LEMMA BlockSteps ==
  ASSUME Inv, [Next]_vars, now' # now
  PROVE  /\ now' \in Nat /\ now' > now
         /\ \A n \in Nodes : db'[n] = AfterBlock(db[n], now')
<1>1. NextBlock
  <2>1. \A n, E : Undo(n, E) => now' = now
    BY DEF Undo
  <2> QED BY <2>1 DEF Next, vars, ApplyOperation, UndoOperation, UndoBlock, Restart
<1>2. PICK time \in (now + 1)..(now + MaxGap) :
        now' = time /\ db' = [n \in Nodes |-> AfterBlock(db[n], time)]
  BY <1>1 DEF NextBlock
<1>3. now \in Nat /\ MaxGap \in Nat
  BY NumberAssumption DEF Inv
<1> QED BY <1>2, <1>3

(* decent_housekeeping stops the renewal only of a consumer who cannot     *)
(* pay.                                                                    *)
THEOREM OnlyUnpaidStopped == Spec => StoppedOnlyUnpaid
<1> DEFINE A == now' # now =>
                  \A n \in Nodes : \A id \in On(n) \ On(n)' : ~CanPay(db[n], id)'
<1>1. Inv /\ [Next]_vars => [A]_vars
  <2> SUFFICES ASSUME Inv, [Next]_vars, now' # now,
                      NEW n \in Nodes, NEW id \in On(n), id \notin On(n)'
               PROVE  ~CanPay(db'[n], id)
    BY DEF CanPay, HasPrice, DctPrice
  <2> DEFINE D == db[n]
             E == db'[n]
  <2>1. Good(D) /\ DOMAIN D.subs = 1..Len(D.subs)
    BY DbFields DEF Inv, Good, DbOk
  <2>2. E = AfterBlock(D, now')
    BY BlockSteps
  <2>3. KeepStage(D, E)
    BY <2>1, <2>2, KeepSelf, decent_housekeepingOk DEF AfterBlock
  <2>4. id \in 1..Len(D.subs) /\ D.subs[id].automatic_renewal
    BY <2>1 DEF On
  <2>5. DOMAIN E.subs = 1..Len(D.subs)
    BY <2>3, DbFields DEF KeepStage, Good, DbOk
  <2>6. ~E.subs[id].automatic_renewal
    BY <2>4, <2>5 DEF On
  <2> HIDE DEF D, E
  <2>7. ~CanPay(E, id)
    BY <2>3, <2>4, <2>6 DEF KeepStage
  <2> QED BY <2>7 DEF E
<1>2. Spec => [][A]_vars
  BY <1>1, Invariance, PTL DEF Spec
<1> QED BY <1>2 DEF StoppedOnlyUnpaid

(* The time of the next maintenance is later than now.                     *)
LEMMA MaintenanceLater ==
  ASSUME NEW t \in Nat
  PROVE  next_maintenance_time(t) \in Nat /\ next_maintenance_time(t) > t
<1>1. Interval \in Nat /\ Interval > 0
  BY NumberAssumption
<1> QED BY <1>1 DEF next_maintenance_time

(* A maintenance of decent_housekeeping that stops no renewal lengthens    *)
(* every renewed subscription that is due by exactly one period.           *)
THEOREM OnlyStopPassesOver == Spec => PassedOverOnlyByStop
<1> DEFINE Lengthened(n, id) ==
             db'[n].subs[id].expiration = db[n].subs[id].expiration +
               IF Due(db[n], id, now') THEN db[n].options[db[n].subs[id].to].period ELSE 0
           A == now' >= next_maintenance_time(now) =>
                  \A n \in Nodes : On(n)' = On(n) => \A id \in On(n) : Lengthened(n, id)
<1>1. Inv /\ [Next]_vars => [A]_vars
  <2> SUFFICES ASSUME Inv, [Next]_vars, now' >= next_maintenance_time(now),
                      NEW n \in Nodes, On(n)' = On(n), NEW id \in On(n)
               PROVE  Lengthened(n, id)
    OBVIOUS
  <2> DEFINE D == db[n]
             E == db'[n]
  <2>1. Good(D) /\ DOMAIN D.subs = 1..Len(D.subs)
    BY DbFields DEF Inv, Good, DbOk
  <2>2. now' # now
    <3>1. now \in Nat
      BY DEF Inv
    <3>2. next_maintenance_time(now) \in Nat /\ next_maintenance_time(now) > now
      BY <3>1, MaintenanceLater
    <3>3. ~(now >= next_maintenance_time(now))
      BY <3>1, <3>2
    <3> QED BY <3>3
  <2>3. E = AfterBlock(D, now')
    BY <2>2, BlockSteps
  <2>4. E = decent_housekeeping(D, now')
    BY <2>3 DEF AfterBlock
  <2>5. KeepStage(D, E)
    BY <2>1, <2>4, decent_housekeepingOk
  <2>6. DOMAIN E.subs = 1..Len(D.subs)
    BY <2>5, DbFields DEF KeepStage, Good, DbOk
  <2>7. ~AnyStopped(D, E)
    BY <2>1, <2>6 DEF AnyStopped, On
  <2>8. id \in 1..Len(D.subs) /\ D.subs[id].automatic_renewal
    BY <2>1 DEF On
  <2>9. E.subs[id].expiration = LaterBy(D, id, now')
    BY <2>1, <2>4, <2>7, <2>8, decent_housekeepingOk
  <2> QED BY <2>9 DEF LaterBy
<1>2. Spec => [][A]_vars
  BY <1>1, Invariance, PTL DEF Spec
<1> QED BY <1>2 DEF PassedOverOnlyByStop


=============================================================================
