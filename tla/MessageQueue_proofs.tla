------------------------- MODULE MessageQueue_proofs -------------------------
(***************************************************************************)
(* What removeMessages leaves is a queue of what was to stay.  Instead of  *)
(* an induction over the queue, the proof looks at the first place up to   *)
(* which n messages stay.                                                  *)
(***************************************************************************)
EXTENDS MessageQueue, FiniteSetTheorems, WellFoundedInduction, TLAPS

LEMMA LeastOf ==
    ASSUME NEW S, S \subseteq Nat, S # {}
    PROVE  \E n \in S : \A m \in S : n <= m
<1> DEFINE R == {p \in Nat \X Nat : p[1] < p[2]}
<1>1. R = OpToRel(<, Nat)
  BY DEF OpToRel
<1>2. IsWellFoundedOn(R, Nat)
  BY <1>1, NatLessThanWellFounded
<1>3. \A m, n \in Nat : m < n => <<m, n>> \in R
  OBVIOUS
<1> HIDE DEF R
<1>4. PICK n \in S : \A m \in S : <<m, n>> \notin R
  BY <1>2, WFMin
<1>5. ASSUME NEW m \in S
      PROVE  n <= m
  <2>1. m \in Nat /\ n \in Nat /\ ~(m < n)
    BY <1>3, <1>4
  <2> QED
    BY <2>1
<1> QED
  BY <1>5

\* Every number up to the size of a set of places is the number of them up to
\* one of them.
LEMMA CountedPlaces ==
    ASSUME NEW l \in Nat, NEW places, \A j \in places : j \in 1..l
    PROVE  /\ IsFiniteSet(places) /\ Cardinality(places) \in Nat
           /\ \A n \in 1..Cardinality(places) :
                \E i \in places : Cardinality(UpTo(places, i)) = n
<1> DEFINE c(i) == Cardinality(UpTo(places, i))
<1>p. \A j \in places : j \in Nat /\ 0 < j /\ j <= l
  OBVIOUS
<1>1. IsFiniteSet(places) /\ Cardinality(places) \in Nat
  <2>1. IsFiniteSet(1..l) /\ places \subseteq 1..l
    BY FS_Interval
  <2> QED
    BY <2>1, FS_Subset, FS_CardinalityType
<1>2. \A i \in Nat : c(i) \in Nat /\ IsFiniteSet(UpTo(places, i))
  BY <1>1, FS_Subset, FS_CardinalityType DEF UpTo
<1>3. c(0) = 0
  <2>1. UpTo(places, 0) = {}
    BY <1>p DEF UpTo
  <2> QED
    BY <2>1, FS_EmptySet
<1>4. c(l) = Cardinality(places)
  <2>1. UpTo(places, l) = places
    BY <1>p DEF UpTo
  <2> QED
    BY <2>1
<1>5. \A i \in Nat : c(i + 1) = IF i + 1 \in places THEN c(i) + 1 ELSE c(i)
  <2> TAKE i \in Nat
  <2>1. CASE i + 1 \in places
    <3>1. UpTo(places, i + 1) = UpTo(places, i) \cup {i + 1} /\ i + 1 \notin UpTo(places, i)
      BY <1>p, <2>1 DEF UpTo
    <3> QED
      BY <1>2, <2>1, <3>1, FS_AddElement
  <2>2. CASE i + 1 \notin places
    <3>1. UpTo(places, i + 1) = UpTo(places, i)
      BY <1>p, <2>2 DEF UpTo
    <3> QED
      BY <2>2, <3>1
  <2> QED
    BY <2>1, <2>2
<1> HIDE DEF c
<1>6. ASSUME NEW n \in 1..Cardinality(places)
      PROVE  \E i \in places : c(i) = n
  <2>1. PICK i \in {j \in Nat : c(j) >= n} : \A j \in {j \in Nat : c(j) >= n} : i <= j
    <3>1. l \in {j \in Nat : c(j) >= n}
      BY <1>1, <1>4, <1>6
    <3> QED
      BY <3>1, LeastOf
  <2>2. i # 0
    BY <1>3, <2>1
  <2>3. PICK j \in Nat : i = j + 1
    BY <2>1, <2>2
  <2>4. c(j) < n /\ c(i) >= n
    BY <1>2, <2>1, <2>3
  <2> QED
    BY <1>2, <1>5, <2>1, <2>3, <2>4
<1> QED
  BY <1>1, <1>6 DEF c

\* ... and of one place only, the later the larger the number.
LEMMA CountsGrow ==
    ASSUME NEW l \in Nat, NEW places, \A j \in places : j \in 1..l,
           NEW i \in places, NEW j \in places
    PROVE  /\ Cardinality(UpTo(places, i)) \in 1..Cardinality(places)
           /\ i < j => Cardinality(UpTo(places, i)) < Cardinality(UpTo(places, j))
<1>1. IsFiniteSet(places) /\ Cardinality(places) \in Nat
  BY CountedPlaces
<1>2. \A k \in places : k \in Nat
  OBVIOUS
<1>3. /\ IsFiniteSet(UpTo(places, i)) /\ IsFiniteSet(UpTo(places, j))
      /\ Cardinality(UpTo(places, i)) \in Nat /\ Cardinality(UpTo(places, j)) \in Nat
      /\ Cardinality(UpTo(places, i)) <= Cardinality(places)
  BY <1>1, FS_Subset, FS_CardinalityType DEF UpTo
<1>4. Cardinality(UpTo(places, i)) # 0
  BY <1>2, <1>3, FS_EmptySet DEF UpTo
<1>5. ASSUME i < j
      PROVE  Cardinality(UpTo(places, i)) < Cardinality(UpTo(places, j))
  <2>1. UpTo(places, i) \subseteq UpTo(places, j) \ {j} /\ j \in UpTo(places, j)
    BY <1>2, <1>5 DEF UpTo
  <2>2. /\ IsFiniteSet(UpTo(places, j) \ {j})
        /\ Cardinality(UpTo(places, j) \ {j}) = Cardinality(UpTo(places, j)) - 1
    BY <1>3, <2>1, FS_RemoveElement
  <2>3. Cardinality(UpTo(places, i)) <= Cardinality(UpTo(places, j)) - 1
    BY <1>3, <2>1, <2>2, FS_Subset
  <2> QED
    BY <1>3, <2>3
<1> QED
  BY <1>1, <1>3, <1>4, <1>5

\* removeMessages leaves a queue, no longer than it was, of messages of q
\* that are of no such kind.
THEOREM RemovesOnlyThese ==
    ASSUME NEW M, NEW q \in Seq(M), NEW kinds
    PROVE  /\ removeMessages(q, kinds) \in Seq(M \ kinds)
           /\ Len(removeMessages(q, kinds)) <= Len(q)
<1> DEFINE places == Staying(q, kinds)
<1>1. (\A i \in places : i \in 1..Len(q)) /\ Len(q) \in Nat
  BY DEF Staying
<1>2. /\ IsFiniteSet(places) /\ Cardinality(places) \in Nat
      /\ \A n \in 1..Cardinality(places) :
           \E i \in places : Cardinality(UpTo(places, i)) = n
  BY <1>1, CountedPlaces
<1>3. \A n \in 1..Cardinality(places) :
        q[CHOOSE i \in places : Cardinality(UpTo(places, i)) = n] \in M \ kinds
  <2>1. \A i \in places : q[i] \in M \ kinds
    BY <1>1 DEF Staying
  <2> HIDE DEF places
  <2> QED
    BY <1>2, <2>1
<1>4. Cardinality(places) <= Len(q)
  <2> DEFINE l == Len(q)
  <2> HIDE DEF l
  <2>1. l \in Nat
    BY <1>1 DEF l
  <2>2. IsFiniteSet(1..l) /\ Cardinality(1..l) = IF 1 > l THEN 0 ELSE l - 1 + 1
    BY <2>1, FS_Interval
  <2>3. Cardinality(places) <= Cardinality(1..l)
    BY <1>1, <2>2, FS_Subset DEF l
  <2> QED
    BY <2>1, <2>2, <2>3 DEF l
<1> QED
  BY <1>1, <1>2, <1>3, <1>4 DEF removeMessages

\* ... and it leaves all the others, in the order they had: the n-th message
\* left is the one at place f[n] of q.
THEOREM KeepsTheOthers ==
    ASSUME NEW M, NEW q \in Seq(M), NEW kinds
    PROVE  LET left == removeMessages(q, kinds)
           IN  \E f \in [1..Len(left) -> Staying(q, kinds)] :
                 /\ \A n \in 1..Len(left) : left[n] = q[f[n]]
                 /\ \A m, n \in 1..Len(left) : m < n => f[m] < f[n]
                 /\ \A i \in Staying(q, kinds) : \E n \in 1..Len(left) : f[n] = i
<1> DEFINE places == Staying(q, kinds)
           left == removeMessages(q, kinds)
           size == Cardinality(places)
           c(i) == Cardinality(UpTo(places, i))
           f == [n \in 1..size |-> CHOOSE i \in places : c(i) = n]
<1>1. (\A i \in places : i \in 1..Len(q)) /\ Len(q) \in Nat
  BY DEF Staying
<1>2. size \in Nat /\ \A n \in 1..size : \E i \in places : c(i) = n
  BY <1>1, CountedPlaces
<1>3. \A i, j \in places : c(i) \in 1..size /\ (i < j => c(i) < c(j))
  BY <1>1, CountsGrow
<1>4. left = [n \in 1..size |-> q[f[n]]]
  BY DEF removeMessages
<1>5. \A n \in 1..size : f[n] \in places /\ c(f[n]) = n
  <2> HIDE DEF places, size, c
  <2> QED
    BY <1>2
<1>6. \A i \in places : i \in Nat
  BY <1>1
<1> HIDE DEF f, places, size, c, left
<1>7. f \in [1..size -> places]
  BY <1>5 DEF f
<1>8. Len(left) = size
  BY <1>2, <1>4
<1>9. ASSUME NEW m \in 1..size, NEW n \in 1..size, m < n
      PROVE  f[m] < f[n]
  <2>1. /\ f[m] \in Nat /\ f[n] \in Nat /\ c(f[m]) = m /\ c(f[n]) = n
        /\ f[n] < f[m] => c(f[n]) < c(f[m])
    BY <1>3, <1>5, <1>6
  <2> QED
    BY <1>9, <2>1
<1>10. ASSUME NEW i \in places
       PROVE  c(i) \in 1..size /\ f[c(i)] = i
  <2>1. c(i) \in 1..size
    BY <1>3
  <2>2. /\ f[c(i)] \in places /\ c(f[c(i)]) = c(i) /\ f[c(i)] \in Nat /\ i \in Nat
        /\ i < f[c(i)] => c(i) < c(f[c(i)])
        /\ f[c(i)] < i => c(f[c(i)]) < c(i)
    BY <1>3, <1>5, <1>6, <2>1
  <2> QED
    BY <1>2, <2>1, <2>2
<1>11. \A n \in 1..Len(left) : left[n] = q[f[n]]
  BY <1>4, <1>8
<1> QED
  BY <1>7, <1>8, <1>9, <1>10, <1>11 DEF places, left
=============================================================================
