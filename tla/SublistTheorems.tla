-------------------------- MODULE SublistTheorems --------------------------
(***************************************************************************)
(* What the lists of module Sublists hold, for every list and every choice *)
(* of its positions.                                                       *)
(***************************************************************************)
EXTENDS Sublists, FiniteSetTheorems, TLAPS

StrictOrder(I, R) ==
    /\ \A i \in I : <<i, i>> \notin R
    /\ \A i, j \in I : i # j => <<i, j>> \in R \/ <<j, i>> \in R
    /\ \A i, j, k \in I : <<i, j>> \in R /\ <<j, k>> \in R => <<i, k>> \in R

-----------------------------------------------------------------------------
(* The number of positions before one grows along the order, and is less   *)
(* than the number of all.                                                 *)
LEMMA Places ==
    ASSUME NEW I, IsFiniteSet(I), NEW R, StrictOrder(I, R)
    PROVE  /\ \A i \in I : Cardinality(Before(I, R, i)) \in 0..(Cardinality(I) - 1)
           /\ \A i, j \in I : <<i, j>> \in R => Cardinality(Before(I, R, i)) < Cardinality(Before(I, R, j))
<1>1. \A i \in I : IsFiniteSet(Before(I, R, i)) /\ Cardinality(Before(I, R, i)) \in Nat
  BY FS_Subset, FS_CardinalityType DEF Before
<1>2. ASSUME NEW i \in I PROVE Cardinality(Before(I, R, i)) \in 0..(Cardinality(I) - 1)
  <2>1. Before(I, R, i) \in SUBSET (I \ {i})
    BY DEF Before, StrictOrder
  <2>2. IsFiniteSet(I \ {i}) /\ Cardinality(I \ {i}) = Cardinality(I) - 1
    BY FS_RemoveElement
  <2>3. Cardinality(Before(I, R, i)) <= Cardinality(I \ {i})
    BY <2>1, <2>2, FS_Subset
  <2>4. Cardinality(I) \in Nat
    BY FS_CardinalityType
  <2> QED
    BY <1>1, <2>2, <2>3, <2>4
<1>3. ASSUME NEW i \in I, NEW j \in I, <<i, j>> \in R
      PROVE  Cardinality(Before(I, R, i)) < Cardinality(Before(I, R, j))
  <2>1. i \notin Before(I, R, i) /\ Before(I, R, i) \cup {i} \in SUBSET Before(I, R, j)
    BY <1>3 DEF Before, StrictOrder
  <2>2. Cardinality(Before(I, R, i) \cup {i}) = Cardinality(Before(I, R, i)) + 1
    BY <1>1, <2>1, FS_AddElement
  <2>3. Cardinality(Before(I, R, i) \cup {i}) <= Cardinality(Before(I, R, j))
    BY <1>1, <2>1, FS_Subset
  <2> QED
    BY <1>1, <2>2, <2>3
<1> QED
  BY <1>2, <1>3

(* Arranged lists every position of a finite set once, as R orders them.   *)
LEMMA ArrangedInOrder ==
    ASSUME NEW I, IsFiniteSet(I), NEW R, StrictOrder(I, R)
    PROVE  /\ Cardinality(I) \in Nat
           /\ Arranged(I, R) \in [1..Cardinality(I) -> I]
           /\ \A i \in I : \E k \in 1..Cardinality(I) : Arranged(I, R)[k] = i
           /\ \A k, l \in 1..Cardinality(I) :
                 /\ k < l <=> <<Arranged(I, R)[k], Arranged(I, R)[l]>> \in R
                 /\ Arranged(I, R)[k] = Arranged(I, R)[l] => k = l
<1> DEFINE n == Cardinality(I)
           place(i) == Cardinality(Before(I, R, i))
           f == [i \in I |-> place(i)]
           a == Arranged(I, R)
<1>1. n \in Nat
  BY FS_CardinalityType
<1>2. /\ \A i \in I : place(i) \in 0..(n - 1)
      /\ \A i, j \in I : <<i, j>> \in R => place(i) < place(j)
  BY Places
<1> HIDE DEF place
<1>3. \A i, j \in I : place(i) = place(j) => i = j
  <2> SUFFICES ASSUME NEW i \in I, NEW j \in I, i # j PROVE place(i) # place(j)
    OBVIOUS
  <2>1. place(i) \in Int /\ place(j) \in Int
    BY <1>1, <1>2
  <2>2. place(i) < place(j) \/ place(j) < place(i)
    BY <1>2 DEF StrictOrder
  <2> QED
    BY <2>1, <2>2
<1>4. f \in Injection(I, 0..(n - 1))
  BY <1>2, <1>3 DEF Injection, IsInjective
<1>5. IsFiniteSet(0..(n - 1)) /\ Cardinality(0..(n - 1)) = n
  BY <1>1, FS_Interval
<1>6. f \in Surjection(I, 0..(n - 1))
  BY <1>4, <1>5, FS_Injection
<1>7. \A m \in 0..(n - 1) : \E i \in I : place(i) = m
  BY <1>6 DEF Surjection
<1>8. \A k \in 1..n : a[k] \in I /\ place(a[k]) = k - 1
  <2> SUFFICES ASSUME NEW k \in 1..n PROVE a[k] \in I /\ place(a[k]) = k - 1
    OBVIOUS
  <2>1. \E i \in I : place(i) = k - 1
    BY <1>1, <1>7
  <2>2. a[k] = CHOOSE i \in I : place(i) = k - 1
    BY DEF Arranged, place
  <2> QED
    BY <2>1, <2>2
<1>9. a \in [1..n -> I]
  BY <1>8 DEF Arranged
<1>10. ASSUME NEW i \in I PROVE \E k \in 1..n : a[k] = i
  <2>1. place(i) + 1 \in 1..n
    BY <1>1, <1>2
  <2>2. a[place(i) + 1] = i
    BY <1>2, <1>3, <1>8, <2>1
  <2> QED
    BY <2>1, <2>2
<1>11. ASSUME NEW k \in 1..n, NEW l \in 1..n
       PROVE  (k < l <=> <<a[k], a[l]>> \in R) /\ (a[k] = a[l] => k = l)
  <2>1. /\ a[k] \in I /\ a[l] \in I /\ place(a[k]) = k - 1 /\ place(a[l]) = l - 1
    BY <1>8
  <2>2. a[k] = a[l] => k = l
    BY <1>1, <2>1
  <2>3. ASSUME NEW m \in 1..n, NEW o \in 1..n, <<a[m], a[o]>> \in R PROVE m < o
    <3>1. a[m] \in I /\ a[o] \in I /\ place(a[m]) = m - 1 /\ place(a[o]) = o - 1
      BY <1>8
    <3>2. place(a[m]) < place(a[o])
      BY <1>2, <2>3, <3>1
    <3> QED
      BY <1>1, <3>1, <3>2
  <2>4. ASSUME k < l PROVE <<a[k], a[l]>> \in R
    <3>1. a[k] # a[l]
      BY <1>1, <2>2, <2>4
    <3>2. ~(<<a[l], a[k]>> \in R)
      <4>1. <<a[l], a[k]>> \in R => l < k
        BY <2>3
      <4> QED
        BY <1>1, <2>4, <4>1
    <3> QED
      BY <2>1, <3>1, <3>2 DEF StrictOrder
  <2>5. <<a[k], a[l]>> \in R => k < l
    BY <2>3
  <2> QED
    BY <2>2, <2>4, <2>5
<1> QED
  BY <1>1, <1>9, <1>10, <1>11

(* The ascending order of a list's positions is strict and total.          *)
LEMMA AscendingOrders ==
    ASSUME NEW I \in SUBSET Int
    PROVE  StrictOrder(I, Ascending(I))
<1>1. \A i, j \in I : <<i, j>> \in Ascending(I) <=> i < j
  BY DEF Ascending
<1> QED
  BY <1>1 DEF StrictOrder

(* The positions chosen of a list are finitely many integers.              *)
LEMMA ChoiceIsFinite ==
    ASSUME NEW n \in Nat, NEW I \in SUBSET (1..n)
    PROVE  IsFiniteSet(I) /\ I \in SUBSET Int
<1>1. IsFiniteSet(1..n)
  BY FS_Interval
<1>2. IsFiniteSet(I)
  BY <1>1, FS_Subset
<1> QED
  BY <1>2

(* The positions of a choice, each once and ascending.                     *)
LEMMA PositionsAscend ==
    ASSUME NEW I, IsFiniteSet(I), I \in SUBSET Int
    PROVE  /\ Cardinality(I) \in Nat
           /\ Cardinality(I) = 0 <=> I = {}
           /\ Positions(I) \in [1..Cardinality(I) -> I]
           /\ \A i \in I : \E k \in 1..Cardinality(I) : Positions(I)[k] = i
           /\ \A k, l \in 1..Cardinality(I) : k < l <=> Positions(I)[k] < Positions(I)[l]
<1>2. StrictOrder(I, Ascending(I))
  BY AscendingOrders
<1>3. /\ Cardinality(I) \in Nat
      /\ Positions(I) \in [1..Cardinality(I) -> I]
      /\ \A i \in I : \E k \in 1..Cardinality(I) : Positions(I)[k] = i
      /\ \A k, l \in 1..Cardinality(I) :
            k < l <=> <<Positions(I)[k], Positions(I)[l]>> \in Ascending(I)
  BY <1>2, ArrangedInOrder DEF Positions
<1>4. \A k, l \in 1..Cardinality(I) : k < l <=> Positions(I)[k] < Positions(I)[l]
  BY <1>3 DEF Ascending
<1>5. Cardinality(I) = 0 <=> I = {}
  BY FS_EmptySet
<1> QED
  BY <1>3, <1>4, <1>5

(* Kept is the list of what the chosen positions hold.                     *)
LEMMA KeptElements ==
    ASSUME NEW I, IsFiniteSet(I), I \in SUBSET Int, NEW list
    PROVE  /\ DOMAIN Kept(list, I) = 1..Cardinality(I)
           /\ Len(Kept(list, I)) = Cardinality(I)
           /\ \A k \in 1..Cardinality(I) :
                 Positions(I)[k] \in I /\ Kept(list, I)[k] = list[Positions(I)[k]]
           /\ \A i \in I : \E k \in 1..Cardinality(I) : Kept(list, I)[k] = list[i]
           /\ Kept(list, I) = << >> <=> I = {}
<1>1. /\ Cardinality(I) \in Nat /\ (Cardinality(I) = 0 <=> I = {})
      /\ Positions(I) \in [1..Cardinality(I) -> I]
      /\ \A i \in I : \E k \in 1..Cardinality(I) : Positions(I)[k] = i
  BY PositionsAscend
<1>2. Kept(list, I) = [k \in 1..Cardinality(I) |-> list[Positions(I)[k]]]
  BY DEF Kept
<1>3. \A k \in 1..Cardinality(I) :
         Positions(I)[k] \in I /\ Kept(list, I)[k] = list[Positions(I)[k]]
  BY <1>1, <1>2
<1>4. \A i \in I : \E k \in 1..Cardinality(I) : Kept(list, I)[k] = list[i]
  BY <1>1, <1>3
<1>5. Kept(list, I) \in Seq({list[i] : i \in I}) /\ Len(Kept(list, I)) = Cardinality(I)
  BY <1>1, <1>2, <1>3
<1>6. DOMAIN Kept(list, I) = 1..Cardinality(I)
  BY <1>2
<1>7. Kept(list, I) = << >> <=> I = {}
  BY <1>1, <1>5
<1> QED
  BY <1>3, <1>4, <1>5, <1>6, <1>7

(* What is kept of a list whose chosen elements are in S is a list over S. *)
LEMMA KeptInSeq ==
    ASSUME NEW I, IsFiniteSet(I), I \in SUBSET Int, NEW list, NEW S,
           \A i \in I : list[i] \in S
    PROVE  Kept(list, I) \in Seq(S)
<1>1. Cardinality(I) \in Nat
  BY PositionsAscend
<1>2. \A k \in 1..Cardinality(I) : Positions(I)[k] \in I
  BY KeptElements
<1>3. Kept(list, I) = [k \in 1..Cardinality(I) |-> list[Positions(I)[k]]]
  BY DEF Kept
<1>4. Kept(list, I) \in [1..Cardinality(I) -> S]
  BY <1>2, <1>3
<1> QED
  BY <1>1, <1>4

(* What is kept of a list is a sublist of it.                              *)
LEMMA KeptIsSublist ==
    ASSUME NEW I, IsFiniteSet(I), I \in SUBSET Int, NEW list, I \in SUBSET DOMAIN list
    PROVE  Sublist(Kept(list, I), list)
<1>1. /\ Positions(I) \in [1..Cardinality(I) -> I]
      /\ \A k, l \in 1..Cardinality(I) : k < l <=> Positions(I)[k] < Positions(I)[l]
  BY PositionsAscend
<1>2. Kept(list, I) = [k \in 1..Cardinality(I) |-> list[Positions(I)[k]]]
  BY DEF Kept
<1>3. DOMAIN Kept(list, I) = 1..Cardinality(I)
  BY <1>2
<1>4. Positions(I) \in [DOMAIN Kept(list, I) -> DOMAIN list]
  BY <1>1, <1>3
<1> QED
  BY <1>1, <1>2, <1>3, <1>4 DEF Sublist

(* What is kept of what is kept is kept in the order of the whole.         *)
LEMMA SublistOfSublist ==
    ASSUME NEW u, NEW v, NEW w, Sublist(u, v), Sublist(v, w)
    PROVE  Sublist(u, w)
<1>1. PICK p \in [DOMAIN u -> DOMAIN v] :
          /\ \A k \in DOMAIN u : u[k] = v[p[k]]
          /\ \A k, l \in DOMAIN u : k < l => p[k] < p[l]
  BY DEF Sublist
<1>2. PICK q \in [DOMAIN v -> DOMAIN w] :
          /\ \A k \in DOMAIN v : v[k] = w[q[k]]
          /\ \A k, l \in DOMAIN v : k < l => q[k] < q[l]
  BY DEF Sublist
<1> DEFINE r == [k \in DOMAIN u |-> q[p[k]]]
<1>3. r \in [DOMAIN u -> DOMAIN w]
  BY <1>1, <1>2
<1>4. /\ \A k \in DOMAIN u : u[k] = w[r[k]]
      /\ \A k, l \in DOMAIN u : k < l => r[k] < r[l]
  BY <1>1, <1>2
<1> HIDE DEF r
<1> QED
  BY <1>3, <1>4 DEF Sublist

(* A choice of positions has a first one, unless it is empty.              *)
LEMMA FirstPosition ==
    ASSUME NEW I, IsFiniteSet(I), I \in SUBSET Int, I # {}
    PROVE  \E i \in I : \A j \in I : i <= j
<1>1. \A i \in I : i \in Int
  OBVIOUS
<1>2. /\ Cardinality(I) \in Nat \ {0}
      /\ Positions(I) \in [1..Cardinality(I) -> I]
      /\ \A i \in I : \E k \in 1..Cardinality(I) : Positions(I)[k] = i
      /\ \A k, l \in 1..Cardinality(I) : k < l <=> Positions(I)[k] < Positions(I)[l]
  BY PositionsAscend
<1>3. Positions(I)[1] \in I /\ 1 \in 1..Cardinality(I)
  BY <1>2
<1>4. ASSUME NEW j \in I PROVE Positions(I)[1] <= j
  <2>1. PICK k \in 1..Cardinality(I) : Positions(I)[k] = j
    BY <1>2
  <2>2. k = 1 \/ Positions(I)[1] < Positions(I)[k]
    BY <1>2, <1>3
  <2>3. Positions(I)[1] \in Int /\ j \in Int
    BY <1>1, <1>3
  <2> QED
    BY <2>1, <2>2, <2>3
<1> QED
  BY <1>3, <1>4
=============================================================================
