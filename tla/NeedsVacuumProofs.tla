-------------------------- MODULE NeedsVacuumProofs --------------------------
(***************************************************************************)
(* What NeedsVacuum promises, proved for every set of tables, command      *)
(* line, server and number of failures: first the lists (the merge of the  *)
(* two passes most of all), then one inductive invariant per promise, each *)
(* resting on the types.                                                   *)
(***************************************************************************)
EXTENDS NeedsVacuum, SublistTheorems

Rows == [table : Tables, dead : Nat, size : Nat, last : Nat]
Has(rows, r) == \E i \in 1..Len(rows) : rows[i] = r
OncePerTable(rows) == \A i, j \in 1..Len(rows) : rows[i].table = rows[j].table => i = j

-----------------------------------------------------------------------------
(* The lists.                                                              *)

(* As many distinct values as positions that hold distinct ones.           *)
LEMMA CountedOnce ==
    ASSUME NEW n \in Nat, NEW S, NEW f \in [1..n -> S],
           \A i, j \in 1..n : f[i] = f[j] => i = j,
           \A x \in S : \E i \in 1..n : f[i] = x
    PROVE  IsFiniteSet(S) /\ Cardinality(S) = n
<1>1. f \in Bijection(1..n, S)
  BY DEF Bijection, Injection, Surjection, IsInjective
<1>2. IsFiniteSet(1..n) /\ Cardinality(1..n) = n
  BY FS_Interval
<1> QED
  BY <1>1, <1>2, FS_Bijection DEF ExistsBijection

(* The positions of a list of n rows are n.                                *)
LEMMA IntervalCounted ==
    ASSUME NEW n \in Nat
    PROVE  IsFiniteSet(1..n) /\ Cardinality(1..n) = n
BY FS_Interval

(* SetToSeqs gives the lists of a finite set, each element once.           *)
LEMMA ListsOfASet ==
    ASSUME NEW S, IsFiniteSet(S), NEW rows \in SetToSeqs(S)
    PROVE  /\ rows \in Seq(S) /\ Len(rows) = Cardinality(S)
           /\ \A r \in S : Has(rows, r)
           /\ \A i \in 1..Len(rows) : rows[i] \in S
           /\ \A i, j \in 1..Len(rows) : rows[i] = rows[j] => i = j
<1>1. Cardinality(S) \in Nat
  BY FS_CardinalityType
<1>2. /\ rows \in [1..Cardinality(S) -> S]
      /\ \A i, j \in 1..Cardinality(S) : rows[i] = rows[j] => i = j
  BY DEF SetToSeqs
<1>3. rows \in Seq(S) /\ Len(rows) = Cardinality(S)
  BY <1>1, <1>2
<1>4. rows \in Injection(1..Cardinality(S), S)
  BY <1>2 DEF Injection, IsInjective
<1>5. Cardinality(1..Cardinality(S)) = Cardinality(S)
  BY <1>1, FS_Interval
<1>6. rows \in Surjection(1..Cardinality(S), S)
  BY <1>4, <1>5, FS_Injection
<1>7. \A r \in S : Has(rows, r)
  BY <1>3, <1>6 DEF Surjection, Has
<1> QED
  BY <1>2, <1>3, <1>7

(* Truncated keeps the first n rows.                                       *)
LEMMA TruncatedRows ==
    ASSUME NEW S, NEW rows \in Seq(S), NEW n \in Nat
    PROVE  /\ Truncated(rows, n) \in Seq(S)
           /\ Len(Truncated(rows, n)) = IF n < Len(rows) THEN n ELSE Len(rows)
           /\ \A i \in 1..Len(Truncated(rows, n)) : i \in 1..Len(rows) /\ Truncated(rows, n)[i] = rows[i]
<1> DEFINE m == IF n < Len(rows) THEN n ELSE Len(rows)
<1>1. m \in Nat /\ m <= Len(rows)
  OBVIOUS
<1> HIDE DEF m
<1>2. SubSeq(rows, 1, m) \in Seq(S) /\ Len(SubSeq(rows, 1, m)) = m
      /\ \A i \in 1..m : SubSeq(rows, 1, m)[i] = rows[i]
  BY <1>1
<1>3. Truncated(rows, n) = SubSeq(rows, 1, m)
  BY DEF Truncated, m
<1>4. m = IF n < Len(rows) THEN n ELSE Len(rows)
  BY DEF m
<1> QED
  BY <1>1, <1>2, <1>3, <1>4

(* Every row has a number to be sorted by.                                 *)
LEMMA KeyIsNumber ==
    ASSUME NEW order \in Orders, NEW r \in Rows
    PROVE  Key(order, r) \in Int
BY DEF Key, Orders, Rows

(* The filter on `seen` leaves one row of each table, the first.           *)
LEMMA FirstOfEachRows ==
    ASSUME NEW rows \in Seq(Rows)
    PROVE  /\ FirstOfEach(rows) \in Seq(Rows)
           /\ OncePerTable(FirstOfEach(rows))
           /\ \A k \in 1..Len(FirstOfEach(rows)) : Has(rows, FirstOfEach(rows)[k])
           /\ \A i \in 1..Len(rows) :
                 \E k \in 1..Len(FirstOfEach(rows)) : FirstOfEach(rows)[k].table = rows[i].table
           /\ \A i \in 1..Len(rows) :
                 (\A j \in 1..(i - 1) : rows[j].table # rows[i].table)
                     => Has(FirstOfEach(rows), rows[i])
<1> DEFINE I == {i \in 1..Len(rows) : \A j \in 1..(i - 1) : rows[j].table # rows[i].table}
           first == FirstOfEach(rows)
           n == Cardinality(I)
<1>1. Len(rows) \in Nat /\ I \in SUBSET (1..Len(rows)) /\ first = Kept(rows, I)
  BY DEF FirstOfEach
<1>2. IsFiniteSet(I) /\ I \in SUBSET Int
  BY <1>1, ChoiceIsFinite
<1> HIDE DEF first, I
<1>3. /\ n \in Nat
      /\ \A k, l \in 1..n : k < l <=> Positions(I)[k] < Positions(I)[l]
  BY <1>2, PositionsAscend
<1>4. /\ first \in Seq(Rows) /\ Len(first) = n
      /\ \A k \in 1..n : Positions(I)[k] \in I /\ first[k] = rows[Positions(I)[k]]
      /\ \A i \in I : \E k \in 1..n : first[k] = rows[i]
  <2>1. \A i \in I : rows[i] \in Rows
    BY <1>1
  <2>2. Kept(rows, I) \in Seq(Rows)
    BY <1>2, <2>1, KeptInSeq
  <2>3. /\ Len(Kept(rows, I)) = n
        /\ \A k \in 1..n : Positions(I)[k] \in I /\ Kept(rows, I)[k] = rows[Positions(I)[k]]
        /\ \A i \in I : \E k \in 1..n : Kept(rows, I)[k] = rows[i]
    BY <1>2, KeptElements
  <2> QED
    BY <1>1, <2>2, <2>3
<1>5. \A i, j \in I : rows[i].table = rows[j].table => i = j
  <2> SUFFICES ASSUME NEW i \in I, NEW j \in I, i < j PROVE rows[i].table # rows[j].table
    BY <1>1
  <2> QED
    BY <1>1 DEF I
<1>6. \A k, l \in 1..n : first[k].table = first[l].table => k = l
  <2> SUFFICES ASSUME NEW k \in 1..n, NEW l \in 1..n, k < l PROVE first[k].table # first[l].table
    BY <1>3
  <2>1. Positions(I)[k] < Positions(I)[l]
    BY <1>3
  <2>2. Positions(I)[k] \in I /\ Positions(I)[l] \in I
    BY <1>4
  <2>3. Positions(I)[k] # Positions(I)[l]
    <3>1. Positions(I)[k] \in Int /\ Positions(I)[l] \in Int
      BY <1>2, <2>2
    <3> DEFINE i == Positions(I)[k]
               j == Positions(I)[l]
    <3>2. i \in Int /\ j \in Int /\ i < j
      BY <2>1, <3>1
    <3> HIDE DEF i, j
    <3>3. i # j
      BY <3>2
    <3> QED
      BY <3>3 DEF i, j
  <2> QED
    BY <1>4, <1>5, <2>2, <2>3
<1>7. ASSUME NEW i \in 1..Len(rows) PROVE \E k \in 1..n : first[k].table = rows[i].table
  <2> DEFINE J == {j \in 1..Len(rows) : rows[j].table = rows[i].table}
  <2>1. i \in J /\ J \in SUBSET (1..Len(rows))
    OBVIOUS
  <2>2. IsFiniteSet(J) /\ J \in SUBSET Int
    BY <1>1, <2>1, ChoiceIsFinite
  <2> HIDE DEF J
  <2>3. PICK j \in J : \A m \in J : j <= m
    BY <2>1, <2>2, FirstPosition
  <2>4. j \in I
    BY <1>1, <2>3 DEF I, J
  <2> QED
    BY <1>4, <2>3, <2>4 DEF J
<1>8. \A i \in 1..Len(rows) : (\A j \in 1..(i - 1) : rows[j].table # rows[i].table) => i \in I
  BY DEF I
<1>9. \A k \in 1..n : Has(rows, first[k])
  BY <1>1, <1>4 DEF Has
<1> QED
  BY <1>4, <1>6, <1>7, <1>8, <1>9 DEF OncePerTable, Has, first

(* The sort is a rearrangement, by the key and then by the position.       *)
LEMMA SortedRows ==
    ASSUME NEW order \in Orders, NEW rows \in Seq(Rows)
    PROVE  /\ StablySorted(order, rows) \in Seq(Rows)
           /\ Len(StablySorted(order, rows)) = Len(rows)
           /\ InOrder(order, StablySorted(order, rows))
           /\ \A k \in 1..Len(rows) : Has(rows, StablySorted(order, rows)[k])
           /\ \A i \in 1..Len(rows) : Has(StablySorted(order, rows), rows[i])
           /\ OncePerTable(rows) => OncePerTable(StablySorted(order, rows))
<1> DEFINE n == Len(rows)
           P == 1..n
           R == Precedes(order, rows)
           a == Arranged(P, R)
           s == StablySorted(order, rows)
           key(i) == Key(order, rows[i])
<1>1. n \in Nat /\ IsFiniteSet(P) /\ Cardinality(P) = n
  <2>1. n \in Nat
    OBVIOUS
  <2> HIDE DEF n
  <2> QED
    BY <2>1, FS_Interval
<1>2. \A i \in P : key(i) \in Int
  BY KeyIsNumber
<1>3. \A i, j \in P : <<i, j>> \in R <=> key(i) < key(j) \/ (key(i) = key(j) /\ i < j)
  BY DEF Precedes
<1>4. s = [k \in P |-> rows[a[k]]]
  BY DEF StablySorted
<1> HIDE DEF R, key, s, P
<1>5. StrictOrder(P, R)
  <2>1. \A i \in P : i \in Int
    BY DEF P
  <2> QED
    BY <1>2, <1>3, <2>1 DEF StrictOrder
<1>6. /\ a \in [1..Cardinality(P) -> P]
      /\ \A i \in P : \E k \in 1..Cardinality(P) : a[k] = i
      /\ \A k, l \in 1..Cardinality(P) :
            /\ k < l <=> <<a[k], a[l]>> \in R
            /\ a[k] = a[l] => k = l
  BY <1>1, <1>5, ArrangedInOrder
<1>7. 1..Cardinality(P) = P
  BY <1>1 DEF P
<1> HIDE DEF a
<1>8. \A k \in P : a[k] \in P /\ s[k] = rows[a[k]] /\ rows[a[k]] \in Rows
  <2> SUFFICES ASSUME NEW k \in P
               PROVE  a[k] \in P /\ s[k] = rows[a[k]] /\ rows[a[k]] \in Rows
    OBVIOUS
  <2>1. a[k] \in P
    BY <1>6, <1>7
  <2>2. rows[a[k]] \in Rows
    BY <2>1 DEF P
  <2> QED
    BY <1>4, <2>1, <2>2
<1>9. s \in Seq(Rows) /\ Len(s) = n
  <2>1. s \in [1..n -> Rows]
    BY <1>4, <1>8 DEF P
  <2> QED
    BY <1>1, <2>1
<1>10. InOrder(order, s)
  <2> SUFFICES ASSUME NEW k \in P, NEW l \in P, k < l PROVE key(a[k]) <= key(a[l])
    BY <1>8, <1>9 DEF InOrder, key, P
  <2>1. <<a[k], a[l]>> \in R
    BY <1>6, <1>7
  <2>2. a[k] \in P /\ a[l] \in P
    BY <1>8
  <2>3. key(a[k]) \in Int /\ key(a[l]) \in Int
    BY <1>2, <2>2
  <2> QED
    BY <1>3, <2>1, <2>2, <2>3
<1>11. \A k \in P : Has(rows, s[k])
  BY <1>8 DEF Has, P
<1>12. \A i \in P : Has(s, rows[i])
  <2> SUFFICES ASSUME NEW i \in P PROVE \E k \in P : s[k] = rows[i]
    BY <1>9 DEF Has, P
  <2>1. PICK k \in P : a[k] = i
    BY <1>6, <1>7
  <2> QED
    BY <1>8, <2>1
<1>13. OncePerTable(rows) => OncePerTable(s)
  <2> SUFFICES ASSUME OncePerTable(rows), NEW k \in P, NEW l \in P,
                      rows[a[k]].table = rows[a[l]].table
               PROVE  k = l
    BY <1>8, <1>9 DEF OncePerTable, P
  <2>1. a[k] = a[l]
    BY <1>8 DEF OncePerTable, P
  <2> QED
    BY <1>6, <1>7, <2>1
<1> QED
  BY <1>9, <1>10, <1>11, <1>12, <1>13 DEF s, P

(* One list after the other.                                               *)
LEMMA JoinedRows ==
    ASSUME NEW one \in Seq(Rows), NEW two \in Seq(Rows)
    PROVE  /\ one \o two \in Seq(Rows)
           /\ \A r : Has(one \o two, r) <=> Has(one, r) \/ Has(two, r)
           /\ Len(one) <= Len(one \o two)
           /\ \A i \in 1..Len(one) : (one \o two)[i] = one[i]
<1>1. /\ one \o two \in Seq(Rows) /\ Len(one \o two) = Len(one) + Len(two)
      /\ Len(one) \in Nat /\ Len(two) \in Nat
      /\ \A i \in 1..Len(one) : (one \o two)[i] = one[i]
      /\ \A i \in 1..Len(two) : (one \o two)[Len(one) + i] = two[i]
  OBVIOUS
<1>2. ASSUME NEW r, Has(one \o two, r) PROVE Has(one, r) \/ Has(two, r)
  <2>1. PICK i \in 1..(Len(one) + Len(two)) : (one \o two)[i] = r
    BY <1>1, <1>2 DEF Has
  <2>2. CASE i <= Len(one)
    <3>1. i \in 1..Len(one)
      BY <1>1, <2>2
    <3> QED
      BY <1>1, <2>1, <3>1 DEF Has
  <2>3. CASE Len(one) < i
    <3>1. i - Len(one) \in 1..Len(two) /\ Len(one) + (i - Len(one)) = i
      BY <1>1, <2>3
    <3> QED
      BY <1>1, <2>1, <3>1 DEF Has
  <2> QED
    BY <1>1, <2>2, <2>3
<1>3. ASSUME NEW r, Has(one, r) PROVE Has(one \o two, r)
  <2>1. PICK i \in 1..Len(one) : one[i] = r
    BY <1>3 DEF Has
  <2>2. i \in 1..Len(one \o two)
    BY <1>1
  <2> QED
    BY <1>1, <2>1, <2>2 DEF Has
<1>4. ASSUME NEW r, Has(two, r) PROVE Has(one \o two, r)
  <2>1. PICK i \in 1..Len(two) : two[i] = r
    BY <1>4 DEF Has
  <2>2. Len(one) + i \in 1..Len(one \o two)
    BY <1>1
  <2> QED
    BY <1>1, <2>1, <2>2 DEF Has
<1> QED
  BY <1>1, <1>2, <1>3, <1>4

(* What merge_needs_vacuum_candidates sorts: one row of every table of the *)
(* two passes, every row of the first pass when that has no table twice.   *)
MergedRows(one, two) == StablySorted(setup.order, FirstOfEach(one \o two))

(* The merged and sorted list has each table of the two passes once, in    *)
(* the order asked for, and the rows of the classic pass win.              *)
LEMMA MergedHas ==
    ASSUME NEW one \in Seq(Rows), NEW two \in Seq(Rows), setup.order \in Orders
    PROVE  /\ MergedRows(one, two) \in Seq(Rows)
           /\ OncePerTable(MergedRows(one, two))
           /\ InOrder(setup.order, MergedRows(one, two))
           /\ \A k \in 1..Len(MergedRows(one, two)) :
                 Has(one, MergedRows(one, two)[k]) \/ Has(two, MergedRows(one, two)[k])
           /\ \A r : Has(one, r) \/ Has(two, r) =>
                 \E k \in 1..Len(MergedRows(one, two)) : MergedRows(one, two)[k].table = r.table
           /\ OncePerTable(one) => \A i \in 1..Len(one) : Has(MergedRows(one, two), one[i])
<1> DEFINE both == one \o two
           first == FirstOfEach(both)
           s == StablySorted(setup.order, first)
<1>1. /\ both \in Seq(Rows)
      /\ \A r : Has(both, r) <=> Has(one, r) \/ Has(two, r)
      /\ Len(one) <= Len(both) /\ \A i \in 1..Len(one) : both[i] = one[i]
  BY JoinedRows
<1> HIDE DEF both
<1>2. /\ first \in Seq(Rows) /\ OncePerTable(first)
      /\ \A k \in 1..Len(first) : Has(both, first[k])
      /\ \A i \in 1..Len(both) : \E k \in 1..Len(first) : first[k].table = both[i].table
      /\ \A i \in 1..Len(both) :
            (\A j \in 1..(i - 1) : both[j].table # both[i].table) => Has(first, both[i])
  BY <1>1, FirstOfEachRows
<1> HIDE DEF first
<1>3. /\ s \in Seq(Rows) /\ Len(s) = Len(first) /\ OncePerTable(s) /\ InOrder(setup.order, s)
      /\ \A k \in 1..Len(first) : Has(first, s[k])
      /\ \A i \in 1..Len(first) : Has(s, first[i])
  BY <1>2, SortedRows
<1> HIDE DEF s
<1>4. \A k \in 1..Len(s) : Has(both, s[k])
  BY <1>2, <1>3 DEF Has
<1>5. ASSUME NEW r, Has(both, r) PROVE \E k \in 1..Len(s) : s[k].table = r.table
  <2>1. PICK i \in 1..Len(both) : both[i] = r
    BY <1>5 DEF Has
  <2>2. PICK l \in 1..Len(first) : first[l].table = r.table
    BY <1>2, <2>1
  <2>3. PICK k \in 1..Len(s) : s[k] = first[l]
    BY <1>3 DEF Has
  <2> QED
    BY <2>2, <2>3
<1>6. ASSUME OncePerTable(one), NEW i \in 1..Len(one) PROVE Has(s, one[i])
  <2>1. i \in 1..Len(both) /\ both[i] = one[i]
    BY <1>1
  <2>2. \A j \in 1..(i - 1) : both[j].table # both[i].table
    <3> SUFFICES ASSUME NEW j \in 1..(i - 1) PROVE both[j].table # both[i].table
      OBVIOUS
    <3>1. j \in 1..Len(one) /\ j # i
      OBVIOUS
    <3> QED
      BY <1>1, <1>6, <2>1, <3>1 DEF OncePerTable
  <2>3. Has(first, one[i])
    BY <1>2, <2>1, <2>2
  <2> QED
    BY <1>3, <2>3 DEF Has
<1>7. MergedRows(one, two) = s
  BY DEF MergedRows, s, first, both
<1> QED
  BY <1>1, <1>3, <1>4, <1>5, <1>6, <1>7

(* merge_needs_vacuum_candidates returns the head of that list, as long as *)
(* --limit allows.                                                         *)
LEMMA MergedCandidates ==
    ASSUME NEW one \in Seq(Rows), NEW two \in Seq(Rows), setup.order \in Orders,
           setup.limit \in Nat,
           NEW m, m = merge_needs_vacuum_candidates(one, two)
    PROVE  /\ m \in Seq(Rows) /\ OncePerTable(m) /\ InOrder(setup.order, m)
           /\ Len(m) = IF setup.limit < Len(MergedRows(one, two))
                       THEN setup.limit ELSE Len(MergedRows(one, two))
           /\ \A i \in 1..Len(m) : /\ i \in 1..Len(MergedRows(one, two))
                                   /\ m[i] = MergedRows(one, two)[i]
                                   /\ Has(one, m[i]) \/ Has(two, m[i])
<1> DEFINE s == MergedRows(one, two)
<1>1. /\ s \in Seq(Rows) /\ OncePerTable(s) /\ InOrder(setup.order, s)
      /\ \A k \in 1..Len(s) : Has(one, s[k]) \/ Has(two, s[k])
  BY MergedHas
<1>2. m = Truncated(s, setup.limit)
  BY DEF merge_needs_vacuum_candidates, MergedRows
<1> HIDE DEF s
<1>3. /\ m \in Seq(Rows)
      /\ Len(m) = IF setup.limit < Len(s) THEN setup.limit ELSE Len(s)
      /\ \A i \in 1..Len(m) : i \in 1..Len(s) /\ m[i] = s[i]
  BY <1>1, <1>2, TruncatedRows
<1>4. OncePerTable(m)
  BY <1>1, <1>3 DEF OncePerTable
<1>5. InOrder(setup.order, m)
  BY <1>1, <1>3 DEF InOrder
<1>6. \A i \in 1..Len(m) : Has(one, m[i]) \/ Has(two, m[i])
  BY <1>1, <1>3
<1> QED
  BY <1>3, <1>4, <1>5, <1>6 DEF s

-----------------------------------------------------------------------------
(* The types.                                                              *)

InLoop == {"before", "vacuum", "after"}
Discovering == {"version", "cap", "second", "merge"}

Types ==
    /\ setup \in Setups /\ catalog \in Catalogs
    /\ pc \in Points
    /\ dead \in [Tables -> Counts] /\ reported \in [Tables -> Counts]
    /\ present \in SUBSET Tables
    /\ cap \in Int /\ before \in Counts /\ events \in 0..MaxEvents
    /\ outcome \in [Tables -> {None, "succeeded", "failed", "skipped"}]
    /\ figure \in [Tables -> Nat \cup {None}]
    /\ classic \in Seq(Rows) /\ second \in Seq(Rows) /\ list \in Seq(Rows)
    /\ index \in Nat \ {0}
    /\ OncePerTable(classic) /\ OncePerTable(list)
    /\ pc \in InLoop => index <= Len(list)
    /\ pc \in {"settings", "classic", "version", "cap", "second"} => second = << >>
    /\ pc \notin InLoop \cup {"end"} => list = << >> /\ index = 1
    /\ pc = "end" => index = Len(list) + 1

(* What the command line, the server and the catalog give is of its type.  *)
LEMMA InputFacts ==
    ASSUME Types
    PROVE  /\ setup.order \in Orders /\ setup.limit \in Nat \ {0}
           /\ setup.table \in SUBSET Tables /\ setup.guc \in Int
           /\ setup.server \in Server
           /\ \A t \in Tables : /\ catalog[t].live \in Nat /\ catalog[t].size \in Nat
                                /\ catalog[t].last \in Nat /\ catalog[t].tuples \in Nat
                                /\ catalog[t].options \in Options
           /\ \A t \in Tables : /\ dead[t] \in Counts /\ dead[t] \in Nat
                                /\ reported[t] \in Counts /\ reported[t] \in Nat
           /\ before \in Nat
<1>1. setup \in Setup /\ catalog \in [Tables -> Entry]
  BY InputsAssumption DEF Types
<1>2. setup.limit \in Nat \ {0}
  BY <1>1 DEF Setup
<1>3. /\ dead \in [Tables -> Counts] /\ reported \in [Tables -> Counts]
      /\ before \in Counts /\ Counts \in SUBSET Nat
  BY InputsAssumption DEF Types
<1>4. /\ setup.order \in Orders /\ setup.table \in SUBSET Tables /\ setup.guc \in Int
      /\ setup.server \in Server
  BY <1>1 DEF Setup
<1>5. ASSUME NEW t \in Tables
      PROVE  /\ catalog[t].live \in Nat /\ catalog[t].size \in Nat
             /\ catalog[t].last \in Nat /\ catalog[t].tuples \in Nat
             /\ catalog[t].options \in Options
  <2>1. catalog[t] \in Entry
    BY <1>1
  <2> QED
    BY <2>1 DEF Entry
<1> QED
  BY <1>2, <1>3, <1>4, <1>5

(* The rows of tables that are there: finitely many, one of each table.    *)
LEMMA RowsOfTables ==
    ASSUME Types, NEW T \in SUBSET present, NEW S, S = {Row(t) : t \in T}
    PROVE  /\ IsFiniteSet(S) /\ S \in SUBSET Rows
           /\ \A r \in S : r.table \in present /\ r = Row(r.table)
<1>1. T \in SUBSET Tables /\ IsFiniteSet(T)
  BY TablesAssumption, FS_Subset DEF Types
<1>2. [t \in T |-> Row(t)] \in Surjection(T, S)
  BY DEF Surjection
<1>3. IsFiniteSet(S)
  BY <1>1, <1>2, FS_Surjection
<1>4. \A t \in T : Row(t) \in Rows /\ Row(t).table = t
  BY <1>1, InputFacts DEF Row, Rows
<1> QED
  BY <1>3, <1>4

(* A discovery query lists each of its rows once, and each as the table is *)
(* at that moment.                                                         *)
LEMMA FoundRows ==
    ASSUME Types, NEW S \in {ClassicRows, SecondRows}, NEW rows \in SetToSeqs(S)
    PROVE  /\ rows \in Seq(Rows) /\ Len(rows) \in Nat /\ OncePerTable(rows)
           /\ IsFiniteSet(S) /\ S \in SUBSET Rows
           /\ \A r \in S : r.table \in present /\ r = Row(r.table) /\ Has(rows, r)
           /\ \A i \in 1..Len(rows) : rows[i] \in S
<1>1. /\ IsFiniteSet(S) /\ S \in SUBSET Rows
      /\ \A r \in S : r.table \in present /\ r = Row(r.table)
  <2>1. CASE S = ClassicRows
    <3> DEFINE T == {u \in Visible :
                        reported[u] > effective.threshold + effective.scale * catalog[u].live}
    <3>1. T \in SUBSET present /\ S = {Row(t) : t \in T}
      BY <2>1 DEF ClassicRows, Visible
    <3> HIDE DEF T
    <3> QED
      BY <3>1, RowsOfTables
  <2>2. CASE S = SecondRows
    <3> DEFINE T == {u \in Visible : reported[u] > VacThreshold(u, cap) \/ InsertTriggered(u)}
    <3>1. T \in SUBSET present /\ S = {Row(t) : t \in T}
      BY <2>2 DEF SecondRows, Visible
    <3> HIDE DEF T
    <3> QED
      BY <3>1, RowsOfTables
  <2> QED
    BY <2>1, <2>2
<1>2. /\ rows \in Seq(S)
      /\ \A r \in S : Has(rows, r)
      /\ \A i \in 1..Len(rows) : rows[i] \in S
      /\ \A i, j \in 1..Len(rows) : rows[i] = rows[j] => i = j
  BY <1>1, ListsOfASet
<1>3. rows \in Seq(Rows) /\ Len(rows) \in Nat
  BY <1>1, <1>2
<1>4. OncePerTable(rows)
  BY <1>1, <1>2 DEF OncePerTable
<1> QED
  BY <1>1, <1>2, <1>3, <1>4

(* What the endings of a table have in common: Gone, Errs, Locked and      *)
(* CountAfter record it and move on.                                       *)
Recorded ==
    /\ pc \in InLoop
    /\ \E result \in {"succeeded", "failed", "skipped"} :
          /\ outcome' = [outcome EXCEPT ![table] = result]
          /\ IF result = "succeeded" THEN pc = "after" ELSE table \notin present \/ table \in erred'
    /\ \E n \in Nat \cup {None} : figure' = [figure EXCEPT ![table] = n]
    /\ index' = index + 1
    /\ pc' = IF index = Len(list) THEN "end" ELSE "before"
    /\ erred \in SUBSET erred'
    /\ UNCHANGED << setup, catalog, dead, reported, present, discovery, before,
                    met, moved, due, blind, fresh, touched, lost, vacuumed, removed >>
    /\ events' \in 0..MaxEvents

(* What other sessions and the statistics system do changes the tables and *)
(* what is said of them, and nothing of the run.                           *)
Disturbs(t) ==
    /\ pc \notin {"settings", "end", "failed"}
    /\ t \in Tables
    /\ dead' \in [Tables -> Counts] /\ reported' \in [Tables -> Counts]
    /\ \A u \in Tables \ {t} : dead'[u] = dead[u] /\ reported'[u] = reported[u]
    /\ present' \in SUBSET present
    /\ touched \in SUBSET touched' /\ (pc \in InLoop => dead' = dead \/ t \in touched')
    /\ moved \in SUBSET moved' /\ (list = << >> => reported' = reported \/ t \in moved')
    /\ lost' = lost \cup (present \ present')
    /\ UNCHANGED << setup, catalog, run, met, due, blind, fresh, erred, vacuumed, removed >>
    /\ events' \in 0..MaxEvents

(* A failed read or an interference uses one of the events of the run.     *)
LEMMA EventsCounted ==
    ASSUME Types, Fails
    PROVE  events' \in 0..MaxEvents
BY InputsAssumption DEF Types, Fails

(* Inside the loop there is a table in hand, one of the list.              *)
LEMMA TableInHand ==
    ASSUME Types, pc \in InLoop
    PROVE  /\ index \in 1..Len(list) /\ Len(list) \in Nat
           /\ table \in Tables
<1>1. index \in 1..Len(list) /\ Len(list) \in Nat
  BY DEF Types
<1>2. list[index] \in Rows
  BY <1>1 DEF Types
<1> QED
  BY <1>1, <1>2 DEF table, Rows

(* Whatever ends the work on a table records it and takes the next.        *)
LEMMA Endings ==
    ASSUME Types, Gone \/ Errs \/ Locked \/ CountAfter
    PROVE  Recorded
<1>1. events \in 0..MaxEvents
  BY DEF Types
<1> USE DEF Record, Goes, Looks, Inputs, Recorded, InLoop, InHand
<1>2. CASE Gone
  BY <1>1, <1>2 DEF Gone, history
<1>3. CASE Errs
  BY <1>3, EventsCounted DEF Errs
<1>4. CASE Locked
  BY <1>4, EventsCounted DEF Locked
<1>5. CASE CountAfter
  <2>1. table \in Tables
    BY <1>5, TableInHand DEF CountAfter
  <2>2. estimate_dead_tuples_reduced(before, reported[table]) \in Nat \cup {None}
    <3>1. before \in Nat /\ reported[table] \in Nat
      BY <2>1, InputFacts
    <3> QED
      BY <3>1 DEF estimate_dead_tuples_reduced
  <2> QED
    BY <1>1, <1>5, <2>2 DEF CountAfter, history
<1> QED
  BY <1>2, <1>3, <1>4, <1>5

(* The statistics are updated on their own time.                           *)
LEMMA Reports ==
    ASSUME Types, NEW t \in Tables, Report(t)
    PROVE  Disturbs(t)
<1>1. PICK n \in Counts :
          /\ reported' = [reported EXCEPT ![t] = n]
          /\ IF n = dead[t] THEN n # reported[t] /\ UNCHANGED events ELSE Fails
  BY DEF Report
<1>2. events' \in 0..MaxEvents
  <2>1. CASE UNCHANGED events
    BY <2>1 DEF Types
  <2>2. CASE Fails
    BY <2>2, EventsCounted
  <2> QED
    BY <1>1, <2>1, <2>2
<1>3. reported' \in [Tables -> Counts] /\ \A u \in Tables \ {t} : reported'[u] = reported[u]
  BY <1>1 DEF Types
<1>4. dead' = dead /\ present' = present /\ touched' = touched /\ lost' = lost
  BY DEF Report
<1>5. moved \in SUBSET moved' /\ (list = << >> => t \in moved')
  BY DEF Report
<1>6. dead \in [Tables -> Counts] /\ present \in SUBSET Tables
  BY DEF Types
<1> QED
  BY <1>2, <1>3, <1>4, <1>5, <1>6 DEF Report, Underway, Inputs, Disturbs

(* Another session changes one table's dead rows or drops it, and nothing  *)
(* of the phase.                                                           *)
LEMMA Disturbances ==
    ASSUME Types, NEW t \in Tables, Write(t) \/ Autovacuum(t) \/ DropOrSwap(t) \/ Report(t)
    PROVE  Disturbs(t)
<1>1. CASE Report(t)
  BY <1>1, Reports
<1>2. CASE Write(t) \/ Autovacuum(t) \/ DropOrSwap(t)
  <2>1. Interferes(t)
    BY <1>2 DEF Write, Autovacuum, DropOrSwap
  <2>2. events' \in 0..MaxEvents
    BY <2>1, EventsCounted DEF Interferes
  <2>3. /\ dead' \in [Tables -> Counts] /\ reported' \in [Tables -> Counts]
        /\ \A u \in Tables \ {t} : dead'[u] = dead[u] /\ reported'[u] = reported[u]
    BY <1>2, InputsAssumption DEF Write, Autovacuum, DropOrSwap, Types
  <2>4. /\ present' \in SUBSET present /\ lost' = lost \cup (present \ present')
        /\ moved \in SUBSET moved' /\ (list = << >> => reported' = reported \/ t \in moved')
    <3>1. CASE Write(t) \/ Autovacuum(t)
      BY <3>1 DEF Write, Autovacuum
    <3>2. CASE DropOrSwap(t)
      BY <2>1, <3>2 DEF DropOrSwap, Interferes
    <3> QED
      BY <1>2, <3>1, <3>2
  <2>5. touched \in SUBSET touched' /\ (pc \in InLoop => t \in touched')
    BY <2>1 DEF Interferes, InHand, InLoop
  <2> QED
    BY <2>1, <2>2, <2>3, <2>4, <2>5 DEF Interferes, Underway, Inputs, Disturbs
<1> QED
  BY <1>1, <1>2

(* Every step of the phase and of the other sessions keeps the types and a *)
(* list without repetitions.                                               *)
LEMMA TypesHold == Spec => []Types
<1> USE DEF InLoop, Points
<1>1. Init => Types
  <2> SUFFICES ASSUME Init PROVE Types
    OBVIOUS
  <2>1. Len(<< >>) = 0 /\ << >> \in Seq(Rows) /\ OncePerTable(<< >>)
    BY DEF OncePerTable
  <2>2. 0 \in 0..MaxEvents /\ DefaultCap \in Int /\ 0 \in Counts
    BY InputsAssumption
  <2> QED
    BY <2>1, <2>2 DEF Init, Types
<1>2. Types /\ [Next]_vars => Types'
  <2> SUFFICES ASSUME Types, [Next]_vars PROVE Types'
    OBVIOUS
  <2> USE DEF Goes, Looks, Inputs
  <2>1. CASE ReadSettings
    BY <2>1, EventsCounted DEF ReadSettings, Types, history
  <2>2. CASE FindClassic
    <3>1. PICK rows \in SetToSeqs(ClassicRows) :
              classic' = rows \/ classic' = Truncated(rows, setup.limit)
      BY <2>2 DEF FindClassic
    <3>2. rows \in Seq(Rows) /\ OncePerTable(rows) /\ Len(rows) \in Nat
      BY FoundRows
    <3>3. setup.limit \in Nat
      BY InputFacts
    <3>4. /\ Truncated(rows, setup.limit) \in Seq(Rows)
          /\ OncePerTable(Truncated(rows, setup.limit))
      BY <3>2, <3>3, TruncatedRows DEF OncePerTable
    <3> QED
      BY <2>2, <3>1, <3>2, <3>4 DEF FindClassic, Types
  <2>3. CASE ClassicError
    BY <2>3, EventsCounted DEF ClassicError, Types, history
  <2>4. CASE ReadVersion
    BY <2>4, EventsCounted DEF ReadVersion, Types
  <2>5. CASE ReadCap
    <3>1. cap' \in Int
      <4>1. DefaultCap \in Int /\ setup.guc \in Int
        BY InputsAssumption, InputFacts
      <4>2. derive_max_threshold(DefaultCap) \in Int /\ derive_max_threshold(setup.guc) \in Int
        BY <4>1 DEF derive_max_threshold
      <4> QED
        BY <2>5, <4>1, <4>2 DEF ReadCap
    <3> QED
      BY <2>5, <3>1, EventsCounted DEF ReadCap, Types
  <2>6. CASE FindSecond
    <3>1. second' \in Seq(Rows)
      <4>1. CASE second' = << >>
        BY <4>1
      <4>2. CASE \E rows \in SetToSeqs(SecondRows) : second' = rows
        BY <4>2, FoundRows
      <4> QED
        BY <2>6, <4>1, <4>2 DEF FindSecond
    <3> QED
      BY <2>6, <3>1, EventsCounted DEF FindSecond, Types
  <2>7. CASE Merge
    <3>1. setup.order \in Orders /\ setup.limit \in Nat
      BY InputFacts
    <3>2. list' \in Seq(Rows) /\ OncePerTable(list')
      BY <2>7, <3>1, MergedCandidates DEF Merge, Types
    <3>3. pc = "merge" /\ index' = 1 /\ pc' = IF list' = << >> THEN "end" ELSE "before"
      BY <2>7 DEF Merge, Types
    <3>4. pc' = "before" => index' <= Len(list')
      BY <3>2, <3>3
    <3>5. pc' = "end" => index' = Len(list') + 1
      BY <3>3
    <3> QED
      BY <2>7, <3>2, <3>3, <3>4, <3>5 DEF Merge, Types, history
  <2>8. CASE Gone \/ Errs \/ Locked \/ CountAfter
    <3>1. Recorded
      BY <2>8, Endings
    <3>2. index \in 1..Len(list) /\ Len(list) \in Nat /\ table \in Tables
      BY <3>1, TableInHand DEF Recorded
    <3>3. /\ outcome' \in [Tables -> {None, "succeeded", "failed", "skipped"}]
          /\ figure' \in [Tables -> Nat \cup {None}]
      BY <3>1, <3>2 DEF Recorded, Types
    <3>4. /\ index' \in Nat \ {0}
          /\ pc' = "before" => index' <= Len(list)
          /\ pc' = "end" => index' = Len(list) + 1
          /\ pc' \in {"before", "end"}
      BY <3>1, <3>2 DEF Recorded
    <3> QED
      BY <3>1, <3>3, <3>4 DEF Recorded, discovery, Types
  <2>9. CASE CountBefore
    <3>1. table \in Tables
      BY <2>9, TableInHand DEF CountBefore
    <3> QED
      BY <2>9, <3>1 DEF CountBefore, discovery, Types
  <2>10. CASE Vacuum
    <3>1. table \in Tables /\ index <= Len(list)
      BY <2>10, TableInHand DEF Vacuum, Types
    <3>2. PICK kept \in Counts :
              /\ dead' = [dead EXCEPT ![table] = kept]
              /\ reported' \in {reported, [reported EXCEPT ![table] = kept]}
      BY <2>10 DEF Vacuum
    <3>3. dead' \in [Tables -> Counts] /\ reported' \in [Tables -> Counts]
      BY <3>1, <3>2 DEF Types
    <3> QED
      BY <2>10, <3>1, <3>3 DEF Vacuum, discovery, Types
  <2>11. CASE \E t \in Tables : Write(t) \/ Autovacuum(t) \/ DropOrSwap(t) \/ Report(t)
    <3>1. PICK t \in Tables : Disturbs(t)
      BY <2>11, Disturbances
    <3> QED
      BY <3>1 DEF Disturbs, Types, run
  <2>12. CASE UNCHANGED vars
    BY <2>12 DEF vars, run, Types
  <2>13. CASE LockRetry
    <3>1. pc' = "before" /\ index <= Len(list) /\ events' \in 0..MaxEvents
      BY <2>13, EventsCounted DEF LockRetry, InHand, Types
    <3>2. UNCHANGED << setup, catalog, dead, reported, present, discovery, index, before,
                       outcome, figure >>
      BY <2>13 DEF LockRetry
    <3> QED
      BY <3>1, <3>2 DEF discovery, Types
  <2> QED
    BY <2>1, <2>2, <2>3, <2>4, <2>5, <2>6, <2>7, <2>8, <2>9, <2>10, <2>11, <2>12, <2>13
       DEF Next, Ended
<1> QED
  BY <1>1, <1>2, PTL DEF Spec

(* The point the phase has reached, the figures recorded and the position  *)
(* in a list that has no table twice: NeedsVacuum's TypeOK.                *)
THEOREM TypeCorrect == Spec => []TypeOK
<1>1. Types => TypeOK
  <2> SUFFICES ASSUME Types PROVE TypeOK
    OBVIOUS
  <2>1. Len(list) \in Nat
    BY DEF Types
  <2> DEFINE f == [i \in 1..Len(list) |-> list[i].table]
  <2>2. /\ f \in [1..Len(list) -> Listed]
        /\ \A i, j \in 1..Len(list) : f[i] = f[j] => i = j
        /\ \A x \in Listed : \E i \in 1..Len(list) : f[i] = x
    BY DEF Types, OncePerTable, Listed
  <2> HIDE DEF f
  <2>3. Cardinality(Listed) = Len(list)
    BY <2>1, <2>2, CountedOnce
  <2> QED
    BY <2>1, <2>3 DEF Types, TypeOK, InLoop, InHand
<1> QED
  BY <1>1, TypesHold, PTL

-----------------------------------------------------------------------------
(* What is recorded of the listed tables.                                  *)

StaleInv ==
    /\ \A t \in Tables : outcome[t] # None <=> \E i \in 1..(index - 1) : list[i].table = t
    /\ \A t \in Tables : outcome[t] \in {"failed", "skipped"} => t \in lost \cup erred
    /\ \A t \in Tables : outcome[t] = "succeeded" => t \in vacuumed
    /\ pc = "after" => table \in vacuumed
    /\ \A i \in 1..Len(classic) : classic[i].table \in present \cup lost
    /\ \A i \in 1..Len(second) : second[i].table \in present \cup lost
    /\ \A i \in 1..Len(list) : list[i].table \in present \cup lost

(* The loop records each listed table when it passes it, and no other.     *)
LEMMA StaleHolds == Spec => []StaleInv
<1>1. Init => StaleInv
  BY NoneAssumption DEF Init, StaleInv
<1>2. Types /\ Types' /\ StaleInv /\ [Next]_vars => StaleInv'
  <2> SUFFICES ASSUME Types, Types', StaleInv, [Next]_vars PROVE StaleInv'
    OBVIOUS
  <2> USE DEF Goes, Looks, Inputs
  <2>1. CASE ReadSettings \/ ClassicError \/ ReadVersion \/ ReadCap
    BY <2>1 DEF ReadSettings, ClassicError, ReadVersion, ReadCap, StaleInv, history
  <2>2. CASE FindClassic
    <3>1. \A i \in 1..Len(classic') : classic'[i].table \in present
      <4>1. PICK rows \in SetToSeqs(ClassicRows) :
                classic' = rows \/ classic' = Truncated(rows, setup.limit)
        BY <2>2 DEF FindClassic
      <4>2. /\ rows \in Seq(Rows) /\ Len(rows) \in Nat
            /\ \A i \in 1..Len(rows) : rows[i].table \in present
        BY FoundRows
      <4>3. setup.limit \in Nat
        BY InputFacts
      <4> QED
        BY <4>1, <4>2, <4>3, TruncatedRows
    <3>2. /\ second = << >> /\ list = << >> /\ index = 1 /\ lost' = {} /\ present' = present
          /\ second' = second /\ list' = list /\ index' = index /\ outcome' = outcome
      BY <2>2 DEF FindClassic, Types, InLoop
    <3>3. \A t \in Tables : outcome[t] = None
      BY <3>2 DEF StaleInv
    <3>4. \A t \in Tables : outcome'[t] \notin {"succeeded", "failed", "skipped"}
      BY <3>2, <3>3, NoneAssumption
    <3>5. pc' # "after"
      BY <2>2 DEF FindClassic
    <3> QED
      BY <3>1, <3>2, <3>3, <3>4, <3>5 DEF StaleInv
  <2>3. CASE FindSecond
    <3>1. \A i \in 1..Len(second') : second'[i].table \in present
      BY <2>3, FoundRows DEF FindSecond
    <3> QED
      BY <2>3, <3>1 DEF FindSecond, StaleInv
  <2>4. CASE Merge
    <3>1. setup.order \in Orders /\ setup.limit \in Nat /\ list = << >> /\ index = 1
      BY <2>4, InputFacts DEF Merge, Types, InLoop
    <3>2. \A i \in 1..Len(list') : Has(classic, list'[i]) \/ Has(second, list'[i])
      BY <2>4, <3>1, MergedCandidates DEF Merge, Types
    <3>3. \A i \in 1..Len(list') : list'[i].table \in present \cup lost
      BY <3>2 DEF StaleInv, Has
    <3> QED
      BY <2>4, <3>1, <3>3 DEF Merge, StaleInv, history
  <2>5. CASE Gone \/ Errs \/ Locked \/ CountAfter
    <3>1. Recorded
      BY <2>5, Endings
    <3>2. index \in 1..Len(list) /\ Len(list) \in Nat /\ table \in Tables
      BY <3>1, TableInHand DEF Recorded
    <3>3. PICK result \in {"succeeded", "failed", "skipped"} :
              /\ outcome' = [outcome EXCEPT ![table] = result]
              /\ IF result = "succeeded" THEN pc = "after" ELSE table \notin present \/ table \in erred'
      BY <3>1 DEF Recorded
    <3>4. /\ index' = index + 1 /\ list' = list /\ lost' = lost /\ vacuumed' = vacuumed
          /\ erred \in SUBSET erred' /\ pc' \in {"before", "end"}
          /\ outcome \in [Tables -> {None, "succeeded", "failed", "skipped"}]
      BY <3>1 DEF Recorded, discovery, Types
    <3>5. ASSUME NEW t \in Tables
          PROVE  outcome'[t] # None <=> \E i \in 1..(index' - 1) : list[i].table = t
      <4>1. CASE t = table
        <5>1. index \in 1..(index' - 1) /\ list[index].table = t
          BY <3>2, <3>4, <4>1 DEF table
        <5> QED
          BY <3>2, <3>3, <3>4, <4>1, <5>1, NoneAssumption
      <4>2. CASE t # table
        <5>1. \A i \in 1..(index' - 1) : i \in 1..(index - 1) \/ i = index
          BY <3>2, <3>4
        <5>2. \A i \in 1..(index - 1) : i \in 1..(index' - 1)
          BY <3>2, <3>4
        <5>3. list[index].table # t
          BY <4>2 DEF table
        <5>4. outcome'[t] = outcome[t]
          BY <3>3, <3>4, <4>2
        <5> QED
          BY <5>1, <5>2, <5>3, <5>4 DEF StaleInv
      <4> QED
        BY <4>1, <4>2
    <3>6. ASSUME NEW t \in Tables, outcome'[t] \in {"failed", "skipped"} PROVE t \in lost \cup erred'
      <4>1. CASE t = table
        <5>1. table \notin present \/ table \in erred'
          BY <3>2, <3>3, <3>4, <3>6, <4>1
        <5>2. list[index].table \in present \cup lost
          BY <3>2 DEF StaleInv
        <5> QED
          BY <4>1, <5>1, <5>2 DEF table
      <4>2. CASE t # table
        BY <3>3, <3>4, <3>6, <4>2 DEF StaleInv
      <4> QED
        BY <4>1, <4>2
    <3>7. ASSUME NEW t \in Tables, outcome'[t] = "succeeded" PROVE t \in vacuumed
      <4>1. CASE t = table
        BY <3>2, <3>3, <3>4, <3>7, <4>1 DEF StaleInv
      <4>2. CASE t # table
        BY <3>3, <3>4, <3>7, <4>2 DEF StaleInv
      <4> QED
        BY <4>1, <4>2
    <3> QED
      BY <3>1, <3>4, <3>5, <3>6, <3>7 DEF Recorded, discovery, StaleInv
  <2>6. CASE CountBefore \/ Vacuum \/ LockRetry
    <3>1. /\ UNCHANGED << outcome, index, classic, second, list, present, lost, erred >>
          /\ vacuumed \in SUBSET vacuumed'
      BY <2>6 DEF CountBefore, Vacuum, LockRetry, discovery, history
    <3>2. pc' = "after" => table' \in vacuumed'
      BY <2>6 DEF CountBefore, Vacuum, LockRetry, discovery, table
    <3> QED
      BY <3>1, <3>2 DEF StaleInv
  <2>7. CASE \E t \in Tables : Write(t) \/ Autovacuum(t) \/ DropOrSwap(t) \/ Report(t)
    <3>1. PICK t \in Tables : Disturbs(t)
      BY <2>7, Disturbances
    <3>2. present \cup lost = present' \cup lost' /\ lost \in SUBSET lost'
      BY <3>1 DEF Disturbs
    <3>3. UNCHANGED << pc, outcome, index, list, classic, second, erred, vacuumed, table >>
      BY <3>1 DEF Disturbs, run, table
    <3> QED
      BY <3>2, <3>3 DEF StaleInv
  <2>8. CASE UNCHANGED vars
    BY <2>8 DEF vars, run, history, table, StaleInv
  <2> QED
    BY <2>1, <2>2, <2>3, <2>4, <2>5, <2>6, <2>7, <2>8 DEF Next, Ended
<1> QED
  BY <1>1, <1>2, TypesHold, PTL DEF Spec

(* The list is old when its turn comes: whatever befalls one table, an     *)
(* error, a lock or a DROP, the loop of run_needs_vacuum goes on, so at    *)
(* its end every listed table has an outcome, a table that stayed and had  *)
(* no failed statement has succeeded, and success stands for a VACUUM that *)
(* ended.                                                                  *)
THEOREM StaleListIsHandled == Spec => []StaleListHandled
<1>1. Types /\ StaleInv => StaleListHandled
  <2> SUFFICES ASSUME Types, StaleInv, pc = "end", NEW t \in Tables
               PROVE  /\ t \in Listed <=> outcome[t] # None
                      /\ t \in Listed \ (lost \cup erred) => outcome[t] = "succeeded"
                      /\ outcome[t] = "succeeded" => t \in vacuumed
    BY DEF StaleListHandled
  <2>1. index - 1 = Len(list)
    BY DEF Types
  <2>2. t \in Listed <=> outcome[t] # None
    BY <2>1 DEF StaleInv, Listed
  <2>3. outcome[t] \in {None, "succeeded", "failed", "skipped"}
    BY DEF Types
  <2> QED
    BY <2>2, <2>3 DEF StaleInv
<1> QED
  BY <1>1, TypesHold, StaleHolds, PTL

-----------------------------------------------------------------------------
(* The figure of a table.                                                  *)

FigureInv ==
    /\ removed \in [Tables -> Int]
    /\ pc = "vacuum" /\ fresh /\ table \notin touched => dead[table] = before
    /\ pc = "after" /\ fresh /\ table \notin touched =>
          dead[table] <= before /\ removed[table] = before - dead[table]

(* Between the two counts of an undisturbed table its dead rows change by  *)
(* its VACUUM only, and a retry takes the first count again.               *)
LEMMA FigureHolds == Spec => []FigureInv
<1>1. Init => FigureInv
  BY DEF Init, FigureInv
<1>2. Types /\ FigureInv /\ [Next]_vars => FigureInv'
  <2> SUFFICES ASSUME Types, FigureInv, [Next]_vars PROVE FigureInv'
    OBVIOUS
  <2> USE DEF Goes, Looks, Inputs
  <2>1. CASE ReadSettings \/ ClassicError \/ ReadVersion \/ ReadCap \/ FindClassic
    BY <2>1 DEF ReadSettings, ClassicError, ReadVersion, ReadCap, FindClassic, FigureInv, history
  <2>2. CASE FindSecond \/ Merge \/ LockRetry
    BY <2>2 DEF FindSecond, Merge, LockRetry, FigureInv, history
  <2>3. CASE Gone \/ Errs \/ Locked \/ CountAfter
    <3>1. Recorded
      BY <2>3, Endings
    <3> QED
      BY <3>1 DEF Recorded, FigureInv
  <2>4. CASE CountBefore
    BY <2>4 DEF CountBefore, discovery, FigureInv, table
  <2>5. CASE Vacuum
    <3>1. table \in Tables /\ dead[table] \in Nat
      BY <2>5, TableInHand, InputFacts DEF Vacuum, InLoop
    <3>2. PICK kept \in {n \in Counts : n <= dead[table]} :
              /\ dead' = [dead EXCEPT ![table] = kept]
              /\ removed' = [removed EXCEPT ![table] = dead[table] - kept]
      BY <2>5 DEF Vacuum
    <3>3. kept \in Nat /\ kept <= dead[table]
      BY InputsAssumption
    <3>4. /\ table' = table /\ before' = before /\ touched' = touched /\ fresh' = fresh
          /\ pc' = "after" /\ pc = "vacuum"
      BY <2>5 DEF Vacuum, discovery, table
    <3>5. removed' \in [Tables -> Int]
      BY <3>1, <3>2, <3>3 DEF FigureInv
    <3>6. dead'[table] = kept /\ removed'[table] = dead[table] - kept
      BY <3>1, <3>2 DEF FigureInv, Types
    <3> QED
      BY <3>1, <3>3, <3>4, <3>5, <3>6 DEF FigureInv
  <2>6. CASE \E t \in Tables : Write(t) \/ Autovacuum(t) \/ DropOrSwap(t) \/ Report(t)
    <3>1. PICK t \in Tables : Disturbs(t)
      BY <2>6, Disturbances
    <3>2. table' = table /\ UNCHANGED << pc, before, fresh, removed >>
      BY <3>1 DEF Disturbs, run, table
    <3>3. pc \in {"vacuum", "after"} /\ table \notin touched' =>
             table \notin touched /\ dead'[table] = dead[table]
      BY <3>1, TableInHand DEF Disturbs, InLoop
    <3> QED
      BY <3>2, <3>3 DEF FigureInv
  <2>7. CASE UNCHANGED vars
    BY <2>7 DEF vars, run, history, FigureInv, table
  <2> QED
    BY <2>1, <2>2, <2>3, <2>4, <2>5, <2>6, <2>7 DEF Next, Ended
<1> QED
  BY <1>1, <1>2, TypesHold, PTL DEF Spec

(* dead_tuples_reduced is what the last VACUUM of the table removed, and   *)
(* absent for a clean table only, whatever was retried before it, unless   *)
(* n_dead_tup was behind at one of the two counts or another session       *)
(* touched the table between them: the reasons that vacuum_output.rs       *)
(* names are all there are.                                                *)
THEOREM FiguresAreOwnWork == Spec => FigureIsOwnWork
<1> DEFINE undisturbed == fresh /\ reported[table] = dead[table] /\ table \notin touched
<1>1. ASSUME Types, FigureInv, CountAfter, undisturbed
      PROVE  figure'[table] = IF before = 0 THEN None ELSE removed[table]
  <2>1. table \in Tables /\ pc = "after"
    BY <1>1, TableInHand DEF CountAfter, InLoop
  <2>2. dead[table] \in Nat /\ before \in Nat
    BY <1>1, <2>1, InputFacts
  <2>3. dead[table] <= before /\ removed[table] = before - dead[table]
    BY <1>1, <2>1 DEF FigureInv
  <2>4. figure' = [figure EXCEPT ![table] = estimate_dead_tuples_reduced(before, dead[table])]
    BY <1>1 DEF CountAfter, Record
  <2>5. figure'[table] = estimate_dead_tuples_reduced(before, dead[table])
    BY <1>1, <2>1, <2>4 DEF Types
  <2>6. estimate_dead_tuples_reduced(before, dead[table]) =
            IF before = 0 THEN None ELSE before - dead[table]
    BY <2>2, <2>3 DEF estimate_dead_tuples_reduced
  <2> QED
    BY <2>3, <2>5, <2>6
<1>2. Types /\ FigureInv /\ [Next]_vars =>
         [CountAfter /\ fresh /\ reported[table] = dead[table] /\ table \notin touched =>
             figure'[table] = IF before = 0 THEN None ELSE removed[table]]_vars
  BY <1>1
<1> QED
  BY <1>2, TypesHold, FigureHolds, PTL DEF Spec, FigureIsOwnWork

-----------------------------------------------------------------------------
(* The second pass and autovacuum.                                         *)

CoverInv ==
    /\ setup.pg18 \/ \A t \in Tables : catalog[t].options.cap = None
    /\ ~blind =>
        /\ pc \in {"cap", "second"} => version18 = setup.pg18
        /\ pc = "second" =>
              cap = IF setup.pg18 THEN derive_max_threshold(setup.guc) ELSE DefaultCap
        /\ pc = "merge" => \A t \in due : \E i \in 1..Len(second) : second[i].table = t
        /\ pc \in InLoop \cup {"end"} /\ setup.limit >= Cardinality(Tables) => due \subseteq Listed

(* The reduction leaves a disabled cap disabled and makes no cap larger.   *)
LEMMA CapReduced ==
    ASSUME NEW guc \in Int
    PROVE  /\ derive_max_threshold(guc) \in Int
           /\ guc < 0 => derive_max_threshold(guc) < 0
           /\ guc >= 0 => derive_max_threshold(guc) \in 0..guc
BY DEF derive_max_threshold

(* A table that autovacuum would act on is over vac_thr, or over ins_thr   *)
(* by the same rows that autovacuum counts.                                *)
LEMMA TriggerCovered ==
    ASSUME Types, setup.pg18 \/ \A t \in Tables : catalog[t].options.cap = None,
           version18 = setup.pg18,
           cap = (IF setup.pg18 THEN derive_max_threshold(setup.guc) ELSE DefaultCap),
           NEW t \in Tables, AutovacuumActs(t)
    PROVE  reported[t] > VacThreshold(t, cap) \/ InsertTriggered(t)
<1> DEFINE options == catalog[t].options
           factor == Coalesce(options.scale, setup.server.scale)
           scaled == factor * catalog[t].tuples
           flat   == Coalesce(options.threshold, setup.server.threshold) + scaled
           most   == Coalesce(options.cap, cap)
           real   == Coalesce(options.cap, IF setup.pg18 THEN setup.guc ELSE 0 - 1)
<1>1. setup.server \in Server /\ options \in Options /\ catalog[t].tuples \in Nat
  BY InputFacts
<1>2. scaled \in Int
  <2>1. factor \in Int
    BY <1>1 DEF Server, Options, Coalesce
  <2> HIDE DEF factor
  <2> QED
    BY <1>1, <2>1
<1>3. flat \in Int /\ reported[t] \in Int
  <2> HIDE DEF scaled
  <2>1. Coalesce(options.threshold, setup.server.threshold) \in Int
    BY <1>1 DEF Server, Options, Coalesce
  <2>2. reported[t] \in Int
    BY InputFacts
  <2> QED
    BY <1>2, <2>1, <2>2
<1>4. cap \in Int /\ setup.guc \in Int
  BY InputFacts DEF Types
<1>5. most \in Int /\ real \in Int
  BY <1>1, <1>4 DEF Options, Coalesce
<1>6. real >= 0 => most >= 0 /\ most <= real
  <2>1. CASE options.cap # None
    BY <1>5, <2>1 DEF Coalesce
  <2>2. CASE options.cap = None /\ setup.pg18
    BY <1>4, <2>2, CapReduced DEF Coalesce
  <2>3. CASE options.cap = None /\ ~setup.pg18
    BY <2>3 DEF Coalesce
  <2> QED
    BY <2>1, <2>2, <2>3
<1>7. reported[t] > flat \/ (real >= 0 /\ reported[t] > real) \/ InsertTriggered(t)
  BY DEF AutovacuumActs, InsertTriggered, Coalesce
<1>8. VacThreshold(t, cap) = IF most >= 0 /\ most < flat THEN most ELSE flat
  BY DEF VacThreshold, Capped
<1> HIDE DEF flat, most, real, options
<1> QED
  BY <1>3, <1>5, <1>6, <1>7, <1>8

(* A list without a repeated table is no longer than there are tables.     *)
LEMMA ListWithinTables ==
    ASSUME NEW rows \in Seq(Rows), OncePerTable(rows), NEW T, IsFiniteSet(T),
           \A i \in 1..Len(rows) : rows[i].table \in T
    PROVE  Len(rows) <= Cardinality(T)
<1> DEFINE f == [i \in 1..Len(rows) |-> rows[i].table]
<1>1. Len(rows) \in Nat
  OBVIOUS
<1>2. f \in Injection(1..Len(rows), T)
  BY DEF OncePerTable, Injection, IsInjective
<1>3. Cardinality(1..Len(rows)) = Len(rows)
  BY <1>1, FS_Interval
<1> QED
  BY <1>2, <1>3, FS_Injection

(* Each pass lists the tables that meet its condition, and the conditions  *)
(* cover autovacuum's.                                                     *)
LEMMA CoverHolds == Spec => []CoverInv
<1>1. Init => CoverInv
  BY DEF Init, CoverInv, InLoop
<1>2. Types /\ Types' /\ CoverInv /\ [Next]_vars => CoverInv'
  <2> SUFFICES ASSUME Types, Types', CoverInv, [Next]_vars PROVE CoverInv'
    OBVIOUS
  <2> USE DEF Goes, Looks, Inputs, InLoop
  <2>1. CASE ReadSettings \/ ClassicError \/ FindClassic
    BY <2>1 DEF ReadSettings, ClassicError, FindClassic, CoverInv
  <2>2. CASE ReadVersion
    BY <2>2 DEF ReadVersion, CoverInv
  <2>3. CASE ReadCap
    BY <2>3 DEF ReadCap, CoverInv
  <2>4. CASE FindSecond
    <3>1. CASE blind'
      BY <2>4, <3>1 DEF FindSecond, CoverInv
    <3>2. CASE ~blind'
      <4>1. /\ ~blind /\ pc = "second"
            /\ due' = {t \in Visible : AutovacuumActs(t)}
            /\ \E rows \in SetToSeqs(SecondRows) : second' = rows
        BY <2>4, <3>2 DEF FindSecond
      <4>2. ASSUME NEW t \in due' PROVE \E i \in 1..Len(second') : second'[i].table = t
        <5>1. t \in Visible /\ t \in Tables /\ AutovacuumActs(t)
          BY <4>1 DEF Visible, Types
        <5>2. reported[t] > VacThreshold(t, cap) \/ InsertTriggered(t)
          BY <4>1, <5>1, TriggerCovered DEF CoverInv
        <5>3. Row(t) \in SecondRows /\ Row(t).table = t
          BY <5>1, <5>2 DEF SecondRows, Row
        <5>4. Has(second', Row(t))
          BY <4>1, <5>3, FoundRows
        <5> QED
          BY <5>3, <5>4 DEF Has
      <4> QED
        BY <2>4, <4>2 DEF FindSecond, CoverInv
    <3> QED
      BY <3>1, <3>2
  <2>5. CASE Merge
    <3>1. /\ setup.order \in Orders /\ setup.limit \in Nat /\ pc = "merge"
          /\ classic \in Seq(Rows) /\ second \in Seq(Rows)
          /\ list' = merge_needs_vacuum_candidates(classic, second)
          /\ UNCHANGED << setup, catalog, blind, due >> /\ pc' \in {"before", "end"}
      BY <2>5, InputFacts DEF Merge, Types, history
    <3> DEFINE s == MergedRows(classic, second)
    <3>2. /\ s \in Seq(Rows) /\ OncePerTable(s)
          /\ \A r : Has(second, r) => \E k \in 1..Len(s) : s[k].table = r.table
      BY <3>1, MergedHas
    <3>3. /\ Len(list') = IF setup.limit < Len(s) THEN setup.limit ELSE Len(s)
          /\ \A i \in 1..Len(list') : list'[i] = s[i]
      BY <3>1, MergedCandidates
    <3> HIDE DEF s
    <3>4. Len(s) \in Nat /\ \A i \in 1..Len(s) : s[i].table \in Tables
      <4>1. \A i \in 1..Len(s) : s[i] \in Rows
        BY <3>2
      <4> QED
        BY <3>2, <4>1 DEF Rows
    <3>5. Len(s) <= Cardinality(Tables) /\ Cardinality(Tables) \in Nat
      BY <3>2, <3>4, ListWithinTables, TablesAssumption, FS_CardinalityType
    <3>6. ASSUME ~blind, setup.limit >= Cardinality(Tables), NEW t \in due
          PROVE  t \in Listed'
      <4>1. PICK i \in 1..Len(second) : second[i].table = t
        BY <3>1, <3>6 DEF CoverInv
      <4>2. PICK k \in 1..Len(s) : s[k].table = t
        BY <3>2, <4>1 DEF Has
      <4>3. Len(list') = Len(s)
        BY <3>1, <3>3, <3>4, <3>5, <3>6
      <4> QED
        BY <3>3, <4>2, <4>3 DEF Listed
    <3> QED
      BY <3>1, <3>6 DEF CoverInv
  <2>6. CASE Gone \/ Errs \/ Locked \/ CountAfter
    <3>1. Recorded
      BY <2>6, Endings
    <3> QED
      BY <3>1 DEF Recorded, discovery, CoverInv, Listed
  <2>7. CASE CountBefore \/ Vacuum \/ LockRetry
    BY <2>7 DEF CountBefore, Vacuum, LockRetry, InHand, discovery, history, CoverInv, Listed
  <2>8. CASE \E t \in Tables : Write(t) \/ Autovacuum(t) \/ DropOrSwap(t) \/ Report(t)
    <3>1. PICK t \in Tables : Disturbs(t)
      BY <2>8, Disturbances
    <3> QED
      BY <3>1 DEF Disturbs, run, CoverInv, Listed
  <2>9. CASE UNCHANGED vars
    BY <2>9 DEF vars, run, history, CoverInv, Listed
  <2> QED
    BY <2>1, <2>2, <2>3, <2>4, <2>5, <2>6, <2>7, <2>8, <2>9 DEF Next, Ended
<1> QED
  BY <1>1, <1>2, TypesHold, PTL DEF Spec

(* "Mirrors autovacuum's real trigger": without a limit every table that   *)
(* autovacuum itself would act on, by dead rows, by the cap or by inserts, *)
(* is listed, with the reduced cap of a server that has one and whatever   *)
(* threshold the command line gives.                                       *)
THEOREM AutovacuumIsCovered == Spec => []AutovacuumCovered
<1>1. Types /\ CoverInv => AutovacuumCovered
  BY DEF CoverInv, AutovacuumCovered, Merged, InHand, InLoop
<1> QED
  BY <1>1, TypesHold, CoverHolds, PTL

-----------------------------------------------------------------------------
(* The limit.                                                              *)

(* Each row met is in one of the passes, or the limit cut it off the first *)
(* pass, where the limit's number of rows went before it.                  *)
CutAt(order, limit, one, two, r) ==
    \/ Has(one, r) \/ Has(two, r)
    \/ /\ setup.table = Tables /\ Len(one) = limit
       /\ \A i \in 1..Len(one) : Key(order, one[i]) <= Key(order, r)

LimitInv ==
    /\ met \in SUBSET Rows /\ IsFiniteSet(met)
    /\ pc \in Discovering =>
        /\ \A i \in 1..Len(classic) : classic[i] \in met
        /\ \A i \in 1..Len(second) : second[i] \in met
        /\ \A r \in met : r.table \notin moved => r = Row(r.table)
        /\ \A r \in met : CutAt(setup.order, setup.limit, classic, second, r)

(* As many rows of one table each as the rows' tables allow.               *)
LEMMA EveryTableOnce ==
    ASSUME NEW rows \in Seq(Rows), OncePerTable(rows), NEW T, IsFiniteSet(T),
           \A i \in 1..Len(rows) : rows[i].table \in T,
           \A t \in T : \E i \in 1..Len(rows) : rows[i].table = t
    PROVE  Len(rows) = Cardinality(T)
<1> DEFINE f == [i \in 1..Len(rows) |-> rows[i].table]
<1>1. Len(rows) \in Nat
  OBVIOUS
<1>2. /\ f \in [1..Len(rows) -> T]
      /\ \A i, j \in 1..Len(rows) : f[i] = f[j] => i = j
      /\ \A t \in T : \E i \in 1..Len(rows) : f[i] = t
  BY DEF OncePerTable
<1> HIDE DEF f
<1> QED
  BY <1>1, <1>2, CountedOnce

(* A list that has every row of one among its first n has room for them.   *)
LEMMA RoomFor ==
    ASSUME NEW one \in Seq(Rows), OncePerTable(one), NEW s, NEW n \in Nat,
           \A j \in 1..Len(one) : \E k \in 1..n : s[k] = one[j]
    PROVE  Len(one) <= n
<1> DEFINE f == [j \in 1..Len(one) |-> CHOOSE k \in 1..n : s[k] = one[j]]
<1>1. \A j \in 1..Len(one) : f[j] \in 1..n /\ s[f[j]] = one[j]
  OBVIOUS
<1>2. f \in [1..Len(one) -> 1..n]
  BY <1>1
<1> HIDE DEF f
<1>3. \A j, l \in 1..Len(one) : f[j] = f[l] => j = l
  BY <1>1 DEF OncePerTable
<1>4. f \in Injection(1..Len(one), 1..n)
  BY <1>2, <1>3 DEF Injection, IsInjective
<1>5. Len(one) \in Nat
  OBVIOUS
<1>6. Cardinality(1..Len(one)) = Len(one)
  BY <1>5, IntervalCounted
<1> QED
  BY <1>4, <1>6, IntervalCounted, FS_Injection

(* The two passes over the rows M, of the tables found; of the known ones  *)
(* they saw one row.                                                       *)
Passes(one, two, M, found, known) ==
    /\ one \in Seq(Rows) /\ two \in Seq(Rows) /\ OncePerTable(one)
    /\ setup.order \in Orders /\ setup.limit \in Nat
    /\ M \in SUBSET Rows /\ IsFiniteSet(M)
    /\ \A i \in 1..Len(one) : one[i] \in M
    /\ \A i \in 1..Len(two) : two[i] \in M
    /\ \A r \in M : CutAt(setup.order, setup.limit, one, two, r)
    /\ found = {r.table : r \in M}
    /\ \A r, q \in M : r.table = q.table /\ r.table \in known => r = q

(* Whatever two passes return, the merge cuts the least rows, by the order *)
(* asked for.                                                              *)
LEMMA MergeCutsLeast ==
    ASSUME NEW one, NEW two, NEW M, NEW found, NEW known, Passes(one, two, M, found, known),
           NEW m, m = merge_needs_vacuum_candidates(one, two)
    PROVE  /\ \A i \in 1..Len(m) : m[i].table \in found
           /\ setup.table = Tables => Len(m) = IF Cardinality(found) < setup.limit
                                               THEN Cardinality(found) ELSE setup.limit
           /\ InOrder(setup.order, m)
           /\ \A r \in M : r.table \in known /\ (\A i \in 1..Len(m) : m[i].table # r.table) =>
                 \A i \in 1..Len(m) : Key(setup.order, m[i]) <= Key(setup.order, r)
<1> DEFINE s == MergedRows(one, two)
           limit == setup.limit
           key(r) == Key(setup.order, r)
<1> USE DEF Passes
<1>1. /\ s \in Seq(Rows) /\ OncePerTable(s) /\ InOrder(setup.order, s)
      /\ \A k \in 1..Len(s) : Has(one, s[k]) \/ Has(two, s[k])
      /\ \A r : Has(one, r) \/ Has(two, r) => \E k \in 1..Len(s) : s[k].table = r.table
      /\ \A i \in 1..Len(one) : Has(s, one[i])
  BY MergedHas
<1>2. /\ m \in Seq(Rows) /\ InOrder(setup.order, m)
      /\ Len(m) = IF limit < Len(s) THEN limit ELSE Len(s)
      /\ \A i \in 1..Len(m) : i \in 1..Len(s) /\ m[i] = s[i]
  BY MergedCandidates
<1> HIDE DEF s
<1>3. /\ Len(s) \in Nat /\ Len(one) \in Nat /\ Len(m) \in Nat /\ limit \in Nat
      /\ \A k \in 1..Len(s) : s[k] \in M /\ s[k].table \in found
  BY <1>1, <1>2 DEF Has
<1>4. \A r \in Rows : key(r) \in Int
  BY KeyIsNumber
<1>5. IsFiniteSet(found) /\ Cardinality(found) \in Nat
  <2>1. [r \in M |-> r.table] \in Surjection(M, found)
    BY DEF Surjection
  <2>2. IsFiniteSet(found)
    BY <2>1, FS_Surjection
  <2> QED
    BY <2>2, FS_CardinalityType
<1>6. Len(s) <= Cardinality(found)
  BY <1>1, <1>3, <1>5, ListWithinTables
<1>7. Len(one) <= Len(s)
  <2>1. \A j \in 1..Len(one) : \E k \in 1..Len(s) : s[k] = one[j]
    BY <1>1 DEF Has
  <2> QED
    BY <1>3, <2>1, RoomFor
<1>8. ASSUME setup.table = Tables
      PROVE  Len(m) = IF Cardinality(found) < limit THEN Cardinality(found) ELSE limit
  <2>1. CASE \A r \in M : Has(one, r) \/ Has(two, r)
    <3>1. ASSUME NEW t \in found PROVE \E k \in 1..Len(s) : s[k].table = t
      <4>1. PICK r \in M : r.table = t
        OBVIOUS
      <4>2. Has(one, r) \/ Has(two, r)
        BY <2>1
      <4> QED
        BY <1>1, <4>1, <4>2
    <3>2. Len(s) = Cardinality(found)
      BY <1>1, <1>3, <1>5, <3>1, EveryTableOnce
    <3> QED
      BY <1>2, <1>3, <3>2
  <2>2. CASE \E r \in M : ~(Has(one, r) \/ Has(two, r))
    <3>1. Len(one) = limit
      BY <2>2 DEF CutAt
    <3> QED
      BY <1>2, <1>3, <1>5, <1>6, <1>7, <3>1
  <2> QED
    BY <2>1, <2>2
<1>9. ASSUME NEW r \in M, r.table \in known, \A i \in 1..Len(m) : m[i].table # r.table,
             NEW i \in 1..Len(m)
      PROVE  key(m[i]) <= key(r)
  <2>1. i \in 1..Len(s) /\ m[i] = s[i] /\ s[i] \in Rows /\ r \in Rows
    BY <1>1, <1>2
  <2>2. key(m[i]) \in Int /\ key(r) \in Int
    BY <1>4, <2>1
  <2>3. CASE Has(one, r) \/ Has(two, r)
    <3>1. PICK k \in 1..Len(s) : s[k].table = r.table
      BY <1>1, <2>3
    <3>2. s[k] = r
      BY <1>3, <1>9, <3>1
    <3>3. ~(k <= Len(m))
      <4>1. k <= Len(m) => k \in 1..Len(m)
        BY <1>3
      <4> QED
        BY <1>2, <1>9, <3>1, <4>1
    <3>4. i < k
      BY <1>3, <3>3
    <3> QED
      BY <1>1, <2>1, <3>2, <3>4 DEF InOrder
  <2>4. CASE ~(Has(one, r) \/ Has(two, r))
    <3>1. Len(one) = limit /\ \A j \in 1..Len(one) : key(one[j]) <= key(r)
      BY <2>4 DEF CutAt
    <3>2. SUFFICES ASSUME key(r) < key(m[i]) PROVE FALSE
      BY <2>2
    <3>3. ASSUME NEW j \in 1..Len(one) PROVE \E k \in 1..(i - 1) : s[k] = one[j]
      <4>1. PICK k \in 1..Len(s) : s[k] = one[j]
        BY <1>1 DEF Has
      <4>2. key(one[j]) \in Int /\ key(one[j]) <= key(r)
        BY <1>4, <3>1
      <4>3. k < i
        <5>1. key(s[k]) < key(s[i])
          BY <2>1, <2>2, <3>2, <4>1, <4>2
        <5>2. i < k => key(s[i]) <= key(s[k])
          BY <1>1, <2>1 DEF InOrder
        <5>3. i # k
          BY <2>1, <2>2, <5>1
        <5>4. key(s[k]) \in Int /\ key(s[i]) \in Int
          BY <2>1, <2>2, <4>1, <4>2
        <5> QED
          BY <1>3, <2>1, <5>1, <5>2, <5>3, <5>4
      <4> QED
        BY <1>3, <2>1, <4>1, <4>3
    <3>4. i - 1 \in Nat
      BY <1>3
    <3>5. Len(one) <= i - 1
      BY <3>3, <3>4, RoomFor
    <3> QED
      BY <1>2, <1>3, <3>1, <3>5
  <2> QED
    BY <2>3, <2>4
<1> QED
  BY <1>2, <1>3, <1>8, <1>9

(* The two passes of this phase are such: the classic query, cut to        *)
(* --limit itself, and the second one.                                     *)
LEMMA LimitHolds == Spec => []LimitInv
<1>1. Init => LimitInv
  BY FS_EmptySet DEF Init, LimitInv, Discovering
<1>2. Types /\ Types' /\ LimitInv /\ [Next]_vars => LimitInv'
  <2> SUFFICES ASSUME Types, Types', LimitInv, [Next]_vars PROVE LimitInv'
    OBVIOUS
  <2> USE DEF Goes, Looks, Inputs, Discovering
  <2>1. CASE ReadSettings \/ ClassicError
    BY <2>1 DEF ReadSettings, ClassicError, LimitInv, history
  <2>2. CASE FindClassic
    <3>1. PICK rows \in SetToSeqs(ClassicRows) :
              IF setup.table # Tables THEN classic' = rows
              ELSE InOrder(setup.order, rows) /\ classic' = Truncated(rows, setup.limit)
      BY <2>2 DEF FindClassic
    <3>2. /\ rows \in Seq(Rows) /\ Len(rows) \in Nat
          /\ IsFiniteSet(ClassicRows) /\ ClassicRows \in SUBSET Rows
          /\ \A r \in ClassicRows : r = Row(r.table) /\ Has(rows, r)
          /\ \A i \in 1..Len(rows) : rows[i] \in ClassicRows
      BY FoundRows
    <3>3. setup.limit \in Nat
      BY InputFacts
    <3>4. /\ UNCHANGED << setup, catalog, reported, second >> /\ second = << >>
          /\ met' = ClassicRows
      BY <2>2 DEF FindClassic, Types
    <3>5. CASE setup.table # Tables
      <4>1. classic' = rows
        BY <3>1, <3>5
      <4>2. \A r \in met' : CutAt(setup.order, setup.limit, classic, second, r)'
        BY <3>2, <3>4, <4>1 DEF CutAt
      <4>3. \A i \in 1..Len(classic') : classic'[i] \in met'
        BY <3>2, <3>4, <4>1
      <4>4. \A i \in 1..Len(second') : second'[i] \in met'
        BY <3>4
      <4>5. \A r \in met' : r = Row(r.table)'
        BY <3>2, <3>4 DEF Row
      <4> QED
        BY <3>2, <3>4, <4>2, <4>3, <4>4, <4>5 DEF LimitInv
    <3>6. CASE setup.table = Tables
      <4>1. InOrder(setup.order, rows) /\ classic' = Truncated(rows, setup.limit)
        BY <3>1, <3>6
      <4>2. /\ Len(classic') = IF setup.limit < Len(rows) THEN setup.limit ELSE Len(rows)
            /\ \A i \in 1..Len(classic') : i \in 1..Len(rows) /\ classic'[i] = rows[i]
        BY <3>2, <3>3, <4>1, TruncatedRows
      <4>3. ASSUME NEW r \in ClassicRows
            PROVE  CutAt(setup.order, setup.limit, classic', second', r)
        <5>1. PICK k \in 1..Len(rows) : rows[k] = r
          BY <3>2 DEF Has
        <5>2. CASE k <= Len(classic')
          <6>1. k \in 1..Len(classic')
            BY <3>2, <3>3, <4>2, <5>2
          <6> QED
            BY <4>2, <5>1, <6>1 DEF CutAt, Has
        <5>3. CASE Len(classic') < k
          <6>1. Len(classic') = setup.limit
            BY <3>2, <3>3, <4>2, <5>3
          <6>2. \A i \in 1..Len(classic') : i < k
            BY <3>2, <3>3, <4>2, <5>3
          <6>3. \A i \in 1..Len(classic') : Key(setup.order, classic'[i]) <= Key(setup.order, r)
            BY <4>1, <4>2, <5>1, <6>2 DEF InOrder
          <6> QED
            BY <3>6, <6>1, <6>3 DEF CutAt
        <5> QED
          BY <3>2, <3>3, <4>2, <5>2, <5>3
      <4>4. \A i \in 1..Len(classic') : classic'[i] \in met'
        BY <3>2, <3>4, <4>2
      <4>5. \A i \in 1..Len(second') : second'[i] \in met'
        BY <3>4
      <4>6. \A r \in met' : r = Row(r.table)'
        BY <3>2, <3>4 DEF Row
      <4>7. \A r \in met' : CutAt(setup.order, setup.limit, classic, second, r)'
        BY <3>4, <4>3 DEF CutAt
      <4> QED
        BY <3>2, <3>4, <4>4, <4>5, <4>6, <4>7 DEF LimitInv
    <3> QED
      BY <3>5, <3>6
  <2>3. CASE ReadVersion \/ ReadCap
    <3>1. UNCHANGED << setup, catalog, reported, met, moved, classic, second >>
      BY <2>3 DEF ReadVersion, ReadCap
    <3>2. pc \in Discovering
      BY <2>3 DEF ReadVersion, ReadCap
    <3> QED
      BY <3>1, <3>2 DEF LimitInv, Row, CutAt
  <2>4. CASE FindSecond
    <3>1. /\ UNCHANGED << setup, catalog, reported, moved, classic >> /\ second = << >>
          /\ pc \in Discovering
      BY <2>4 DEF FindSecond, Types
    <3>2. \A r \in met : Has(classic, r) \/ /\ setup.table = Tables /\ Len(classic) = setup.limit
                                            /\ \A i \in 1..Len(classic) : Key(setup.order, classic[i]) <= Key(setup.order, r)
      BY <3>1 DEF LimitInv, CutAt, Has
    <3>3. CASE met' = met /\ second' = << >>
      BY <3>1, <3>3 DEF LimitInv, Row, CutAt
    <3>4. CASE met' = met \cup SecondRows /\ \E rows \in SetToSeqs(SecondRows) : second' = rows
      <4>1. /\ IsFiniteSet(SecondRows) /\ SecondRows \in SUBSET Rows
            /\ \A r \in SecondRows : r = Row(r.table) /\ Has(second', r)
            /\ \A i \in 1..Len(second') : second'[i] \in SecondRows
        BY <3>4, FoundRows
      <4>2. IsFiniteSet(met') /\ met' \in SUBSET Rows
        BY <3>4, <4>1, FS_Union DEF LimitInv
      <4>3. \A r \in met' : CutAt(setup.order, setup.limit, classic, second, r)'
        BY <3>1, <3>2, <3>4, <4>1 DEF CutAt
      <4>4. \A r \in met' : r.table \notin moved' => r = Row(r.table)'
        BY <3>1, <3>4, <4>1 DEF LimitInv, Row
      <4>5. \A i \in 1..Len(classic') : classic'[i] \in met'
        BY <3>1, <3>4 DEF LimitInv
      <4>6. \A i \in 1..Len(second') : second'[i] \in met'
        BY <3>4, <4>1
      <4> QED
        BY <4>2, <4>3, <4>4, <4>5, <4>6 DEF LimitInv
    <3> QED
      BY <2>4, <3>3, <3>4 DEF FindSecond
  <2>5. CASE Merge
    BY <2>5 DEF Merge, LimitInv, history
  <2>6. CASE Gone \/ Errs \/ Locked \/ CountAfter
    <3>1. Recorded
      BY <2>6, Endings
    <3> QED
      BY <3>1 DEF Recorded, LimitInv
  <2>7. CASE CountBefore \/ Vacuum \/ LockRetry
    BY <2>7 DEF CountBefore, Vacuum, LockRetry, LimitInv, history
  <2>8. CASE \E t \in Tables : Write(t) \/ Autovacuum(t) \/ DropOrSwap(t) \/ Report(t)
    <3>1. PICK t \in Tables : Disturbs(t)
      BY <2>8, Disturbances
    <3>2. /\ UNCHANGED << pc, setup, catalog, classic, second, met >>
          /\ moved \in SUBSET moved' /\ (list = << >> => reported' = reported \/ t \in moved')
          /\ \A u \in Tables \ {t} : reported'[u] = reported[u]
      BY <3>1 DEF Disturbs, run
    <3>3. ASSUME pc \in Discovering, NEW r \in met, r.table \notin moved'
          PROVE  r = Row(r.table)'
      <4>1. r.table \in Tables /\ r = Row(r.table)
        BY <3>2, <3>3 DEF LimitInv, Rows
      <4>2. list = << >>
        BY <3>3 DEF Types, InLoop
      <4>3. reported'[r.table] = reported[r.table]
        BY <3>2, <3>3, <4>1, <4>2
      <4> QED
        BY <3>2, <4>1, <4>3 DEF Row
    <3> QED
      BY <3>2, <3>3 DEF LimitInv, CutAt
  <2>9. CASE UNCHANGED vars
    BY <2>9 DEF vars, run, history, LimitInv, Row, CutAt
  <2> QED
    BY <2>1, <2>2, <2>3, <2>4, <2>5, <2>6, <2>7, <2>8, <2>9 DEF Next, Ended
<1> QED
  BY <1>1, <1>2, TypesHold, PTL DEF Spec

(* --limit cuts the classic query and then the merged list: the list is as *)
(* long as the tables found allow, in order, and what was left out, when   *)
(* nobody touched it between the passes, would not have come earlier.      *)
THEOREM LimitIsHonoured == Spec => []LimitCutsLeast
<1>1. Init => LimitCutsLeast
  BY DEF Init, LimitCutsLeast, Merged, InHand
<1>2. Types /\ Types' /\ LimitInv /\ LimitCutsLeast /\ [Next]_vars => LimitCutsLeast'
  <2> SUFFICES ASSUME Types, Types', LimitInv, LimitCutsLeast, [Next]_vars, Merged'
               PROVE  LimitCutsLeast'
    BY DEF LimitCutsLeast
  <2> USE DEF Goes, Looks, Inputs
  <2>1. CASE \/ ReadSettings \/ FindClassic \/ ClassicError \/ ReadVersion \/ ReadCap \/ FindSecond
    BY <2>1 DEF ReadSettings, FindClassic, ClassicError, ReadVersion, ReadCap, FindSecond,
                Merged, InHand
  <2>2. CASE Merge
    <3>1. /\ setup.order \in Orders /\ setup.limit \in Nat
          /\ classic \in Seq(Rows) /\ second \in Seq(Rows) /\ OncePerTable(classic)
      BY InputFacts DEF Types
    <3>2. /\ pc = "merge" /\ list' = merge_needs_vacuum_candidates(classic, second)
          /\ UNCHANGED << setup, met, moved >>
      BY <2>2 DEF Merge, history
    <3>3. /\ met \in SUBSET Rows /\ IsFiniteSet(met)
          /\ \A i \in 1..Len(classic) : classic[i] \in met
          /\ \A i \in 1..Len(second) : second[i] \in met
          /\ \A r \in met : r.table \notin moved => r = Row(r.table)
          /\ \A r \in met : CutAt(setup.order, setup.limit, classic, second, r)
      BY <3>2 DEF LimitInv, Discovering
    <3> DEFINE found == {r.table : r \in met}
               known == Tables \ moved
    <3>4. \A r, q \in met : r.table = q.table /\ r.table \in known => r = q
      BY <3>3
    <3> HIDE DEF found, known
    <3>5. found = {r.table : r \in met} /\ Passes(classic, second, met, found, known)
      BY <3>1, <3>3, <3>4 DEF found, Passes
    <3>6. /\ \A i \in 1..Len(list') : list'[i].table \in found
          /\ setup.table = Tables => Len(list') = IF Cardinality(found) < setup.limit
                                                  THEN Cardinality(found) ELSE setup.limit
          /\ InOrder(setup.order, list')
          /\ \A r \in met : r.table \in known /\ (\A i \in 1..Len(list') : list'[i].table # r.table) =>
                \A i \in 1..Len(list') : Key(setup.order, list'[i]) <= Key(setup.order, r)
      BY <3>2, <3>5, MergeCutsLeast
    <3>7. \A r \in met : r.table \notin moved => r.table \in known
      BY <3>3 DEF known, Rows
    <3>8. Listed' = {list'[i].table : i \in 1..Len(list')}
      BY DEF Listed
    <3>9. Listed' \in SUBSET found
      BY <3>6, <3>8
    <3>10. ASSUME NEW r \in met, r.table \notin Listed' \cup moved
           PROVE  \A i \in 1..Len(list') : Key(setup.order, list'[i]) <= Key(setup.order, r)
      <4>1. r.table \in known /\ \A i \in 1..Len(list') : list'[i].table # r.table
        BY <3>7, <3>8, <3>10
      <4> QED
        BY <3>6, <4>1
    <3> QED
      BY <3>2, <3>5, <3>6, <3>9, <3>10 DEF LimitCutsLeast
  <2>3. CASE Gone \/ Errs \/ Locked \/ CountAfter
    <3>1. Recorded
      BY <2>3, Endings
    <3>2. UNCHANGED << setup, list, met, moved >> /\ pc \in InLoop
      BY <3>1 DEF Recorded, discovery
    <3>3. Merged
      BY <3>2 DEF Merged, InHand, InLoop
    <3>4. Listed' = Listed
      BY <3>2 DEF Listed
    <3> QED
      BY <3>2, <3>3, <3>4 DEF LimitCutsLeast, Merged, InHand
  <2>4. CASE CountBefore \/ Vacuum \/ LockRetry
    <3>1. UNCHANGED << setup, list, met, moved >> /\ InHand
      BY <2>4 DEF CountBefore, Vacuum, LockRetry, discovery, history, InHand
    <3>2. Listed' = Listed
      BY <3>1 DEF Listed
    <3> QED
      BY <3>1, <3>2 DEF LimitCutsLeast, Merged, InHand
  <2>5. CASE \E t \in Tables : Write(t) \/ Autovacuum(t) \/ DropOrSwap(t) \/ Report(t)
    <3>1. PICK t \in Tables : Disturbs(t)
      BY <2>5, Disturbances
    <3>2. UNCHANGED << pc, setup, list, met >> /\ moved \in SUBSET moved'
      BY <3>1 DEF Disturbs, run
    <3> QED
      BY <3>2 DEF LimitCutsLeast, Merged, InHand, Listed
  <2>6. CASE UNCHANGED vars
    BY <2>6 DEF vars, run, history, LimitCutsLeast, Merged, InHand, Listed
  <2> QED
    BY <2>1, <2>2, <2>3, <2>4, <2>5, <2>6 DEF Next, Ended
<1> QED
  BY <1>1, <1>2, TypesHold, LimitHolds, PTL DEF Spec
=============================================================================
