------------------------------ MODULE Sublists ------------------------------
(***************************************************************************)
(* Lists that are made of another list by choosing some of its positions   *)
(* and putting them in an order: filters, deduplications and stable sorts. *)
(*                                                                         *)
(* A position's place is known from the number of positions before it, so  *)
(* that no recursion is needed to say what the list is, nor induction to   *)
(* prove what it holds.                                                    *)
(***************************************************************************)
EXTENDS Integers, Sequences, FiniteSets

(* The positions of I that R, a set of pairs, puts before i.               *)
Before(I, R, i) == {j \in I : <<j, i>> \in R}

(* The positions of I, as R orders them.                                   *)
Arranged(I, R) ==
    [k \in 1..Cardinality(I) |-> CHOOSE i \in I : Cardinality(Before(I, R, i)) = k - 1]

Ascending(I) == {p \in I \X I : p[1] < p[2]}

Positions(I) == Arranged(I, Ascending(I))

(* What the list has at the positions of I, in the order of the list.      *)
Kept(list, I) ==
    LET position == Positions(I)
    IN  [k \in 1..Cardinality(I) |-> list[position[k]]]

(* Every element of u is one of v, in the same order.                      *)
Sublist(u, v) ==
    \E place \in [DOMAIN u -> DOMAIN v] :
        /\ \A k \in DOMAIN u : u[k] = v[place[k]]
        /\ \A k, l \in DOMAIN u : k < l => place[k] < place[l]
=============================================================================
