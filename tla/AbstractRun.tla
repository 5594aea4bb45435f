---------------------------- MODULE AbstractRun ----------------------------
(***************************************************************************)
(* What a run of pg-maintainer promises, without saying how: phases match  *)
(* tables and decide them one by one, every decision is counted once, a    *)
(* phase is left early for a shutdown only, and the exit code tells which  *)
(* of its four ends the run met.  MaintenanceRun implements it.            *)
(***************************************************************************)
EXTENDS Integers, FiniteSetTheorems, TLAPS

CONSTANT Tables

Phases == 1..8
Outcomes == {"succeeded", "failed", "skipped"}
Tally == [total : Nat, succeeded : Nat, failed : Nat, skipped : Nat]

VARIABLES
    status,      \* between phases, working on one, failing, or ended
    dry,         \* --dry-run
    phase,       \* the current or next phase; 9 when none is left
    pending,     \* the matched tables of the phase that are not decided yet
    tally,       \* per phase, what is reported at the end
    requested,   \* a signal was received
    stop,        \* and the run can see it
    exit         \* the exit code, -1 while running

work == << status, phase, pending, tally, exit >>
vars == << status, dry, phase, pending, tally, requested, stop, exit >>

Decided(p) == tally[p].succeeded + tally[p].failed + tally[p].skipped

-----------------------------------------------------------------------------
Init ==
    /\ status = "between" /\ phase = 1 /\ pending = {} /\ exit = -1
    /\ dry \in BOOLEAN
    /\ tally = [p \in Phases |-> [total |-> 0, succeeded |-> 0, failed |-> 0, skipped |-> 0]]
    /\ requested = FALSE /\ stop = FALSE

Request ==
    /\ status # "ended"
    /\ requested' = TRUE
    /\ UNCHANGED << work, dry, stop >>

Stop ==
    /\ status # "ended" /\ requested
    /\ stop' = TRUE
    /\ UNCHANGED << work, dry, requested >>

-----------------------------------------------------------------------------
Matched(S) ==
    /\ pending' = S
    /\ tally' = [tally EXCEPT ![phase].total = Cardinality(S)]

(* No phase is begun once the run can see a shutdown.                      *)
Begin ==
    /\ status = "between" /\ phase \in Phases /\ ~stop
    /\ status' = "working"
    /\ \E S \in SUBSET Tables : Matched(S)
    /\ UNCHANGED << dry, phase, requested, stop, exit >>

(* The tables of a phase are matched before the first of them is decided.  *)
Match ==
    /\ status = "working" /\ pending = {} /\ Decided(phase) = 0
    /\ \E S \in SUBSET Tables : Matched(S)
    /\ UNCHANGED << dry, status, phase, requested, stop, exit >>

(* A table leaves the list with its outcome; a dry run may report none.    *)
Decide(t) ==
    /\ status = "working" /\ t \in pending
    /\ pending' = pending \ {t}
    /\ \/ \E o \in Outcomes : tally' = [tally EXCEPT ![phase][o] = @ + 1]
       \/ dry /\ UNCHANGED tally
    /\ UNCHANGED << dry, status, phase, requested, stop, exit >>

(* The phase is over; tables are left undecided only because of a shutdown, *)
(* and the one it interrupted counts as skipped.                           *)
Leave ==
    /\ status = "working"
    /\ \/ pending = {} /\ UNCHANGED tally
       \/ pending # {} /\ stop /\ UNCHANGED tally
       \/ pending # {} /\ stop /\ tally' = [tally EXCEPT ![phase].skipped = @ + 1]
    /\ status' = "between" /\ phase' = phase + 1 /\ pending' = {}
    /\ UNCHANGED << dry, requested, stop, exit >>

PassOver ==
    /\ status = "between" /\ phase \in Phases
    /\ phase' = phase + 1
    /\ UNCHANGED << dry, status, pending, tally, requested, stop, exit >>

-----------------------------------------------------------------------------
AnyFailed == \E p \in Phases : tally[p].failed > 0

End ==
    /\ status = "between" /\ phase = 9
    /\ \/ stop /\ exit' = 130
       \/ ~stop /\ ~AnyFailed /\ exit' = 0
    /\ status' = "ended"
    /\ UNCHANGED << dry, phase, pending, tally, requested, stop >>

(* An error of a query outside the per-table work, or the failures of the  *)
(* whole run.                                                              *)
Fail ==
    /\ \/ status = "working"
       \/ status = "between" /\ phase = 9 /\ ~stop /\ AnyFailed
    /\ status' = "failing"
    /\ UNCHANGED << dry, phase, pending, tally, requested, stop, exit >>

Abort ==
    /\ status = "failing"
    /\ exit' \in IF requested THEN {130} ELSE {1, 3}
    /\ status' = "ended"
    /\ UNCHANGED << dry, phase, pending, tally, requested, stop >>

Next ==
    \/ Request \/ Stop
    \/ Begin \/ Match \/ (\E t \in Tables : Decide(t)) \/ Leave \/ PassOver
    \/ End \/ Fail \/ Abort

Spec == Init /\ [][Next]_vars

-----------------------------------------------------------------------------
(* No table is lost or counted twice: matched tables are decided or still  *)
(* pending while a phase is worked on, and whoever reads exit code 0 of a  *)
(* real run knows that every matched table was maintained or skipped.  A   *)
(* dry run counts the tables it skips and no others.                       *)
Accounts ==
    /\ status = "working" =>
         /\ Decided(phase) + Cardinality(pending) <= tally[phase].total
         /\ ~dry => Decided(phase) + Cardinality(pending) = tally[phase].total
    /\ exit = 0 /\ ~dry => \A p \in Phases : Decided(p) = tally[p].total /\ tally[p].failed = 0

-----------------------------------------------------------------------------
TypeOK ==
    /\ status \in {"between", "working", "failing", "ended"}
    /\ dry \in BOOLEAN /\ requested \in BOOLEAN /\ stop \in BOOLEAN
    /\ phase \in 1..9
    /\ status = "working" => phase \in Phases
    /\ pending \in SUBSET Tables
    /\ tally \in [Phases -> Tally]
    /\ exit \in Int
    /\ status # "ended" => exit = -1

Untouched(p) ==
    tally[p].succeeded = 0 /\ tally[p].failed = 0 /\ tally[p].skipped = 0 /\ tally[p].total = 0

Ahead(p) == p > phase \/ (p = phase /\ status = "between")

(* Accounts is not inductive: it needs that phases ahead have counted      *)
(* nothing yet, and that phases behind are complete unless a shutdown cut  *)
(* them short, which the code 0 rules out.                                 *)
NothingAhead == \A p \in Phases : Ahead(p) => Untouched(p)

CompleteBehind == ~dry /\ ~stop => \A p \in Phases : p < phase => Decided(p) = tally[p].total

AccountsInv == TypeOK /\ Accounts /\ NothingAhead /\ CompleteBehind

(* Every counter but the total counts one outcome.                         *)
LEMMA CountOne ==
    ASSUME TypeOK, NEW p \in Phases, NEW o \in Outcomes, tally' = [tally EXCEPT ![p][o] = @ + 1]
    PROVE  /\ tally' \in [Phases -> Tally]
           /\ Decided(p)' = Decided(p) + 1
           /\ tally'[p].total = tally[p].total
           /\ \A q \in Phases \ {p} : tally'[q] = tally[q]
<1> USE DEF TypeOK, Tally, Decided
<1>1. CASE o = "succeeded"
  BY <1>1
<1>2. CASE o = "failed"
  BY <1>2
<1>3. CASE o = "skipped"
  BY <1>3
<1> QED
  BY <1>1, <1>2, <1>3 DEF Outcomes

(* The accounts of a run are complete, for every set of tables.            *)
THEOREM AccountsHold == ASSUME IsFiniteSet(Tables) PROVE Spec => []Accounts
<1>1. Init => AccountsInv
  <2> SUFFICES ASSUME Init PROVE AccountsInv
    OBVIOUS
  <2>1. TypeOK
    <3>1. tally \in [Phases -> Tally]
      BY DEF Init, Tally
    <3>2. phase \in 1..9 /\ exit \in Int /\ exit = -1 /\ status = "between"
      BY DEF Init
    <3>3. dry \in BOOLEAN /\ requested \in BOOLEAN /\ stop \in BOOLEAN /\ pending = {}
      BY DEF Init
    <3> QED
      BY <3>1, <3>2, <3>3 DEF TypeOK
  <2>2. \A p \in Phases : Untouched(p) /\ Decided(p) = tally[p].total
    BY DEF Init, Untouched, Decided
  <2> QED
    BY <2>1, <2>2 DEF AccountsInv, Accounts, NothingAhead, CompleteBehind, Init
<1>2. AccountsInv /\ [Next]_vars => AccountsInv'
  <2> SUFFICES ASSUME AccountsInv, [Next]_vars PROVE AccountsInv'
    OBVIOUS
  <2> USE DEF AccountsInv
  <2>0. \A S \in SUBSET Tables : IsFiniteSet(S) /\ Cardinality(S) \in Nat
    BY FS_Subset, FS_CardinalityType
  <2>1. CASE Request
    BY <2>1 DEF Request, work, TypeOK, Accounts, NothingAhead, CompleteBehind, Decided,
                Untouched, Ahead
  <2>2. CASE Stop
    BY <2>2 DEF Stop, work, TypeOK, Accounts, NothingAhead, CompleteBehind, Decided,
                Untouched, Ahead
  <2>3. ASSUME NEW S \in SUBSET Tables, Matched(S), status' = "working",
               status = "between" \/ (status = "working" /\ pending = {} /\ Decided(phase) = 0),
               phase \in Phases, UNCHANGED << dry, phase, requested, stop, exit >>
        PROVE  AccountsInv'
    <3>1. /\ tally' \in [Phases -> Tally]
          /\ tally'[phase].total = Cardinality(S)
          /\ Decided(phase)' = Decided(phase)
          /\ \A q \in Phases \ {phase} : tally'[q] = tally[q]
      BY <2>3, <2>0 DEF Matched, TypeOK, Tally, Decided
    <3>2. Decided(phase) = 0
      BY <2>3 DEF NothingAhead, Ahead, Untouched, Decided
    <3>3. TypeOK'
      BY <2>3, <3>1 DEF TypeOK, Matched
    <3>4. Accounts'
      <4>1. exit' = -1
        BY <2>3 DEF TypeOK
      <4> QED
        BY <2>0, <2>3, <3>1, <3>2, <4>1 DEF Accounts, Matched
    <3>5. NothingAhead' /\ CompleteBehind'
      BY <2>3, <3>1 DEF NothingAhead, CompleteBehind, Ahead, Untouched, Decided, Phases, TypeOK
    <3> QED
      BY <3>3, <3>4, <3>5
  <2>4. CASE Begin \/ Match
    BY <2>3, <2>4 DEF Begin, Match, TypeOK
  <2>5. ASSUME NEW t \in Tables, Decide(t) PROVE AccountsInv'
    <3>1. Cardinality(pending') = Cardinality(pending) - 1
      BY <2>5, <2>0, FS_RemoveElement DEF Decide, TypeOK
    <3>2. /\ tally' \in [Phases -> Tally]
          /\ Decided(phase)' = Decided(phase) + 1 \/ (dry /\ UNCHANGED tally)
          /\ tally'[phase].total = tally[phase].total
          /\ \A q \in Phases \ {phase} : tally'[q] = tally[q]
      BY <2>5, CountOne DEF Decide, TypeOK
    <3>3. TypeOK'
      BY <2>5, <3>2 DEF TypeOK, Decide
    <3>4. Accounts'
      <4>1. /\ exit' = -1 /\ phase \in Phases
            /\ Decided(phase) \in Nat /\ tally[phase].total \in Nat /\ Cardinality(pending) \in Nat
        BY <2>5, <2>0 DEF TypeOK, Decide, Decided, Tally
      <4>2. CASE Decided(phase)' = Decided(phase) + 1
        BY <2>5, <3>1, <3>2, <4>1, <4>2 DEF Accounts, Decide
      <4>3. CASE dry /\ UNCHANGED tally
        BY <2>5, <3>1, <4>1, <4>3 DEF Accounts, Decide, Decided
      <4> QED
        BY <3>2, <4>2, <4>3
    <3>5. NothingAhead' /\ CompleteBehind'
      BY <2>5, <3>2 DEF NothingAhead, CompleteBehind, Decide, Ahead, Untouched, Decided, Phases, TypeOK
    <3> QED
      BY <3>3, <3>4, <3>5
  <2>6. CASE Leave
    <3>1. /\ tally' \in [Phases -> Tally]
          /\ \A q \in Phases \ {phase} : tally'[q] = tally[q]
          /\ tally' = tally \/ stop
      BY <2>6, CountOne DEF Leave, TypeOK, Outcomes, Tally
    <3>2. TypeOK' /\ Accounts'
      BY <2>6, <3>1 DEF TypeOK, Accounts, Leave, Phases
    <3>3. NothingAhead'
      BY <2>6, <3>1 DEF Leave, NothingAhead, Ahead, Untouched, Phases, TypeOK
    <3>4. CompleteBehind'
      <4>1. ASSUME ~dry, ~stop PROVE tally' = tally /\ Decided(phase) = tally[phase].total
        <5>1. status = "working" /\ pending = {} /\ UNCHANGED tally
          BY <2>6, <4>1 DEF Leave
        <5>2. Decided(phase) \in Nat
          BY <5>1 DEF TypeOK, Decided, Tally
        <5>3. Decided(phase) + Cardinality({}) = tally[phase].total
          BY <4>1, <5>1 DEF Accounts
        <5> QED
          BY <5>1, <5>2, <5>3, FS_EmptySet
      <4> QED
        BY <2>6, <4>1 DEF Leave, CompleteBehind, TypeOK, Decided, Phases
    <3> QED
      BY <3>2, <3>3, <3>4
  <2>7. CASE PassOver
    <3>1. TypeOK' /\ Accounts'
      BY <2>7 DEF TypeOK, Accounts, PassOver, Phases, Decided
    <3>2. NothingAhead'
      BY <2>7 DEF PassOver, NothingAhead, Ahead, Untouched, Phases, TypeOK
    <3>3. Decided(phase) = tally[phase].total
      BY <2>7 DEF PassOver, NothingAhead, Ahead, Untouched, Decided
    <3>4. CompleteBehind'
      BY <2>7, <3>3 DEF PassOver, CompleteBehind, TypeOK, Decided, Phases
    <3> QED
      BY <3>1, <3>2, <3>4
  <2>8. CASE End
    <3>1. TypeOK' /\ NothingAhead' /\ CompleteBehind'
      BY <2>8 DEF End, TypeOK, NothingAhead, CompleteBehind, Ahead, Untouched, Decided, Phases
    <3>2. Accounts'
      <4>1. ASSUME exit' = 0, ~dry
            PROVE  \A p \in Phases : Decided(p) = tally[p].total /\ tally[p].failed = 0
        <5>1. ~stop /\ ~AnyFailed /\ phase = 9
          BY <2>8, <4>1 DEF End
        <5>2. \A p \in Phases : p < 9 /\ tally[p].failed \in Nat
          BY DEF Phases, TypeOK, Tally
        <5> QED
          BY <4>1, <5>1, <5>2 DEF CompleteBehind, AnyFailed
      <4> QED
        BY <2>8, <4>1 DEF End, Accounts, Decided
    <3> QED
      BY <3>1, <3>2
  <2>9. CASE Fail
    BY <2>9 DEF Fail, TypeOK, Accounts, NothingAhead, CompleteBehind, Ahead, Untouched, Decided
  <2>10. CASE Abort
    BY <2>10 DEF Abort, TypeOK, Accounts, NothingAhead, CompleteBehind, Ahead, Untouched, Decided
  <2>11. CASE UNCHANGED vars
    BY <2>11 DEF vars, TypeOK, Accounts, NothingAhead, CompleteBehind, Ahead, Untouched, Decided
  <2> QED
    BY <2>1, <2>2, <2>4, <2>5, <2>6, <2>7, <2>8, <2>9, <2>10, <2>11 DEF Next
<1>3. AccountsInv => Accounts
  BY DEF AccountsInv
<1> QED
  BY <1>1, <1>2, <1>3, PTL DEF Spec
=============================================================================
