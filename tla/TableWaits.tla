----------------------------- MODULE TableWaits -----------------------------
(***************************************************************************)
(* The two waits of a table together: it passes the replica-lag gate       *)
(* (module ReplicaLagGate), and what the gate lets through is run under    *)
(* lock_timeout retries (module LockRetry), table after table, with one    *)
(* shutdown flag that both waits listen to.                                *)
(***************************************************************************)
EXTENDS Integers

CONSTANTS
    Budgets, Poll, QueryTime, Tables, PassesPerTable,     \* of the gate
    Retries, Delays, MaxRetries, MaxDelay, DelayCap       \* of the retries

VARIABLES
    shutdown,
    (* The runner and its gate.                                              *)
    max_wait, passes, dry_run, pc, disabled, total_waited, tables_skipped, left,
    remainingPasses, elapsed, verdict, sleeping, tableWait, allWaits, skips, deaf,
    (* with_lock_timeout_retry and its locals.                               *)
    retries, first, op, attempt, delay_ms, result, runs, waited,
    (* History: executions of the operation begun after the flag was set.    *)
    late

G == INSTANCE ReplicaLagGate
L == INSTANCE LockRetry WITH pc <- op

ASSUME ParametersAssumption == G!GateParameters /\ L!RetryParameters

gate == << max_wait, passes, dry_run, pc, disabled, total_waited, tables_skipped, left,
           remainingPasses, elapsed, verdict, sleeping, tableWait, allWaits, skips, deaf >>
call == << op, attempt, delay_ms, result, runs, waited >>
vars == << gate, call, retries, first, shutdown, late >>

Init ==
    /\ G!Init
    /\ L!Init
    /\ late = 0

-----------------------------------------------------------------------------
(* The gate's last verdict on a table lets its operation begin; a dry run  *)
(* has none.                                                               *)
LetThrough == pc # "next" /\ pc' = "next" /\ verdict' = "proceed" /\ ~dry_run

GateStep ==
    /\ op = "return"
    /\ G!Step
    /\ CASE LetThrough -> L!Locals("op")
         [] pc = "next" -> L!Locals("return")
         [] OTHER -> UNCHANGED call
    /\ UNCHANGED << retries, first, late >>

(* Whatever the operation returns, the loop goes on to its next turn; a    *)
(* lost session, which ends it, is left to module MaintenanceRun.          *)
OperationStep ==
    /\ L!Step
    /\ late' = IF L!Run /\ shutdown THEN late + 1 ELSE late
    /\ UNCHANGED gate

Signal == G!Signal /\ UNCHANGED << retries, first, call, late >>

Ended == pc = "end" /\ UNCHANGED vars

Next == GateStep \/ OperationStep \/ Signal \/ Ended

Spec == Init /\ [][Next]_vars

(* Sleeps, queries and statements end.                                     *)
FairSpec == Spec /\ WF_vars(GateStep \/ OperationStep)

-----------------------------------------------------------------------------
(* Properties.                                                             *)

(* A table is in the gate or in its operation, never in both.              *)
TypeOK ==
    /\ G!TypeOK /\ L!TypeOK
    /\ op # "return" => pc = "next" /\ verdict = "proceed" /\ remainingPasses = 0
    /\ late \in Nat

(* No call of the gate holds a table longer than the budget and one read.  *)
WithinBudget == G!WithinBudget

(* The summary's totals of lag waits and lag skips are the true ones.      *)
TotalsHonest == G!TotalsHonest

(* A signal ends the lag wait within the second.                           *)
SignalHeard == G!SignalHeard

(* The delays of a table double from --lock-timeout-retry-delay-ms.        *)
DelaysDouble == L!DelaysDouble

(* "Stops before the next table", with the clocks: once the flag is set    *)
(* the gate and the retries between them start the operation at most once. *)
OneLateStart == late <= 1

(* The run gets past every table, whatever standbys and locks do.          *)
EveryTableDecided == <>(pc = "end")
=============================================================================
