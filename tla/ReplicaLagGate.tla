--------------------------- MODULE ReplicaLagGate ---------------------------
(***************************************************************************)
(* wait_for_replica_lag (operations.rs) and ReplicaLagGate (types.rs): the *)
(* tables of a run passing the replication-lag gate one after another,     *)
(* with a clock in seconds.  Standbys fall behind and catch up, vanish or  *)
(* become invisible at any time; a shutdown may arrive at any time.        *)
(***************************************************************************)
EXTENDS Integers

CONSTANTS
    Budgets,        \* values of --max-replica-lag-wait-seconds
    Poll,           \* poll_interval_seconds
    QueryTime,      \* a read of pg_stat_replication takes at most this long
    Tables,         \* tables that pass the gate
    PassesPerTable  \* calls of wait_for_replica_lag for one table, by runner

GateParameters ==
    /\ Budgets \subseteq Nat /\ Poll \in Nat \ {0} /\ QueryTime \in Nat
    /\ Tables \in Nat /\ PassesPerTable \subseteq Nat \ {0}

Observations == {"unobservable", "no_replicas", "within", "exceeds"}
Verdicts == {"none", "proceed", "skip", "shutdown", "error"}
Least(a, b) == IF a < b THEN a ELSE b

VARIABLES
    max_wait, passes, dry_run,         \* configuration
    pc,
    disabled, total_waited, tables_skipped,      \* the gate's atomics
    left, remainingPasses,             \* tables to come, calls to come for this one
    elapsed,                           \* Instant since the wait began
    shutdown,
    verdict,                           \* of the last call
    sleeping,                          \* planned end of the sleep
    tableWait, allWaits, skips,        \* history: waited for this table, in all, skip verdicts
    deaf                               \* history: seconds slept with the shutdown flag set

vars == << max_wait, passes, dry_run, pc, disabled, total_waited, tables_skipped, left,
           remainingPasses, elapsed, shutdown, verdict, sleeping, tableWait, allWaits, skips, deaf >>

(* The longest a table may be held by one call.                            *)
Longest == max_wait + QueryTime

TypeOK ==
    /\ max_wait \in Budgets /\ passes \in PassesPerTable /\ dry_run \in BOOLEAN
    /\ pc \in {"next", "call", "budget", "sleep", "observe", "late", "end"}
    /\ disabled \in BOOLEAN
    /\ total_waited \in Nat /\ tables_skipped \in 0..Tables
    /\ left \in 0..Tables /\ remainingPasses \in 0..passes
    /\ elapsed \in 0..Longest /\ sleeping \in 0..max_wait
    /\ pc = "sleep" => elapsed < sleeping
    /\ shutdown \in BOOLEAN /\ verdict \in Verdicts
    /\ tableWait \in Nat /\ allWaits \in Nat /\ skips \in 0..Tables /\ deaf \in Nat

Init ==
    /\ max_wait \in Budgets /\ passes \in PassesPerTable /\ dry_run \in BOOLEAN
    /\ pc = "next"
    /\ disabled = FALSE /\ total_waited = 0 /\ tables_skipped = 0
    /\ left = Tables /\ remainingPasses = 0
    /\ elapsed = 0 /\ shutdown = FALSE /\ verdict = "none" /\ sleeping = 0
    /\ tableWait = 0 /\ allWaits = 0 /\ skips = 0 /\ deaf = 0

gate == << disabled, total_waited, tables_skipped >>
config == << max_wait, passes, dry_run >>
clock == << elapsed, sleeping >>
history == << tableWait, allWaits, skips >>

-----------------------------------------------------------------------------
(* The runner around the gate.  What it does with a table that was let     *)
(* through is left to module TableWaits.                                   *)

Signal ==
    /\ ~shutdown /\ pc # "end"
    /\ shutdown' = TRUE
    /\ UNCHANGED << config, pc, gate, left, remainingPasses, clock, verdict, history, deaf >>

NextTable ==
    /\ pc = "next" /\ remainingPasses = 0
    /\ IF left = 0 \/ shutdown
         THEN pc' = "end" /\ UNCHANGED << left, remainingPasses, tableWait >>
         ELSE /\ pc' = "call" /\ left' = left - 1 /\ remainingPasses' = passes
              /\ tableWait' = 0
    /\ UNCHANGED << config, gate, clock, shutdown, verdict, allWaits, skips, deaf >>

(* The verdict is acted on: go on, continue with the next table, or break; *)
(* an error aborts the run.                                                *)
Return(v) ==
    /\ verdict' = v
    /\ pc' = CASE v \in {"shutdown", "error"} -> "end"
               [] v = "proceed" /\ remainingPasses > 1 -> "call"
               [] OTHER -> "next"
    /\ remainingPasses' = IF v = "proceed" THEN remainingPasses - 1 ELSE 0
    /\ skips' = IF v = "skip" THEN skips + 1 ELSE skips

(* The gate of a table was passed after a wait of w seconds.               *)
Waited(w) ==
    /\ tableWait' = tableWait + w
    /\ allWaits' = allWaits + w

-----------------------------------------------------------------------------
(* The call.                                                               *)

Disabled ==
    /\ pc = "call" /\ disabled
    /\ Return("proceed")
    /\ UNCHANGED << config, gate, left, clock, shutdown, tableWait, allWaits, deaf >>

(* The first read: only here can the gate turn itself off.                 *)
FirstLook ==
    /\ pc = "call" /\ ~disabled
    /\ elapsed' = 0
    /\ \E o \in Observations :
          /\ disabled' = (o \in {"unobservable", "no_replicas"})
          /\ IF o # "exceeds" \/ dry_run
               THEN Return("proceed") /\ UNCHANGED tables_skipped
             ELSE IF max_wait = 0
               THEN Return("skip") /\ tables_skipped' = tables_skipped + 1
             ELSE pc' = "budget" /\ UNCHANGED << verdict, remainingPasses, skips, tables_skipped >>
    /\ UNCHANGED << config, total_waited, left, shutdown, sleeping, tableWait, allWaits, deaf >>

(* Mutant: a whole poll interval whatever is left of the budget.           *)
SleepUntilPoll == elapsed + Poll

(* Never past the deadline.                                                *)
SleepUntil == elapsed + Least(Poll, max_wait - elapsed)

GiveUp ==
    /\ total_waited' = total_waited + elapsed
    /\ tables_skipped' = tables_skipped + 1
    /\ Waited(elapsed)
    /\ Return("skip")

(* Mutant: the clock of the wait is restarted at every turn.               *)
BudgetRestarted ==
    /\ pc = "budget" /\ ~shutdown
    /\ elapsed' = 0
    /\ sleeping' = Least(Poll, max_wait)
    /\ pc' = "sleep"
    /\ UNCHANGED << config, gate, left, remainingPasses, shutdown, verdict, history, deaf >>

(* The top of the wait loop.                                               *)
Budget ==
    /\ pc = "budget"
    /\ \/ elapsed >= max_wait /\ GiveUp /\ UNCHANGED sleeping
       \/ /\ elapsed < max_wait /\ ~shutdown
          /\ sleeping' = SleepUntil
          /\ pc' = "sleep"
          /\ UNCHANGED << total_waited, tables_skipped, verdict, remainingPasses, history >>
    /\ UNCHANGED << config, disabled, left, elapsed, shutdown, deaf >>

(* Mutant: the sleep does not listen to the shutdown flag.                 *)
StillAsleepDeaf == TRUE

(* select!: a signal ends the sleep, unless it is over at the same moment. *)
StillAsleep == ~shutdown \/ elapsed + 1 = sleeping

Tick ==
    /\ pc = "sleep" /\ StillAsleep
    /\ elapsed' = elapsed + 1
    /\ deaf' = IF shutdown THEN deaf + 1 ELSE deaf
    /\ pc' = IF elapsed' >= sleeping THEN "observe" ELSE "sleep"
    /\ UNCHANGED << config, gate, left, remainingPasses, sleeping, shutdown, verdict, history >>

(* Mutant: the interrupted wait is not added to the total.                 *)
InterruptedUncounted ==
    /\ shutdown
    /\ pc = "sleep" \/ (pc = "budget" /\ elapsed < max_wait)
    /\ Waited(elapsed)
    /\ Return("shutdown")
    /\ UNCHANGED << config, gate, left, clock, shutdown, deaf >>

Interrupted ==
    /\ shutdown
    /\ pc = "sleep" \/ (pc = "budget" /\ elapsed < max_wait)
    /\ total_waited' = total_waited + elapsed
    /\ Waited(elapsed)
    /\ Return("shutdown")
    /\ UNCHANGED << config, disabled, tables_skipped, left, clock, shutdown, deaf >>

(* The read after a sleep: anything but too much lag lets the table go.    *)
Observe ==
    /\ pc = "observe"
    /\ \E d \in 0..QueryTime : elapsed' = elapsed + d
    /\ \E o \in Observations :
          IF o = "exceeds"
            THEN pc' = "late" /\ UNCHANGED << total_waited, verdict, remainingPasses, history >>
            ELSE /\ total_waited' = total_waited + elapsed'
                 /\ Waited(elapsed')
                 /\ Return("proceed")
    /\ UNCHANGED << config, disabled, tables_skipped, left, sleeping, shutdown, deaf >>

(* The clock is read again at the top of the loop and may have moved on.   *)
StillLagging ==
    /\ pc = "late"
    /\ IF elapsed >= max_wait
         THEN GiveUp /\ UNCHANGED elapsed
         ELSE /\ pc' = "budget" /\ elapsed' \in {elapsed, elapsed + 1}
              /\ UNCHANGED << total_waited, tables_skipped, verdict, remainingPasses, history >>
    /\ UNCHANGED << config, disabled, left, sleeping, shutdown, deaf >>

(* The read itself fails: the error leaves the wait unrecorded.            *)
QueryFails ==
    /\ pc \in {"call", "observe"}
    /\ pc = "call" => ~disabled
    /\ Return("error")
    /\ IF pc = "observe" THEN Waited(elapsed) ELSE UNCHANGED << tableWait, allWaits >>
    /\ UNCHANGED << config, gate, left, clock, shutdown, deaf >>

-----------------------------------------------------------------------------
Step ==
    \/ NextTable \/ Disabled \/ FirstLook \/ Budget \/ Tick \/ Interrupted \/ Observe
    \/ StillLagging \/ QueryFails

-----------------------------------------------------------------------------
(* Properties.                                                             *)

(* "Waiting up to Ns": no call holds its table longer than the budget plus *)
(* the last read, and a table is given up only once the budget is used up. *)
(* The budget is one of each call: a table of --also-tables, which makes   *)
(* two, may be held for twice as long.                                     *)
WithinBudget ==
    /\ elapsed <= Longest
    /\ tableWait <= passes * Longest
    /\ verdict = "skip" /\ pc \in {"next", "end"} => elapsed >= max_wait

(* The totals in the final summary are what the tables really waited and   *)
(* how many were skipped, whichever way each wait ended; a run aborted by  *)
(* a failed read prints no summary.                                        *)
TotalsHonest ==
    verdict # "error" => total_waited = allWaits /\ tables_skipped = skips

(* A signal ends the wait instead of being noticed after it: at most the   *)
(* second in which it arrived is slept to its end.                         *)
SignalHeard == deaf <= 1
=============================================================================
