------------------------------ MODULE LockRetry ------------------------------
(***************************************************************************)
(* with_lock_timeout_retry (operations.rs) with its clock: one table       *)
(* operation, run again after a growing delay while lock_timeout strikes   *)
(* and no shutdown was seen.  Time is counted in abstract units: TLC's     *)
(* integers are too small for the milliseconds of the code.                *)
(***************************************************************************)
EXTENDS Integers

CONSTANTS
    Retries,      \* values of --lock-timeout-retries
    Delays,       \* values of --lock-timeout-retry-delay-ms, in units
    MaxRetries,   \* MAX_LOCK_TIMEOUT_RETRIES
    MaxDelay,     \* MAX_LOCK_TIMEOUT_RETRY_DELAY_MS, in units
    DelayCap      \* where the u64 delay saturates, in units

RetryParameters ==
    /\ MaxRetries \in Nat /\ Retries \subseteq 0..MaxRetries
    /\ MaxDelay \in Nat \ {0} /\ Delays \subseteq 1..MaxDelay
    /\ DelayCap \in Nat /\ MaxDelay * 2^MaxRetries <= DelayCap

Results == {"none", "ok", "lock_timeout", "other"}

VARIABLES
    retries, first,       \* policy
    pc, attempt, delay_ms, result,
    shutdown,
    runs, waited          \* history: executions of the operation, time slept

vars == << retries, first, pc, attempt, delay_ms, result, shutdown, runs, waited >>

TypeOK ==
    /\ retries \in Retries /\ first \in Delays
    /\ pc \in {"op", "failed", "sleep", "return"}
    /\ attempt \in 0..retries
    /\ delay_ms \in first..DelayCap
    /\ result \in Results
    /\ shutdown \in BOOLEAN
    /\ runs \in 0..retries + 1
    /\ waited \in Nat

-----------------------------------------------------------------------------
(* Between two calls.                                                      *)
Init ==
    /\ retries \in Retries /\ first \in Delays
    /\ pc = "return" /\ attempt = 0 /\ delay_ms = first /\ result = "none"
    /\ runs = 0 /\ waited = 0

(* The locals of a new call, and those forgotten with the one that returned. *)
Locals(point) ==
    /\ pc' = point /\ attempt' = 0 /\ delay_ms' = first /\ result' = "none"
    /\ runs' = 0 /\ waited' = 0

Run ==
    /\ pc = "op"
    /\ runs' = runs + 1
    /\ result' \in {"ok", "lock_timeout", "other"}
    /\ pc' = IF result' = "ok" THEN "return" ELSE "failed"
    /\ UNCHANGED << retries, first, attempt, delay_ms, shutdown, waited >>

(* Mutant: the shutdown is not looked at.                                  *)
FinalDeaf == result # "lock_timeout" \/ attempt >= retries

Final == result # "lock_timeout" \/ attempt >= retries \/ shutdown

GiveUp ==
    /\ pc = "failed" /\ Final
    /\ pc' = "return"
    /\ UNCHANGED << retries, first, attempt, delay_ms, result, shutdown, runs, waited >>

Retry ==
    /\ pc = "failed" /\ ~Final
    /\ attempt' = attempt + 1
    /\ pc' = "sleep"
    /\ UNCHANGED << retries, first, delay_ms, result, shutdown, runs, waited >>

(* Mutant: the doubled delay grows from the first one only.                *)
DoubledOnce == IF 2 * first > DelayCap THEN DelayCap ELSE 2 * first

(* saturating_mul(2).                                                      *)
Doubled == IF 2 * delay_ms > DelayCap THEN DelayCap ELSE 2 * delay_ms

SleepOver ==
    /\ pc = "sleep"
    /\ waited' = waited + delay_ms
    /\ delay_ms' = Doubled
    /\ pc' = "op"
    /\ UNCHANGED << retries, first, attempt, result, shutdown, runs >>

(* The signal ends the sleep early; some of the delay has passed.          *)
SleepInterrupted ==
    /\ pc = "sleep" /\ shutdown
    /\ pc' = "return"
    /\ UNCHANGED << retries, first, attempt, delay_ms, result, shutdown, runs, waited >>

Step == Run \/ GiveUp \/ Retry \/ SleepOver \/ SleepInterrupted

-----------------------------------------------------------------------------
(* Properties.                                                             *)

(* The operation runs once more than it was retried and the delays double: *)
(* a table is waited for first * (2^k - 1) before its (k+1)st execution.   *)
DelaysDouble ==
    /\ pc = "op" => runs = attempt
    /\ pc \in {"op", "failed"} => waited = first * (2^attempt - 1)
=============================================================================
