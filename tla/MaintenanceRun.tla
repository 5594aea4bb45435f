--------------------------- MODULE MaintenanceRun ---------------------------
(***************************************************************************)
(* One execution of pg-maintainer once its session is set up: the eight    *)
(* phases of run() in main.rs, the per-table loop shared by the eight      *)
(* run_* functions of operations.rs, lock_timeout retries, error           *)
(* classification, the logbook and the exit code.                          *)
(*                                                                         *)
(* Interleaved with it: the signal handlers (two stores, seen by other     *)
(* threads one at a time), the death of the session at any moment, and the *)
(* moment the client notices (Client::is_closed).                          *)
(*                                                                         *)
(* Abstracted: candidate lists are sets, and which tables a discovery      *)
(* query returns is a free choice, because other sessions and autovacuum   *)
(* change the statistics it reads at any time (its size filter and limit   *)
(* are part of that choice); durations; log text.  A statement is one      *)
(* step, with every outcome the code tells apart.                          *)
(***************************************************************************)
EXTENDS Integers, FiniteSets

CONSTANTS
    Tables,       \* the tables of the maintained schemas
    NoTable,      \* the value of cur between tables
    Setups,       \* the flags and the value of --mode a run may be started with
    Retries       \* --lock-timeout-retries

Phases == 1..8
Final == 9                                 \* past the last phase
Registers == {"handled", "vacuumed", "analyzed"}

(* RunPolicy, VacuumOptions.skip_locked and whether lag gating is on;      *)
(* --force together with --skip-active-vacuum is rejected before           *)
(* connecting (module Configuration).                                      *)
Policy == {p \in [dry_run : BOOLEAN, force : BOOLEAN, skip_active_vacuum : BOOLEAN,
                  skip_locked : BOOLEAN, lag_gate : BOOLEAN] :
             ~(p.force /\ p.skip_active_vacuum)}

ASSUME RetriesAssumption == Retries \in Nat
ASSUME SetupsAssumption == Setups \subseteq [policy : Policy, modes : SUBSET (1..7)]
ASSUME TablesAssumption == IsFiniteSet(Tables) /\ NoTable \notin Tables

-----------------------------------------------------------------------------
(* What tells the eight runners apart.  work: the statement; polls: the    *)
(* dead-tuple count is read before and after it; consults: the register of *)
(* earlier matches that makes the runner skip a table; gates: how often    *)
(* the replica-lag gate is passed for one table.                           *)

run_vacuum_never_vacuumed ==
    [work |-> "vacuum", polls |-> TRUE, consults |-> "none", gates |-> 1]
run_analyze_never_analyzed ==
    [work |-> "analyze", polls |-> FALSE, consults |-> "none", gates |-> 1]
run_freeze_wraparound ==
    [work |-> "vacuum", polls |-> FALSE, consults |-> "none", gates |-> 1]
run_bloat_vacuum ==
    [work |-> "vacuum", polls |-> TRUE, consults |-> "handled", gates |-> 1]
run_needs_vacuum ==
    [work |-> "vacuum", polls |-> TRUE, consults |-> "vacuumed", gates |-> 1]
run_vacuum_overdue ==
    [work |-> "vacuum", polls |-> TRUE, consults |-> "vacuumed", gates |-> 1]
run_analyze_overdue ==
    [work |-> "analyze", polls |-> FALSE, consults |-> "analyzed", gates |-> 1]
run_also_tables ==
    [work |-> "vacuum_analyze", polls |-> TRUE, consults |-> "handled", gates |-> 2]

Runner == << run_vacuum_never_vacuumed, run_analyze_never_analyzed,
             run_freeze_wraparound, run_bloat_vacuum, run_needs_vacuum,
             run_vacuum_overdue, run_analyze_overdue, run_also_tables >>

(* What tells the eight phase blocks of run() apart: the registers the     *)
(* phase's candidates are inserted into, and whether that happens before   *)
(* its runner is called or after it returned.                              *)

Phase1 == [marks |-> {"handled", "vacuumed"}, early |-> TRUE]
Phase2 == [marks |-> {"handled", "analyzed"}, early |-> TRUE]
Phase3 == [marks |-> {"handled", "vacuumed"}, early |-> TRUE]
(* Mutant: phase 4 forgets to record its candidates as vacuumed.           *)
Phase4ForgetsVacuumed == [marks |-> {"handled"}, early |-> FALSE]

Phase4 == [marks |-> {"handled", "vacuumed"}, early |-> FALSE]
Phase5 == [marks |-> {"handled", "vacuumed"}, early |-> FALSE]
Phase6 == [marks |-> {"handled"}, early |-> FALSE]
Phase7 == [marks |-> {"handled"}, early |-> FALSE]
Phase8 == [marks |-> {}, early |-> FALSE]

Block == << Phase1, Phase2, Phase3, Phase4, Phase5, Phase6, Phase7, Phase8 >>

VacuumPhases == {1, 3, 4, 5, 6, 8}

-----------------------------------------------------------------------------
VARIABLES
    (* Fixed at start: RunPolicy, --mode, the resolved --also-tables.        *)
    policy, enabled, also,
    (* Control of run() and of the current runner.                           *)
    pc, phase, cands, todo, cur, gates, active, attempt, err,
    already,      \* the three HashSets of matched tables
    summary,      \* one OperationSummary per phase
    exit,         \* process exit code, -1 while running
    (* Shared with the signal handlers.                                      *)
    requested, shutdown,
    gateOff,      \* ReplicaLagGate.disabled
    conn,         \* the session: open, lost (server side), closed (client knows)
    logbook,      \* rows of maintainer_logbook.maintenance_logbook
    (* History: statements that completed, backends terminated, statements   *)
    (* started after the shutdown flag.                                      *)
    effects, killed, lateStarts

fixed == << policy, enabled, also >>
signals == << requested, shutdown >>
history == << effects, killed, lateStarts >>
vars == << policy, enabled, also, pc, phase, cands, todo, cur, gates, active,
           attempt, err, already, summary, exit, requested, shutdown, gateOff,
           conn, logbook, effects, killed, lateStarts >>

Summary == [total : Nat, succeeded : Nat, failed : Nat, skipped : Nat]
Statuses == {"success", "error", "cancelled"}
Errors == {"none", "lock_timeout", "cancelled", "lost", "other"}
InTable == {"lag", "lagwait", "active", "kill", "manual", "before", "maint",
            "after", "op_ok", "op_err", "backoff", "classify"}
Control == InTable \cup {"phase", "discover", "discover_max", "loop", "fail", "exit"}

TypeOK ==
    /\ policy \in Policy
    /\ enabled \in SUBSET Phases
    /\ also \in SUBSET Tables
    /\ pc \in Control
    /\ phase \in 1..Final
    /\ pc \in InTable \cup {"discover", "discover_max", "loop"} => phase \in Phases
    /\ pc \in InTable => cur \in todo
    /\ cands \in SUBSET Tables
    /\ todo \in SUBSET cands
    /\ pc \in {"discover", "discover_max"} => todo = {}
    /\ cur \in Tables \cup {NoTable}
    /\ gates \in 0..2
    /\ pc = "lagwait" => gates > 0
    /\ active \in SUBSET {"auto", "manual"}
    /\ attempt \in 0..Retries
    /\ err \in Errors
    /\ already \in [Registers -> SUBSET Tables]
    /\ summary \in [Phases -> Summary]
    /\ exit \in {-1, 0, 1, 3, 130}
    /\ requested \in BOOLEAN
    /\ shutdown \in BOOLEAN
    /\ gateOff \in BOOLEAN
    /\ conn \in {"open", "lost", "closed"}
    /\ logbook \in SUBSET (Phases \X Tables \X Statuses)
    /\ effects \in SUBSET (Phases \X Tables)
    /\ killed \in SUBSET (Tables \X {"auto", "manual"})
    /\ lateStarts \in Nat

-----------------------------------------------------------------------------
(* run() up to the first phase is in the state described here: the session *)
(* is open and locked, and nothing has been matched.                       *)

Init ==
    /\ \E s \in Setups : policy = s.policy /\ enabled = s.modes
    /\ also \in SUBSET Tables
    /\ pc = "phase" /\ phase = 1
    /\ cands = {} /\ todo = {} /\ cur = NoTable
    /\ gates = 0 /\ active = {} /\ attempt = 0 /\ err = "none"
    /\ already = [r \in Registers |-> {}]
    /\ summary = [p \in Phases |-> [total |-> 0, succeeded |-> 0, failed |-> 0, skipped |-> 0]]
    /\ exit = -1
    /\ requested = FALSE /\ shutdown = FALSE
    /\ gateOff = FALSE
    /\ conn = "open"
    /\ logbook = {}
    /\ effects = {} /\ killed = {} /\ lateStarts = 0

-----------------------------------------------------------------------------
(* Environment.                                                            *)

(* The statement of phase p completes on table t.                          *)
Complete(p, t) == effects' = effects \cup {<<p, t>>}

(* A handler stores SHUTDOWN_REQUESTED first and the watch flag second.    *)
SignalMark ==
    /\ exit = -1 /\ ~requested
    /\ requested' = TRUE
    /\ UNCHANGED << fixed, pc, phase, cands, todo, cur, gates, active, attempt, err,
                    already, summary, exit, shutdown, gateOff, conn, logbook, history >>

SignalSend ==
    /\ exit = -1 /\ requested /\ ~shutdown
    /\ shutdown' = TRUE
    /\ UNCHANGED << fixed, pc, phase, cands, todo, cur, gates, active, attempt, err,
                    already, summary, exit, requested, gateOff, conn, logbook, history >>

(* The backend is terminated, the server restarts or the network drops; a  *)
(* statement in flight may have completed on the server all the same.      *)
LoseConnection ==
    /\ exit = -1 /\ conn = "open"
    /\ conn' = "lost"
    /\ \/ pc = "maint" /\ Complete(phase, cur)
       \/ UNCHANGED effects
    /\ UNCHANGED << fixed, pc, phase, cands, todo, cur, gates, active, attempt, err,
                    already, summary, exit, signals, gateOff, logbook, killed,
                    lateStarts >>

(* The connection task ends: Client::is_closed() turns true.               *)
NoticeClosed ==
    /\ exit = -1 /\ conn = "lost"
    /\ conn' = "closed"
    /\ UNCHANGED << fixed, pc, phase, cands, todo, cur, gates, active, attempt, err,
                    already, summary, exit, signals, gateOff, logbook, history >>

-----------------------------------------------------------------------------
(* Phases of run().                                                        *)

Selected(p) == IF p = 8 THEN also # {} ELSE p \in enabled

Mark(r, S) ==
    already' = [s \in Registers |-> IF s \in r THEN already[s] \cup S ELSE already[s]]

(* The kind of error a failing query with a typed error chain carries.     *)
QueryError == IF conn = "open" THEN "other" ELSE "lost"

Fail(e) == pc' = "fail" /\ err' = e

SkipPhase ==
    /\ pc = "phase" /\ phase \in Phases
    /\ ~Selected(phase) \/ shutdown
    /\ phase' = phase + 1
    /\ UNCHANGED << fixed, pc, cands, todo, cur, gates, active, attempt, err, already,
                    summary, exit, signals, gateOff, conn, logbook, history >>

EnterPhase ==
    /\ pc = "phase" /\ phase \in Phases
    /\ Selected(phase) /\ ~shutdown
    /\ pc' = IF phase = 8 THEN "loop" ELSE "discover"
    /\ cands' = IF phase = 8 THEN also ELSE {}
    /\ todo' = cands'
    /\ summary' = [summary EXCEPT ![phase].total = Cardinality(cands')]
    /\ UNCHANGED << fixed, phase, cur, gates, active, attempt, err, already, exit,
                    signals, gateOff, conn, logbook, history >>

(* The candidates S of this phase are known; early phases mark them now.   *)
StartRunner(S) ==
    /\ cands' = S /\ todo' = S
    /\ pc' = "loop"
    /\ summary' = [summary EXCEPT ![phase].total = Cardinality(S)]
    /\ Mark(IF Block[phase].early THEN Block[phase].marks ELSE {}, S)

Discover ==
    /\ pc = "discover"
    /\ conn = "open"
    /\ \E S \in SUBSET Tables :
          IF phase = 5
            THEN /\ cands' = S /\ pc' = "discover_max"
                 /\ UNCHANGED << todo, summary, already >>
            ELSE StartRunner(S)
    /\ UNCHANGED << fixed, phase, cur, gates, active, attempt, err, exit, signals,
                    gateOff, conn, logbook, history >>

DiscoverFails ==
    /\ pc = "discover"
    /\ Fail(QueryError)
    /\ UNCHANGED << fixed, phase, cands, todo, cur, gates, active, attempt, already,
                    summary, exit, signals, gateOff, conn, logbook, history >>

(* The second needs-vacuum pass and the merge (module NeedsVacuum).  Only  *)
(* an answer of the server adds rows; a failure of this pass, a lost       *)
(* connection included, costs no more than those.  --limit may cut classic *)
(* rows, with --table even if no row was added, but never all of them.     *)
DiscoverMaxThreshold ==
    /\ pc = "discover_max"
    /\ \E S \in SUBSET (IF conn = "open" THEN Tables ELSE cands) :
          /\ cands # {} => S # {}
          /\ StartRunner(S)
    /\ UNCHANGED << fixed, phase, cur, gates, active, attempt, err, exit, signals,
                    gateOff, conn, logbook, history >>

-----------------------------------------------------------------------------
(* The loop of the current runner.                                         *)

(* The runner returns Ok(summary): late phases mark their candidates, even *)
(* the ones a shutdown kept the runner from reaching.                      *)
EndRunner ==
    /\ pc' = "phase" /\ phase' = phase + 1
    /\ cands' = {} /\ todo' = {} /\ cur' = NoTable
    /\ Mark(IF Block[phase].early THEN {} ELSE Block[phase].marks, cands)

(* continue: on to the next table of the list.                             *)
NextTable ==
    /\ pc' = "loop"
    /\ todo' = todo \ {cur} /\ cur' = NoTable

(* Mutant: a table is left out without being counted.                      *)
SkippedUncounted == UNCHANGED summary

Skipped == summary' = [summary EXCEPT ![phase].skipped = @ + 1]

ListDone ==
    /\ pc = "loop" /\ todo = {}
    /\ EndRunner
    /\ UNCHANGED << fixed, gates, active, attempt, err, summary, exit, signals,
                    gateOff, conn, logbook, history >>

LoopFindsClosed ==
    /\ pc = "loop" /\ todo # {} /\ conn = "closed"
    /\ Fail("lost")
    /\ UNCHANGED << fixed, phase, cands, todo, cur, gates, active, attempt, already,
                    summary, exit, signals, gateOff, conn, logbook, history >>

LoopFindsShutdown ==
    /\ pc = "loop" /\ todo # {} /\ conn # "closed" /\ shutdown
    /\ EndRunner
    /\ UNCHANGED << fixed, gates, active, attempt, err, summary, exit, signals,
                    gateOff, conn, logbook, history >>

AlreadyDone(p, t) == Runner[p].consults # "none" /\ t \in already[Runner[p].consults]

PassOver(t) ==
    /\ pc = "loop" /\ t \in todo /\ conn # "closed" /\ ~shutdown
    /\ AlreadyDone(phase, t)
    /\ todo' = todo \ {t}
    /\ Skipped
    /\ UNCHANGED << fixed, pc, phase, cands, cur, gates, active, attempt, err, already,
                    exit, signals, gateOff, conn, logbook, effects, killed, lateStarts >>

TakeTable(t) ==
    /\ pc = "loop" /\ t \in todo /\ conn # "closed" /\ ~shutdown
    /\ ~AlreadyDone(phase, t)
    /\ cur' = t
    /\ gates' = IF policy.lag_gate THEN Runner[phase].gates ELSE 0
    /\ pc' = "lag"
    /\ UNCHANGED << fixed, phase, cands, todo, active, attempt, err, already, summary,
                    exit, signals, gateOff, conn, logbook, history >>

-----------------------------------------------------------------------------
(* The replica-lag gate, seen from a runner (module ReplicaLagGate has its *)
(* clock).  Each passage is one call of wait_for_replica_lag.              *)

PassGate == gates' = gates - 1 /\ pc' = "lag"

GateNotNeeded ==
    /\ pc = "lag" /\ gates = 0
    /\ pc' = "active"
    /\ UNCHANGED << fixed, phase, cands, todo, cur, gates, active, attempt, err, already,
                    summary, exit, signals, gateOff, conn, logbook, history >>

(* Disabled, within the threshold, or over it in a dry run.                *)
GateProceed ==
    /\ pc = "lag" /\ gates > 0
    /\ gateOff \/ conn = "open"
    /\ PassGate
    /\ UNCHANGED << fixed, phase, cands, todo, cur, active, attempt, err, already,
                    summary, exit, signals, gateOff, conn, logbook, history >>

(* No replicas, or no privilege to see them: off for the rest of the run.  *)
GateDisable ==
    /\ pc = "lag" /\ gates > 0 /\ ~gateOff /\ conn = "open"
    /\ gateOff' = TRUE
    /\ PassGate
    /\ UNCHANGED << fixed, phase, cands, todo, cur, active, attempt, err, already,
                    summary, exit, signals, conn, logbook, history >>

GateHold ==
    /\ pc = "lag" /\ gates > 0 /\ ~gateOff /\ conn = "open" /\ ~policy.dry_run
    /\ pc' = "lagwait"
    /\ UNCHANGED << fixed, phase, cands, todo, cur, gates, active, attempt, err, already,
                    summary, exit, signals, gateOff, conn, logbook, history >>

GateRecovered ==
    /\ pc = "lagwait" /\ conn = "open"
    /\ PassGate
    /\ UNCHANGED << fixed, phase, cands, todo, cur, active, attempt, err, already,
                    summary, exit, signals, gateOff, conn, logbook, history >>

(* The budget ran out, which is decided without a query when it is 0.      *)
GateExpired ==
    /\ pc = "lagwait"
    /\ Skipped /\ NextTable
    /\ UNCHANGED << fixed, phase, cands, gates, active, attempt, err, already, exit,
                    signals, gateOff, conn, logbook, history >>

GateSeesShutdown ==
    /\ pc = "lagwait" /\ shutdown
    /\ EndRunner
    /\ UNCHANGED << fixed, gates, active, attempt, err, summary, exit, signals,
                    gateOff, conn, logbook, history >>

GateQueryFails ==
    /\ pc \in {"lag", "lagwait"} /\ gates > 0 /\ ~gateOff
    /\ Fail(QueryError)
    /\ UNCHANGED << fixed, phase, cands, todo, cur, gates, active, attempt, already,
                    summary, exit, signals, gateOff, conn, logbook, history >>

-----------------------------------------------------------------------------
(* handle_active_vacuums.                                                  *)

Late == IF shutdown THEN 1 ELSE 0

(* One attempt of the operation begins, with the dead-tuple count or with  *)
(* the maintenance statement itself.                                       *)
StartAttempt ==
    IF Runner[phase].polls
      THEN pc' = "before" /\ UNCHANGED lateStarts
      ELSE pc' = "maint" /\ lateStarts' = lateStarts + Late

(* Ok(true), then the runner's dry-run branch or its first attempt.        *)
Proceed ==
    IF policy.dry_run
      THEN NextTable /\ UNCHANGED << attempt, lateStarts >>
      ELSE StartAttempt /\ attempt' = 0 /\ UNCHANGED << todo, cur >>

(* find_active_vacuums drops the error's type, so that a session lost here *)
(* is reported as an ordinary failure.                                     *)
FindActiveFails ==
    /\ pc = "active"
    /\ Fail("other")
    /\ UNCHANGED << fixed, phase, cands, todo, cur, gates, active, attempt, already,
                    summary, exit, signals, gateOff, conn, logbook, history >>

NoActiveVacuum ==
    /\ pc = "active" /\ conn = "open"
    /\ Proceed
    /\ UNCHANGED << fixed, phase, cands, gates, active, err, already, summary, exit,
                    signals, gateOff, conn, logbook, effects, killed >>

FindActive ==
    /\ pc = "active" /\ conn = "open"
    /\ \E A \in SUBSET {"auto", "manual"} \ {{}} :
          IF policy.skip_active_vacuum
            THEN Skipped /\ NextTable /\ UNCHANGED active
            ELSE active' = A /\ pc' = "kill" /\ UNCHANGED << summary, todo, cur >>
    /\ UNCHANGED << fixed, phase, cands, gates, attempt, err, already, exit, signals,
                    gateOff, conn, logbook, history >>

(* Autovacuum workers go first and need no --force.                        *)
(* Mutant: the dry-run test is dropped.                                    *)
TerminateAutovacuumAlways ==
    /\ pc = "kill"
    /\ IF "auto" \in active
         THEN conn = "open" /\ killed' = killed \cup {<<cur, "auto">>}
         ELSE UNCHANGED killed
    /\ pc' = "manual"
    /\ UNCHANGED << fixed, phase, cands, todo, cur, gates, active, attempt, err, already,
                    summary, exit, signals, gateOff, conn, logbook, effects,
                    lateStarts >>

TerminateAutovacuum ==
    /\ pc = "kill"
    /\ IF "auto" \in active /\ ~policy.dry_run
         THEN conn = "open" /\ killed' = killed \cup {<<cur, "auto">>}
         ELSE UNCHANGED killed
    /\ pc' = "manual"
    /\ UNCHANGED << fixed, phase, cands, todo, cur, gates, active, attempt, err, already,
                    summary, exit, signals, gateOff, conn, logbook, effects,
                    lateStarts >>

(* Mutant: --force is taken to be implied unless --skip-active-vacuum.     *)
MayTerminateAnyManual == ~policy.skip_active_vacuum

MayTerminateManual == policy.force

GateManual ==
    /\ pc = "manual"
    /\ IF "manual" \in active /\ ~MayTerminateManual
         THEN /\ Skipped /\ NextTable
              /\ UNCHANGED << killed, attempt, lateStarts >>
         ELSE /\ IF "manual" \in active /\ ~policy.dry_run
                   THEN conn = "open" /\ killed' = killed \cup {<<cur, "manual">>}
                   ELSE UNCHANGED killed
              /\ Proceed
              /\ UNCHANGED summary
    /\ active' = {}
    /\ UNCHANGED << fixed, phase, cands, gates, err, already, exit, signals, gateOff,
                    conn, logbook, effects >>

TerminateFails ==
    /\ ~policy.dry_run
    /\ \/ pc = "kill" /\ "auto" \in active
       \/ pc = "manual" /\ "manual" \in active /\ policy.force
    /\ Fail(QueryError)
    /\ UNCHANGED << fixed, phase, cands, todo, cur, gates, active, attempt, already,
                    summary, exit, signals, gateOff, conn, logbook, history >>

-----------------------------------------------------------------------------
(* vacuum_table, analyze_table, freeze_table, vacuum_analyze_table.        *)

(* The errors a statement can return now: a dead session always reports    *)
(* itself; a live one may be cancelled (statement_timeout, or              *)
(* pg_cancel_backend) or fail; only the maintenance statement waits for a  *)
(* table lock.                                                             *)
StatementErrors ==
    IF conn # "open" THEN {"lost"}
    ELSE {"cancelled", "other"} \cup (IF pc = "maint" THEN {"lock_timeout"} ELSE {})

CountBefore ==
    /\ pc = "before" /\ conn = "open"
    /\ pc' = "maint" /\ lateStarts' = lateStarts + Late
    /\ UNCHANGED << fixed, phase, cands, todo, cur, gates, active, attempt, err, already,
                    summary, exit, signals, gateOff, conn, logbook, effects,
                    killed >>

(* With SKIP_LOCKED the server reports success for a VACUUM it left out.   *)
Maintain ==
    /\ pc = "maint" /\ conn = "open"
    /\ \/ Complete(phase, cur)
       \/ policy.skip_locked /\ Runner[phase].work # "analyze" /\ UNCHANGED effects
    /\ pc' = IF Runner[phase].polls THEN "after" ELSE "op_ok"
    /\ UNCHANGED << fixed, phase, cands, todo, cur, gates, active, attempt, err, already,
                    summary, exit, signals, gateOff, conn, logbook, killed, lateStarts >>

CountAfter ==
    /\ pc = "after" /\ conn = "open"
    /\ pc' = "op_ok"
    /\ UNCHANGED << fixed, phase, cands, todo, cur, gates, active, attempt, err, already,
                    summary, exit, signals, gateOff, conn, logbook, history >>

StatementFails ==
    /\ pc \in {"before", "maint", "after"}
    /\ err' \in StatementErrors
    /\ pc' = "op_err"
    /\ UNCHANGED << fixed, phase, cands, todo, cur, gates, active, attempt, already,
                    summary, exit, signals, gateOff, conn, logbook, history >>

-----------------------------------------------------------------------------
(* with_lock_timeout_retry.                                                *)

(* Mutants: one retry too many; the shutdown test is dropped.              *)
MayRetryOnceMore == err = "lock_timeout" /\ attempt <= Retries /\ ~shutdown
MayRetryInShutdown == err = "lock_timeout" /\ attempt < Retries

MayRetry == err = "lock_timeout" /\ attempt < Retries /\ ~shutdown

(* Mutant: the attempts are not counted.                                   *)
BackoffUncounted ==
    /\ pc = "op_err" /\ MayRetry
    /\ pc' = "backoff"
    /\ UNCHANGED << fixed, phase, cands, todo, cur, gates, active, attempt, err, already, summary,
                    exit, signals, gateOff, conn, logbook, history >>

Backoff ==
    /\ pc = "op_err" /\ MayRetry
    /\ attempt' = attempt + 1
    /\ pc' = "backoff"
    /\ UNCHANGED << fixed, phase, cands, todo, cur, gates, active, err, already, summary,
                    exit, signals, gateOff, conn, logbook, history >>

(* Mutant: the last error is swallowed.                                    *)
GiveUpAsSuccess ==
    /\ pc = "op_err" /\ ~MayRetry
    /\ pc' = "op_ok"
    /\ UNCHANGED << fixed, phase, cands, todo, cur, gates, active, attempt, err, already,
                    summary, exit, signals, gateOff, conn, logbook, history >>

GiveUp ==
    /\ pc = "op_err" /\ ~MayRetry
    /\ pc' = "classify"
    /\ UNCHANGED << fixed, phase, cands, todo, cur, gates, active, attempt, err, already,
                    summary, exit, signals, gateOff, conn, logbook, history >>

(* select! takes either branch when the sleep and the signal are both ready. *)
BackoffElapsed ==
    /\ pc = "backoff"
    /\ StartAttempt
    /\ err' = "none"
    /\ UNCHANGED << fixed, phase, cands, todo, cur, gates, active, attempt, already,
                    summary, exit, signals, gateOff, conn, logbook, effects,
                    killed >>

BackoffInterrupted ==
    /\ pc = "backoff" /\ shutdown
    /\ pc' = "classify"
    /\ UNCHANGED << fixed, phase, cands, todo, cur, gates, active, attempt, err, already,
                    summary, exit, signals, gateOff, conn, logbook, history >>

-----------------------------------------------------------------------------
(* The runner's match on the result.  A logbook row is best effort: any    *)
(* failure of the INSERT is ignored.                                       *)

LogRow(status) ==
    \/ conn = "open" /\ logbook' = logbook \cup {<<phase, cur, status>>}
    \/ UNCHANGED logbook

TableSucceeded ==
    /\ pc = "op_ok"
    /\ LogRow("success")
    /\ summary' = [summary EXCEPT ![phase].succeeded = @ + 1]
    /\ NextTable
    /\ UNCHANGED << fixed, phase, cands, gates, active, attempt, err, already, exit,
                    signals, gateOff, conn, history >>

(* classify_op_error: a shutdown explains a cancelled or dropped session.  *)
(* Mutant: any cancelled statement is put down to a shutdown.              *)
AnyInterrupted == err \in {"lost", "cancelled"}

ShutdownInterrupted == shutdown /\ err \in {"lost", "cancelled"}

TableInterrupted ==
    /\ pc = "classify" /\ ShutdownInterrupted
    /\ Skipped
    /\ IF conn = "closed" THEN UNCHANGED logbook ELSE LogRow("cancelled")
    /\ err' = "none"
    /\ EndRunner
    /\ UNCHANGED << fixed, gates, active, attempt, exit, signals, gateOff, conn,
                    history >>

TableLost ==
    /\ pc = "classify" /\ ~ShutdownInterrupted /\ err = "lost"
    /\ Fail("lost")
    /\ UNCHANGED << fixed, phase, cands, todo, cur, gates, active, attempt, already,
                    summary, exit, signals, gateOff, conn, logbook, history >>

(* Mutant: break instead of continue.                                      *)
TableLockedBreaks ==
    /\ pc = "classify" /\ err = "lock_timeout"
    /\ Skipped
    /\ err' = "none"
    /\ EndRunner
    /\ UNCHANGED << fixed, gates, active, attempt, exit, signals,
                    gateOff, conn, logbook, history >>

TableLocked ==
    /\ pc = "classify" /\ err = "lock_timeout"
    /\ Skipped
    /\ err' = "none"
    /\ NextTable
    /\ UNCHANGED << fixed, phase, cands, gates, active, attempt, already, exit, signals,
                    gateOff, conn, logbook, history >>

TableFailed ==
    /\ pc = "classify" /\ ~ShutdownInterrupted /\ err \in {"cancelled", "other"}
    /\ LogRow("error")
    /\ summary' = [summary EXCEPT ![phase].failed = @ + 1]
    /\ err' = "none"
    /\ NextTable
    /\ UNCHANGED << fixed, phase, cands, gates, active, attempt, already, exit, signals,
                    gateOff, conn, history >>

-----------------------------------------------------------------------------
(* The end of run() and main().                                            *)

AnyFailed == \E p \in Phases : summary[p].failed > 0

(* Mutant: the flag is not looked at once the phases are over.             *)
FinishUnaware ==
    /\ pc = "phase" /\ phase = Final
    /\ IF AnyFailed THEN Fail("other") /\ UNCHANGED exit
       ELSE exit' = 0 /\ pc' = "exit" /\ UNCHANGED err
    /\ UNCHANGED << fixed, phase, cands, todo, cur, gates, active, attempt, already,
                    summary, signals, gateOff, conn, logbook, history >>

Finish ==
    /\ pc = "phase" /\ phase = Final
    /\ IF shutdown THEN exit' = 130 /\ pc' = "exit" /\ UNCHANGED err
       ELSE IF AnyFailed THEN Fail("other") /\ UNCHANGED exit
       ELSE exit' = 0 /\ pc' = "exit" /\ UNCHANGED err
    /\ UNCHANGED << fixed, phase, cands, todo, cur, gates, active, attempt, already,
                    summary, signals, gateOff, conn, logbook, history >>

(* shutdown::exit_code and db_error::exit_code_for.                        *)
(* Mutant: the error is looked at before the signal.                       *)
ExitCodeErrorFirst(e, wasRequested) ==
    IF e = "lost" THEN 3 ELSE IF wasRequested THEN 130 ELSE 1

ExitCode(e, wasRequested) ==
    IF wasRequested THEN 130 ELSE IF e = "lost" THEN 3 ELSE 1

ExitWithError ==
    /\ pc = "fail"
    /\ exit' = ExitCode(err, requested)
    /\ pc' = "exit"
    /\ UNCHANGED << fixed, phase, cands, todo, cur, gates, active, attempt, err, already,
                    summary, signals, gateOff, conn, logbook, history >>

-----------------------------------------------------------------------------
PhaseStep == SkipPhase \/ EnterPhase \/ Discover \/ DiscoverFails \/ DiscoverMaxThreshold

LoopStep ==
    \/ ListDone \/ LoopFindsClosed \/ LoopFindsShutdown
    \/ \E t \in Tables : PassOver(t) \/ TakeTable(t)

GateStep ==
    \/ GateNotNeeded \/ GateProceed \/ GateDisable \/ GateHold
    \/ GateRecovered \/ GateExpired \/ GateSeesShutdown \/ GateQueryFails

ActiveStep ==
    \/ NoActiveVacuum \/ FindActive \/ FindActiveFails
    \/ TerminateAutovacuum \/ GateManual \/ TerminateFails

OperationStep ==
    \/ CountBefore \/ Maintain \/ CountAfter \/ StatementFails
    \/ Backoff \/ GiveUp \/ BackoffElapsed \/ BackoffInterrupted

ResultStep ==
    TableSucceeded \/ TableInterrupted \/ TableLost \/ TableLocked \/ TableFailed

RunStep ==
    \/ PhaseStep \/ LoopStep \/ GateStep \/ ActiveStep
    \/ OperationStep \/ ResultStep \/ Finish \/ ExitWithError

Environment == SignalMark \/ SignalSend \/ LoseConnection \/ NoticeClosed

(* The process has exited.                                                 *)
Exited == pc = "exit" /\ UNCHANGED vars

Next == RunStep \/ Environment \/ Exited

Spec == Init /\ [][Next]_vars

(* The run goes on as long as every statement returns: lock waits are      *)
(* limited by lock_timeout, a maintenance statement has a table's worth of *)
(* work to do, and TCP keepalives find a dead peer.                        *)
FairSpec == Spec /\ WF_vars(RunStep)

-----------------------------------------------------------------------------
(* Properties.                                                             *)

Counted(p) == summary[p].succeeded + summary[p].failed + summary[p].skipped

(* Every table of the current list is counted exactly once or still to     *)
(* come, at every moment of the loop, whichever of the many ways out of    *)
(* the loop body was taken; a dry run counts only its skips.  A run that   *)
(* exits with 0 has accounted for every table it matched.                  *)
SummaryAccounts ==
    /\ pc \in InTable \cup {"loop"} =>
         /\ summary[phase].total = Cardinality(cands)
         /\ Counted(phase) + Cardinality(todo) <= summary[phase].total
         /\ ~policy.dry_run => Counted(phase) + Cardinality(todo) = summary[phase].total
    /\ exit = 0 /\ ~policy.dry_run =>
         \A p \in Phases : Counted(p) = summary[p].total /\ summary[p].failed = 0

Done(p) == {t \in Tables : <<p, t>> \in effects}

(* What is reported as done was done: a success row of the logbook, and    *)
(* the succeeded count of a phase, stand for statements that completed,    *)
(* whatever retries and failures came before.  SKIP_LOCKED is the          *)
(* exception, because the server reports the table it left out as done.    *)
SuccessIsReal ==
    ~policy.skip_locked =>
       /\ \A row \in logbook : row[3] = "success" => <<row[1], row[2]>> \in effects
       /\ \A p \in Phases : summary[p].succeeded <= Cardinality(Done(p))

(* What the registers of matched tables guarantee: a table is vacuumed     *)
(* twice in a run only by never-vacuumed and then the wraparound FREEZE,   *)
(* it is never analyzed twice, and the bloat and --also-tables phases      *)
(* leave alone whatever an earlier phase worked on.                        *)
RepeatsOnlyFreeze ==
    \A t \in Tables : \A p, q \in Phases :
       p < q /\ {<<p, t>>, <<q, t>>} \subseteq effects =>
          /\ {p, q} \subseteq VacuumPhases => p = 1 /\ q = 3
          /\ Runner[q].work = "analyze" => Runner[p].work = "vacuum"
          /\ q \notin {4, 8}

(* "Stops before the next table": after the handler has set the shutdown   *)
(* flag at most one maintenance statement is started, the one the run was  *)
(* already preparing, however many retries and gates it had ahead of it.   *)
StopsPromptly == lateStarts <= 1

(* The exit code tells what happened: 0 and 3 and 1 never hide a shutdown  *)
(* the run knew of, 130 is only used for one, and 3 needs a dead session.  *)
ExitCodeFaithful ==
    /\ exit = 0 => ~shutdown
    /\ exit \in {1, 3} => ~requested
    /\ exit = 130 => requested
    /\ exit = 3 => conn # "open"

(* --dry-run: no statement, no terminated backend, no logbook row, even    *)
(* when the tables are busy, lagging or the run is interrupted.            *)
DryRunTouchesNothing ==
    policy.dry_run => effects = {} /\ killed = {} /\ logbook = {}

(* A manual VACUUM is terminated only under --force, and nothing at all    *)
(* under --skip-active-vacuum.                                             *)
KillsAuthorized ==
    /\ policy.skip_active_vacuum => killed = {}
    /\ ~policy.force => \A t \in Tables : <<t, "manual">> \notin killed

(* A row with status cancelled is written for a shutdown only, for one     *)
(* table at most, and that table's phase is the last one that did any work. *)
CancelledEndsRun ==
    \A row \in logbook : row[3] = "cancelled" =>
       /\ shutdown
       /\ \A other \in logbook : other[3] = "cancelled" => other = row
       /\ \A done \in effects : done[1] <= row[1]

(* MaintenanceRun does what AbstractRun promises: matched tables are       *)
(* decided one by one, each counted once, a phase is left with undecided   *)
(* tables for a shutdown only, and each of the ends has its exit code.     *)
status ==
    CASE pc = "phase" -> "between"
      [] pc = "fail" -> "failing"
      [] pc = "exit" -> "ended"
      [] OTHER -> "working"

A == INSTANCE AbstractRun WITH
        dry <- policy.dry_run, pending <- todo, tally <- summary, stop <- shutdown

KeepsPromise == A!Spec

(* The run ends, whatever the replicas, the locks and the signals do.      *)
Termination == <>(exit # -1)

(* A shutdown the run can see ends it with 130, on every path.             *)
ShutdownExits130 == shutdown ~> exit = 130

-----------------------------------------------------------------------------
(* Statements of the documentation that the code does not meet.            *)

(* README: a table matched by an earlier mode in the same run is not       *)
(* reprocessed by a later mode.                                            *)
MatchedOnce ==
    \A t \in Tables : \A p, q \in Phases :
       {<<p, t>>, <<q, t>>} \subseteq effects => p = q

(* README: if the connection dies mid-run, the run stops and exits with 3. *)
LossAbortsAsLost ==
    [][pc # "fail" /\ pc' = "fail" /\ phase # Final /\ conn # "open" => err' = "lost"]_vars
=============================================================================
