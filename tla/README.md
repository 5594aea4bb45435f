# pg-maintainer in TLA+

pg-maintainer is a command-line program that connects to one PostgreSQL
database, finds tables that need `VACUUM`, `ANALYZE` or a freezing `VACUUM`, and
maintains them one after another. It is a single process with one maintenance
session, and yet most of what can go wrong with it is concurrency: signals
arrive at any moment, a second task reads and cancels the session's statements,
the session can die, autovacuum and other sessions work on the same tables,
replicas fall behind, and several pg-maintainer processes can be started on the
same database.

This directory holds a model of that behaviour, the TLC configurations that
check it, and proofs of its most important safety properties. Line references
are to `src/src/` unless they name another file. `PROJECT.json` maps every
definition to the lines it models.

## 1. Inventory

| Component | State it keeps | Operations | Module |
|---|---|---|---|
| Run: `run()` in `main.rs`, the eight `run_*` runners, `with_lock_timeout_retry`, `classify_op_error`, `handle_active_vacuums` in `operations.rs`; `db_error.rs` | the phase, three `HashSet`s of matched tables, eight `OperationSummary`, the logbook rows, the exit code | discover, take the next table, pass the lag gate, look for active vacuums, terminate them, count, execute, count again, retry, classify, log, end a phase, exit | `MaintenanceRun`; its promise: `AbstractRun` |
| Shutdown: signal handlers (`main.rs` 1096-1136), `shutdown.rs` | `SHUTDOWN_REQUESTED`, a watch flag, a channel of signals; the watcher's signal count, control connection and target statement | mark, send, forward; poll, cancel, grace period, recheck, terminate | `ShutdownWatcher` (watcher and session), `MaintenanceRun` (handlers and run) |
| Startup: `main.rs` 1179-1294, `try_acquire_schema_lock`, `schema.rs` | the resolved schema list, the advisory lock on the server, the logbook schema and table | connect, resolve schemas, lock, create the logbook | `Startup` (several processes), `SessionSetup` (one) |
| Replica-lag gate: `wait_for_replica_lag`, `ReplicaLagGate` | `disabled`, the total waited, the tables skipped | read lag, sleep, give up | `ReplicaLagGate`, composed in `TableWaits`; outcomes in `MaintenanceRun` |
| Retry: `with_lock_timeout_retry` | attempt, delay | run, back off, return | `LockRetry`, composed in `TableWaits`; outcomes in `MaintenanceRun` |
| needs-vacuum: `get_vacuum_settings`, the two `NEEDS_VACUUM` queries, `derive_max_threshold`, `merge_needs_vacuum_candidates`; `vacuum_output.rs` | the thresholds, the two result lists, the merged list | read settings, discover twice, merge and cut, count, vacuum, count | `NeedsVacuum` |
| Configuration: `Args`, `Config`, `merge_config`, DSN source, validation, `parse_list`; endpoint and password (`connection.rs`, `credentials.rs`) | the arguments as completed so far, `ConnectionConfig` | load the file, apply the connection string, validate, complete the endpoint, look the password up | `Configuration` |
| Session: `connect`, `SET` statements, `ThrottleSettings`, initial reads, `resolve_explicit_tables` | the session's settings, the schema list, the explicit tables | connect and check, set, read, resolve | `SessionSetup` |
| Discovery queries of the other phases: `queries.rs` | none | six queries | their result is a free choice in `MaintenanceRun` |
| Vacuum-horizon diagnostics | none | reads, log lines | a step of `SessionSetup` that may fail |
| Text of connection strings (`dsn.rs`), logging and rotation (`logging.rs`) | none that control depends on | parsing, output | not modelled |

How the parts interact:

- **Handlers to run.** A handler stores `SHUTDOWN_REQUESTED`, then sends `true`
  on the watch channel, then sends the signal's name to the watcher. The run
  reads the watch value at the top of each phase and table, in the retry and lag
  waits, and when it classifies an error. `main` reads `SHUTDOWN_REQUESTED` for
  the exit code of an error. The two can differ for a moment.
- **Watcher to session.** The watcher has a connection of its own. It reads the
  session's row of `pg_stat_activity` in one statement and calls
  `pg_cancel_backend` or `pg_terminate_backend` in another. What it does reaches
  the run only as an error of the statement then in progress.
- **Run to run.** Processes meet in the database: the advisory lock, the logbook
  objects, the tables. A killed process leaves its backend at work.
- **Phases to phases.** Phases share the three registers `already_handled`,
  `already_vacuumed` and `already_analyzed`, which some phases fill before their
  runner is called and others after, and which some runners ignore.
- **Sources to session.** Command line, file, connection string and environment are
  folded into one `Args` and an endpoint, from which the session is set up. The
  advisory lock covers the schema list this yields, and the explicit tables are
  admitted by that list.
- **Other sessions to the list.** Candidates are read once per phase; writers,
  autovacuum and `DROP TABLE` change what the list says while it is worked on.

The hard behaviours are: the order of the handlers' stores against errors; the
gap between reading and cancelling; a second signal racing a grace period; the
many exits of the table loop, each of which must keep the counts right; errors
that lose their type on the way up; the death of the session at any statement;
the retry and lag waits racing the signal; several processes, killed or alive,
against one lock and one logbook; two queries, taken at two moments and cut
twice by one limit, merged into one list; settings of which some must succeed and
some need not.

## 2. Modules

### `MaintenanceRun` — one run, from the first phase to the exit code

`pc` is the control point inside `run()` and the current runner; `phase` the
phase (1 to 8, 9 is the final summary). `cands` and `todo` are the phase's
candidates and those not yet taken, `cur` the table in hand, `attempt` and `err`
the retry counter and the last error's kind, `already` the three registers,
`summary` the eight summaries. The constant `Setups` holds the inputs: a policy
(the flags) and a set of modes.

The eight runners share their loop body, so it is modelled once. What tells them
apart is in the eight `run_*` records: the statement (`work`), whether the
dead-tuple count surrounds it (`polls`), the register that makes the runner pass
a table over (`consults`), the number of lag gates per table (`gates`: two in
`run_also_tables`). What tells the eight phase blocks apart is in `Phase1` to
`Phase8`: which registers get the candidates and whether before (`early`) or
after the runner.

| Actions | Code |
|---|---|
| `SkipPhase`, `EnterPhase`, `Discover`, `DiscoverFails`, `DiscoverMaxThreshold`, `Finish`, `ExitWithError` | `run()` and `main()` |
| `ListDone`, `LoopFindsClosed`, `LoopFindsShutdown`, `PassOver`, `TakeTable` | top of the `for` loop |
| `Gate*` | `wait_for_replica_lag`, by its outcomes |
| `NoActiveVacuum`, `FindActive`, `FindActiveFails`, `TerminateAutovacuum`, `GateManual`, `TerminateFails` | `handle_active_vacuums` |
| `CountBefore`, `Maintain`, `CountAfter`, `StatementFails` | `vacuum_table`, `analyze_table`, `freeze_table`, `vacuum_analyze_table` |
| `Backoff`, `BackoffElapsed`, `BackoffInterrupted`, `GiveUp` | `with_lock_timeout_retry` |
| `TableSucceeded`, `TableInterrupted`, `TableLost`, `TableLocked`, `TableFailed` | the runner's `match`, `classify_op_error`, `handle_shutdown_interrupt` |
| `SignalMark`, `SignalSend`, `LoseConnection`, `NoticeClosed` | environment |

Every SQL statement is one step, except that a statement whose session dies may
have taken effect on the server (`LoseConnection`). The INSERT of the logbook is
part of the step that decides its row, and may fail, because the code ignores
its failure. `effects`, `killed` and `lateStarts` are history variables.

Abstracted: the discovery predicates (the statistics change under the program,
so any set of tables may come back, in any order), wording, durations.

### `AbstractRun` — what a run promises

Phases in order; a phase matches tables, decides them one by one and counts each
decision once; it is left with tables undecided only for a shutdown; the exit code
tells the run's end. The refinement mapping is in `MaintenanceRun`: `status` is a
function of `pc` and `phase`, `pending` is `todo`, `tally` is `summary`,
`requested` and `stop` are the two signal flags, and `A == INSTANCE AbstractRun`
with these; `KeepsPromise` is `A!Spec`. All the retrying, gating, looking up and
counting of a table is a stutter of the promise.

### `ShutdownWatcher` — the watcher against the session

The session is the stream of statements that `run()` and its runners issue. `pos`
and `running` say which it is at: a phase's candidate query (`discover`), a read
of `pg_stat_replication` (`lag`), the search for active vacuums (`check`) and
their termination (`kill`), the two counts around a VACUUM, the maintenance
statement with counts (`vacuum`) or without (`analyze`), the query for the oldest
xmin, the logbook INSERT (`log`), or the top of the loop. `After` and `AfterError`
say what may follow each of them. A table may be left without a row of the
logbook: the gate gives it up, another vacuum is active on it, its lock cannot be
had, the run is a dry one, or the INSERT fails. `LockTimeoutRetry` goes back to
the first count, the lag reads repeat themselves, and before either the session
sleeps (`waiting`), a sleep that the shutdown flag may end (`Woken`). `MaxRepeats`
bounds the statements issued again.

`query_start` tells the target's statement from others, as
`pg_stat_activity.query_start` does, `interrupt` is the request the backend was
sent and has not yet obeyed. `wpc` is the watcher's control point, and its actions
are the awaits of `run_watcher` and `handle_signal`. A cancel request hits whatever
runs when it arrives; it may come too late. `hit` has the tables in hand when an
interrupt was sent, `lost` counts the tables an interrupt left without their row.
With
`reliable = FALSE` the control connection may fail at every use, and the server
may be slower than the watcher's polls.

### `Startup` — several processes on one database

Per instance: control point, `--dry-run`, resolved schema list, whether the
process and its backend are alive, the schema whose table the backend is
working on. Shared: `owner` of each advisory key, and whether the logbook schema
and table exist. `Crash` kills the process and leaves the backend;
`ServerNotices` ends the backend later, which frees its lock (`EndSession`);
`SessionKilled` is the converse. `LockKey` is a function on schema lists, as
`hashtext` of the joined list is; the lists include two orders of one set of
schemas, lists that overlap, and one that resolves to nothing because the
logbook schema is filtered out.

### `TableWaits` = `ReplicaLagGate` + `LockRetry` — the waits, with their clocks

`ReplicaLagGate` passes `Tables` tables through one gate, `PassesPerTable` times
each, with a clock in seconds that advances in a sleep (`Tick`), in a query
(`QueryTime` at most) and between two reads of `Instant::now` at the top of the
loop. `LockRetry` is one call of `with_lock_timeout_retry` with its growing
delay. `TableWaits` instantiates both: what the gate lets through is run under
the retries before the gate sees the next table, and one `shutdown` flag, set at
any moment, is read by both. `late` counts executions begun after the flag was
set. `MaintenanceRun` contains the same two loops without their clocks, since
nothing it says depends on durations.

### `NeedsVacuum` — phase 5 in its data

What the other modules leave open, the predicates behind a candidate list, is
here for the phase with the most intricate ones. `setup` is a command line and a
server, `catalog` what `pg_class` and the reloptions say, `dead` the dead rows of
each table and `reported` its `n_dead_tup`, which is all that the code ever reads.
The discovery is five reads with their stand-ins (`ReadSettings`, `FindClassic`,
`ReadVersion`, `ReadCap`, `FindSecond`), then `Merge`, then the loop:
`CountBefore`, `Vacuum`, `CountAfter`. Each of these three can find the table gone
(`Gone`), meet any other error (`Errs`), or run into `lock_timeout`, with retries
left (`LockRetry`, back to the first count) or without (`Locked`). Between any two
steps `Write`, `Autovacuum` and `DropOrSwap` interfere; the statistics catch up
with the dead rows when they will, or an `ANALYZE` puts an estimate there that is
off (`Report`); and the report of the run's own VACUUM may be late like any other.
`met`, `moved`, `due`, `blind`, `fresh`, `touched`, `lost`, `erred`, `vacuumed` and
`removed` are history variables: what the properties compare the list and the
figures with. `AutovacuumActs` is the reference definition for the second query,
written after the server's rule, which the query's comment claims to mirror: it
knows whether the server has a cap and all-frozen pages, where the query knows
what it could read, and the insert trigger is in both, with its threshold, its
scale factor and their reloptions.

### `Configuration` and `SessionSetup` — from the command line to the first phase

A source (command line, file, connection string, environment) is a function on
the fields it gives, so that "given" and "not given" stay apart where the code
keeps them apart, and `Parsed` loses the difference where `Args` does.
`Configuration` has one action per stage of `run()` up to `ConnectionConfig`.
`SessionSetup` extends it: each statement is `Required` or `MustSet` (its
failure ends the program), `MaySet` (its failure is a warning) or `NotNeeded`,
and the connection may die between any two (`ConnectionLost`).

### `MCRun`, `MCStartup`, `MCNeedsVacuum`, `MCSetup`

Values for the constants. `ShutdownWatcher` and `TableWaits` take theirs from
the `.cfg` directly.

### `Sublists`

Filters, deduplications and stable sorts of lists (`Vec::retain`, a `HashSet` of
the seen, `sort_by_key`), by positions instead of recursion: `Kept(list, I)` is
what the list has at the positions `I`, `Arranged(I, R)` the positions in the
order `R`, where a position's place is the number of positions before it.
`Startup`, `NeedsVacuum`, `Configuration` and `SessionSetup` use these operators,
because what a fold or `SelectSeq` computes can only be proved by induction over
the list, which is out of the prover's reach here.

### `MaintenanceRunProofs`, `StartupProofs`, `WatcherProofs`, `WaitProofs`, `SublistTheorems`, `NeedsVacuumProofs`, `SetupProofs`

Proofs; `AbstractRun` carries its own. See section 4.

## 3. Runs

| Run | Question | Bounds | States |
|---|---|---|---|
| `RunTables` | Does the loop's bookkeeping hold on every way out of its body (`SummaryAccounts`)? Is at most one statement started after the shutdown flag (`StopsPromptly`)? Does a `cancelled` row end the run (`CancelledEndsRun`)? Does the run implement `AbstractRun` (`KeepsPromise`)? | two tables, the bloat phase and `--also-tables`, with and without lag gating, one retry | 2.2 M |
| `RunOptions` | Which tables can be worked on twice in a run (`RepeatsOnlyFreeze`)? Did everything reported as done happen (`SuccessIsReal`)? What do `--dry-run`, `--force` and `--skip-active-vacuum` forbid (`DryRunTouchesNothing`, `KillsAuthorized`)? Is the exit code true (`ExitCodeFaithful`)? Does every run end (`Termination`), a visible shutdown with 130 (`ShutdownExits130`)? | one table; every combination of flags with a mode of each kind of runner, the default flags with every one or two modes; one retry | 1.5 M |
| `Watcher` | Is the flag set before anything is interrupted (`FlagBeforeInterrupt`)? Is one signal careful (`OneSignalIsCareful`) and the cancel made once (`CancelOnce`)? Does the escalation hit the statement it meant (`EscalatesOnTarget`)? How many tables can signals cost (`OneTableDisturbed`)? Does a signal end the run although the VACUUM never would (`SignalEndsRun`)? | three modes, two tables, three signals, one statement issued again, `POLL_ATTEMPTS` = 8 as in the code | 1.4 M |
| `StartupSafety` | Does a lock follow its session (`LockFollowsSession`)? Are runs with the same list kept apart (`SameListExcluded`)? Is a row ever lost after a successful setup (`SetupOkKeepsRows`)? | three processes (interchangeable: symmetry), five schema lists | |
| `TableWaits` | Is the deadline kept (`WithinBudget`)? Are the totals of the summary right (`TotalsHonest`)? Does a signal end the lag wait (`SignalHeard`) and, over both waits, let at most one execution begin (`OneLateStart`)? Do the delays double (`DelaysDouble`)? Is every table decided (`EveryTableDecided`)? | two tables; budgets 0, 3 and 12 s, poll 5 s, one or two passes; 0, 2 and 20 retries (20 is the code's maximum) | 1.4 M |
| `NeedsVacuum` | Does the limit, applied twice, cut the tables that come last (`LimitCutsLeast`)? Is every table listed that autovacuum would act on (`AutovacuumCovered`)? When is a figure the work of this run (`FigureIsOwnWork`)? Does what befalls one table of a list that went stale leave the others alone (`StaleListHandled`)? | three tables, dead-row counts 0, 3 and 6, eight command lines and servers, three catalogs, one failure or interference besides late statistics | 7.9 M |
| `Setup` | Does a setting have the value of its highest source, as far as the code can tell that one is given (`PrecedenceKept`)? Is the password sent to an endpoint it was meant for (`PasswordMatchesEndpoint`)? Is a run throttled as asked (`ThrottleHonoured`), and does it never wait for a lock without end (`NeverWaitsForever`)? Are the explicit tables under the lock (`AlsoTablesLocked`)? | eight groups of settings, each varied over all its sources; five servers; a connection that may die anywhere | 0.2 M |
| `RunMatchedOnce`, `RunLoss`, `WatcherRace`, `StartupOverlap`, `CommandLineWins` | see section 6 | the smallest instances that show the case | |

Why the bounds are enough:

- *One or two tables.* Tables only meet in the loop's counts and registers, per
  table or as sums; two are enough for "this one and the rest".
- *Pairs of modes.* The registers only grow, so a phase is affected by the union
  of what earlier phases marked; a repeat involves two phases. `--also-tables`
  always comes third.
- *One retry.* The loop is the same each time round; with one, both "may retry"
  and "used up" occur, also with a signal before, in and after the back-off.
  The proofs cover every number.
- *Three signals.* The watcher tells the first from all later ones; the third can
  arrive while the second is being handled. Two tables give the watcher a later
  statement to hit by mistake, and one repeat (`MaxRepeats`) a statement of the same
  kind on the same table.
- *Budgets.* 0 skips at once, 3 is shorter than one poll, 12 is not a multiple
  of it: the case the comment in the code gives.
- *Three processes.* The holder of a lock, its survivor after a crash and a newcomer.
- *Delays in units.* Units of a second rather than milliseconds keep the twentieth
  doubling within TLC's integers; `DelayCap` stands for `u64::MAX` saturation and
  lies beyond every delay reached, as in the code.
- *Three tables in `NeedsVacuum`.* A limit of 1 or 2 then cuts something, and one
  list can hold a table of either pass and one of both. The counts lie below,
  between and above the thresholds; the catalogs hold each kind of reloption the
  queries read. One failure or interference (`MaxEvents`) suffices for a retry, an
  error, a row that dies between the counts or a read that fails, each at every
  point; late statistics come on top of it. Their combinations, such as an error of
  one table after another was dropped, are left to the proofs, which cover every
  number.
- *Groups of settings in `Setup`.* `merge_config` treats each field on its own;
  the fields that are checked or resolved together are varied together.

`CHECK_DEADLOCK` is on everywhere: a process that has ended stutters explicitly
(`Exited`, `AllDone`, `Ended`), so a deadlock would be a real one.

### Fairness

- `MaintenanceRun`: weak fairness of the run's own steps taken together. Every
  statement returns: waits for locks are limited by `lock_timeout`, a maintenance
  statement has one table's work to do, TCP keepalives find a dead peer, sleeps
  are bounded. No fairness of any single outcome is assumed, so a table may for
  example never get its lock.
- `ShutdownWatcher`: weak fairness of the short statements and the sleeps (taken
  together, no single outcome), of the death of a terminated backend, of the
  handlers and of the watcher. It is *not* assumed
  that a `VACUUM` ends or that it obeys a cancel request. A poll sleeps
  `POLL_INTERVAL`, and with a reliable control connection a short statement seen
  by one poll is over by the next (`MovedOn`, the guard of the sleep's end).
  Without it the eight polls may all land between two maintenance statements
  and the watcher gives up, as the code says it may. `SignalEndsRun` is stated
  for reliable connections and the modes that act, and up to the second signal: a
  signal that comes while the watcher sleeps between two polls ends that sleep and
  costs one of the eight polls (`shutdown.rs:255-260`), so enough of them use the
  polls up before the session has moved on.
- `TableWaits`: weak fairness of the gate's and the operation's steps: sleeps,
  queries and statements end.
- `Startup`, `NeedsVacuum` and `SessionSetup` have only safety properties and no
  fairness.

## 4. Proofs

The theorems of `MaintenanceRunProofs` hold for every finite set of tables, every
choice of modes and policies and every number of retries:

| Theorem | Statement | Argument |
|---|---|---|
| `TypeCorrect` | `Spec => []TypeOK` | `TypeOK` is inductive. Beyond types it says where a table is in hand (`cur \in todo`), that `todo` is part of the candidates, and that the retry counter never passes the limit: `NextTable`, `PassGate` and `Backoff` need exactly these. |
| `DryRunSafe` | `Spec => []DryRunTouchesNothing` | `DryRunInv` adds the control points a dry run never reaches (the wait at the lag gate, the statement, its retries): the property alone is not inductive, since a run at `maint` would take effect whatever the policy. |
| `OnlyAuthorizedKills` | `Spec => []KillsAuthorized` | `KillsInv` adds that `--skip-active-vacuum` keeps the run away from the two points where backends are terminated. |
| `ExitCodesFaithful` | `Spec => []ExitCodeFaithful` | `ExitInv` adds that the watch flag follows `SHUTDOWN_REQUESTED` (the order of the two stores), that a `lost` error is only made of a dead session, and that the code is fixed on leaving. |
| `PromptStop` | `Spec => []StopsPromptly` | `StopInv` adds where nothing can have been started late: everywhere up to the statement of the table in hand, and in a back-off, which is entered only if the shutdown was not seen. |
| `CancelledRowEndsRun` | `Spec => []CancelledEndsRun` | `CancelInv`: with such a row the run is between phases or on its way out, and nothing is done by a phase ahead of the current one. |
| `SuccessesAreReal` | `Spec => []SuccessIsReal` | A count is compared with a set, so `SuccessInv` compares it with the tables that are done *and no longer ahead in the list* (`Decided`): the table in hand is done before it is counted. |
| `RepeatsAreFreezes` | `Spec => []RepeatsOnlyFreeze` | `RegisterInv`: whatever a phase worked on is in the registers that phase fills, before or after its runner (`Marked`), and the table in hand is in none that its runner consults. |

Four of these invariants (`DryRunInv`, `KillsInv`, `ExitInv`, `StopInv`) are proved
together as `ConductInv`. What the later three need of the many actions is said
once, by `StepsRecorded`: every step is of one of a few kinds, by what it does to
the history, the registers, the list and the summary.

The refinement, in `AbstractRun` and `MaintenanceRunProofs`:

| Theorem | Statement | Argument |
|---|---|---|
| `AccountsHold` | `AbstractRun`'s `Spec => []Accounts` | `AccountsInv` adds that phases ahead have counted nothing, and that those behind are complete unless a shutdown cut them short. |
| `RunKeepsPromise` | `Spec => KeepsPromise` | `StepKeepsPromise` goes through the actions: each maps to one of the promise's or to a stutter, under `SimulationInv` (`TypeOK`; a phase has counted nothing before its candidates are known; the exit code marks the end). |
| `EveryTableAccounted` | `Spec => []SummaryAccounts` | Not proved on `MaintenanceRun` again: the promise is instantiated, `AccountsHold` carried over, and `TotalIsCandidates` links the total to the list. |

`StartupProofs`, for every number of processes, any lists and any hash of theirs:

| Theorem | Statement | Argument |
|---|---|---|
| `LockHeld` | `Spec => []LockFollowsSession` | `LockInv` relates both directions: whoever is past the lock with a live session owns it (`Holders`), whoever owns a lock has a live session and that list (`Owners`). |
| `OnePerList` | `Spec => []SameListExcluded` | Two processes at work with one list would own one lock. |
| `SetupKeepsRows` | `Spec => []SetupOkKeepsRows` | `LogbookInv`: a setup succeeds only with the table made, and a table is never dropped. |
| `TypeCorrect` | `Spec => []TypeOK` | `ObjectsInv`: the logbook's table only after its schema, the schema in hand one of the list. What the list may hold is `ResolvedNames`: the given names but the logbook's, in their order. |

`WatcherProofs`, for every number of tables, signals and polls; all six rest on
`WatcherInv`:

| Theorem | Statement | Argument |
|---|---|---|
| `WatcherTypeCorrect` | `Spec => []TypeOK` | `SessionTyped` is what the session's steps keep (`SessionTypes`), which need not know the watcher; the watcher's steps leave the session alone but for the interrupt. |
| `FlagComesFirst` | `Spec => []FlagBeforeInterrupt` | `Told`: the order of the handler's stores, carried from the channel to the watcher's first action. |
| `FirstSignalCareful` | `Spec => []OneSignalIsCareful` | `Polite` follows the first signal's one way through the watcher: what it may aim at, and that each point is passed once. |
| `OneCancel` | `Spec => []CancelOnce` | `Polite`: only the first signal turns to the cancel, and it does so with no cancel made. |
| `DisturbanceConfined` | `Spec => []OneTableDisturbed` | `Confined`: once anything was hit the flag is set, so no table is begun after it (with `Told`), and a table that lost its row has the session at the top of the loop or at its end; as long as only maintenance statements were cancelled, a pending interrupt is a cancel of one that still runs, and the session lives. |
| `EscalationOnTarget` | `Spec => EscalatesOnTarget` | `Targeted`: a statement that runs under the target's number is the one the poll saw. |

`WaitProofs`, for every set of budgets, poll interval, duration of a read, number
of tables, number of retries and delay; all six rest on `WaitInv`:

| Theorem | Statement | Argument |
|---|---|---|
| `WaitsTypeCorrect` | `Spec => []TypeOK` | `GateInv` adds where the clock can be at each point of the wait (not past the budget where a sleep is planned) and how many tables are decided; `RetryInv` how executions and attempts keep step. |
| `BudgetKept` | `Spec => []WithinBudget` | `BudgetInv` counts the calls a table has behind it: each adds the budget and one read at most (`CallAdds`). |
| `TotalsTrue` | `Spec => []TotalsHonest` | `TotalsInv`: an error, the one way out that is not counted, ends the run. |
| `WaitInterruptible` | `Spec => []SignalHeard` | `SignalInv`: whoever sleeps has not yet slept through a signal. |
| `DelaysAreDoubled` | `Spec => []DelaysDouble` | `DelayInv` gives the delay and the sum of the earlier ones at each point of the loop, the back-off included, where the attempt is counted already. The provers know nothing of powers: `PowerDoubles` and `PowerGrows` count the subsets of `1..n`, and `Unsaturated` follows from them. |
| `StopsSoon` | `Spec => []OneLateStart` | `RetryInv` says where nothing can have begun late: before the flag is set, in the gate, in the operation until it runs, and in its back-off. |

`SublistTheorems` has only lemmas, which say what the operators of `Sublists` return.
`ArrangedInOrder`: under a strict order of a finite set the places are an injection
into `0..n-1`, hence onto, so every position is arranged once and in order. From it
follow what a filter keeps (`KeptElements`), in which order (`KeptIsSublist`,
`SublistOfSublist`), and that a choice has a first position (`FirstPosition`).

`NeedsVacuumProofs`, for every finite set of tables, any thresholds, catalogs, row
counts and number of interferences; all five rest on `Types`, which says that the
lists are lists of rows and the merged one has no table twice:

| Theorem | Statement | Argument |
|---|---|---|
| `TypeCorrect` | `Spec => []TypeOK` | Neither pass has a table twice, and the first row of each is kept (`FirstOfEachRows`); sorting and cutting (`SortedRows`, `TruncatedRows`) repeat nothing. |
| `StaleListIsHandled` | `Spec => []StaleListHandled` | `StaleInv`: the tables with an outcome are those behind the loop's position; one that failed or was skipped is among the lost or had a failed statement, one that succeeded was vacuumed; and every listed table is there or among the lost. |
| `FiguresAreOwnWork` | `Spec => FigureIsOwnWork` | `FigureInv`: if the first count was up to date and nobody touched the table since, its dead rows are that count, and after the VACUUM that count less what was removed. A retry takes the first count again, which is what keeps this. |
| `AutovacuumIsCovered` | `Spec => []AutovacuumCovered` | `TriggerCovered`: the query's condition follows from autovacuum's, since the reduced cap is no larger, a server before 18 has none, and both count the same rows for the insert trigger unless the version could not be read; `CoverInv` carries this through the second pass and, if the limit leaves room (`RoomFor`), the merge. |
| `LimitIsHonoured` | `Spec => []LimitCutsLeast` | `LimitInv`: a row that met a condition is in a pass, or was cut from the first one by a full limit of rows no later than it (`CutAt`), or its statistic has moved since. `MergeCutsLeast` then holds of any two such passes. |

`SetupProofs`, for every command line, file, connection string, environment,
`.pgpass` and server:

| Theorem | Statement | Argument |
|---|---|---|
| `PrecedenceIsKept` | `Spec => []PrecedenceKept` | `ArgsInv` has the arguments in closed form at each stage, as a function of the sources. `MergedIsHighest` shows field by field that this function takes the highest source that names something; for the plain fields of `Defaults` that is a value other than the default, the proviso that `CommandLineWins` is about. `FlagSources` says that flags need none. |
| `PasswordFitsEndpoint` | `Spec => []PasswordMatchesEndpoint` | `ConnInv`: the `ConnectionConfig` is that of the arguments as they still are; `FirstEntryThatFits` is what the search of `.pgpass` returns. |
| `ThrottleIsHonoured` | `Spec => []ThrottleHonoured` | `SessionInv`: which settings are made at each point, in terms of the arguments; `AskedIsTaken` and `GentleIsAsked` trace the arguments back to the sources. |
| `WaitsAreLimited` | `Spec => []NeverWaitsForever` | `ValidInv`: past `Validate` the arguments are valid, so the value that `SessionInv` finds in the session is within the limits. |
| `AlsoTablesAreLocked` | `Spec => []AlsoTablesLocked` | `ScopeInv`: the schema list is the one that was locked. The explicit tables are a sublist of a sublist of the list as given, without its repetitions. |

Assumptions: `RetriesAssumption` (a natural number), `SetupsAssumption` (modes are
phases, and `--force` with `--skip-active-vacuum` is rejected before connecting),
`TablesAssumption` (finitely many tables; `NoTable` is not one of them);
`LockKeyAssumption` (every list that resolves to some schema has a key) and
`NoneAssumption` for `Startup`; `ModesAssumption` (modes of `--shutdown-mode`) and
`CountsAssumption` (natural numbers, `MaxRepeats` among them, and at least one
poll) for `ShutdownWatcher`; `ParametersAssumption` for `TableWaits` (natural
numbers, a positive poll interval, retries and first delay within the limits the
validation sets, and a saturation point the longest first delay does not reach in
the greatest number of doublings: 60000 ms times 2^20 is far below `u64::MAX`);
`ListsAssumption` for `Startup` (schema lists are lists); `InputsAssumption`,
`TablesAssumption` (finitely many tables) and `NoneAssumption` for `NeedsVacuum`;
`ValuesAssumption` and `NoneAssumption` for `Configuration`: what `clap` and
`serde` let through, that is, a field that is given has a value of its type, a
flag on the command line is on, only a connection string and the names of
`ParsedFields` may still fail to parse, and a connection string that parsed gives
values that parse. TLC evaluates each of them on the instances. The lemma
`CandidatesCounted` gives the total of a summary its type, `RunnerFacts` the
number of gates.

Only model-checked is liveness (`Termination`, `ShutdownExits130`, `SignalEndsRun`,
`EveryTableDecided`): it needs fairness and `ENABLED`, which the prover does not
handle. Every other property of the passing runs is stated by a theorem.

## 5. Plan

Done: the run and its abstract specification, the watcher, startup, the two
waits composed, needs-vacuum in its data, configuration and session set-up, and
the theorems above. Left, in this order:

1. `TableWaits` shown to implement the gate and the back-off of `MaintenanceRun`,
   step by step.
2. Proofs of what no run states: that the arguments of every field keep their
   type, and that the session's other settings are in force where they can be.
3. Composition of `ShutdownWatcher` with the run's classification of the error
   it causes, so that the exit code and the logbook row follow from the watcher's
   action.
4. The predicates of the other discovery queries, where one of them carries a
   rule of its own (the freeze percentage, the overdue ages).

## 6. Where the documentation and the code differ

Five runs end in a violation, each a statement of the documentation or of a
comment that the code does not meet; the behaviour modelled is the code's.

- `RunMatchedOnce`: "A table matched by an earlier mode in the same run is not
  reprocessed by a later mode" (`README.md:45`). The runners of phases 1 to 3
  consult no register. What does hold is `RepeatsOnlyFreeze`.
- `RunLoss`: a lost connection "exits with code 3" (`README.md:79`).
  `find_active_vacuums` rebuilds the error without its type
  (`operations.rs:611`), so a session lost there exits with 1. What does hold is
  `ExitCodeFaithful`: 3 is never returned for anything else.
- `WatcherRace`: "Only a running VACUUM or ANALYZE is acted on" (`README.md:114`).
  The statement may end between the read and the cancel, and the count or the
  logbook INSERT after it is cancelled. `OneSignalIsCareful` and
  `OneTableDisturbed` say what does hold.
- `StartupOverlap`: the lock keeps runs "against these schemas" apart
  (`operations.rs:39-42`). It keeps apart runs with the same list in the same order:
  `SameListExcluded`.
- `CommandLineWins`: "CLI args always win" (`main.rs:501`; also `main.rs:412`,
  `README.md:263`, `config.example.toml:2`). `merge_config` takes a plain field of
  `Args` that equals its default for one that was not given, so `--lock-timeout-ms 10`
  loses to `lock_timeout_ms = 500` in the file, and seventeen settings (`Defaults`)
  behave so. What does hold is `PrecedenceKept`.

Smaller ones that came up while reading, each visible in the model, without a run:

- `README.md:11` speaks of terminating conflicting vacuums with `--force`;
  autovacuum workers are terminated without it (`TerminateAutovacuum`), which the
  code's own comment says.
- `run_also_tables` is documented to skip tables "already maintained by an
  earlier phase"; it skips those matched by one, maintained or not (`AlreadyDone`).
- A dry run creates the logbook schema and table (`Startup` never asks for `dry`
  before `CreateTable`), and still takes the advisory lock.
- `--also-tables` passes the lag gate twice for each table, each time with the
  whole "per-table wait budget" (second conjunct of `WithinBudget`).
- The comment in `config.rs:82-84` bounds the total retry delay by the number of
  retries times the maximal delay. Only the first delay is limited; the doubling
  passes the bound (`DelaysDouble` is what does hold).
- The sentinel of `CommandLineWins` also lets a connection string override an
  `sslmode` or a `connect_timeout` that the file gives as the default.
- `vacuum_output.rs:17-18` promises `Some(0)`, and with it the warning about what
  holds the rows back, "if the estimate did not decrease and there were dead tuples
  to begin with". When the estimate grew the code returns `None`: neither a figure
  nor the warning (`estimate_dead_tuples_reduced`).
- Signals sent in quick succession use up the watcher's eight polls
  (`SignalInSleep`), so that the third may leave a VACUUM that is about to start
  to run to its end, in spite of what `SignalEndsRun` promises up to the second.
- A `schema` in the file wins over `--discover-all-schemas` on the command line
  (`ResolveSchemas` asks for `schema` first).
- A name in the file that does not parse (`order_by`, `shutdown_mode`, ...) is
  passed over in silence, where the command line refuses it.
- `maintenance-work-mem-gb = 0` passes the validation and is refused by the server
  later (`SetMaintenanceWorkMem`).
- A `.pgpass` of mode 0400 is ignored; the message asks for "0600 or less".
- The second needs-vacuum pass takes the server's threshold, never
  `--vacuum-threshold` (`VacThreshold`): with a higher threshold on the command
  line a table below it is still listed when autovacuum would act on it.

## 7. Not modelled

- SQL predicates of the discovery queries other than needs-vacuum: their input is
  statistics that other sessions change at any time; every result set is allowed
  instead, so what holds of `MaintenanceRun` holds whatever they select.
- The text of connection strings and `.pgpass` lines (splitting, escapes, percent
  decoding), certificates and the TLS handshake: a parse that succeeds is its
  fields, one that fails is `Malformed`; the handshake is part of `Connect`.
- What the vacuum-horizon diagnostics find: it reaches only the log.
- Log text, formats and rotation: no state of the run depends on them, and their
  errors are swallowed.
- The repository's tests: read for what the code is expected to do.
