------------------------ MODULE MaintenanceRunProofs ------------------------
(***************************************************************************)
(* Proofs about MaintenanceRun, for every set of tables, every choice of   *)
(* modes and policies and every number of retries: its types, what a run   *)
(* may do and when (ConductInv), what it records (by the kinds of step of  *)
(* StepsRecorded), and that it implements AbstractRun.                     *)
(***************************************************************************)
EXTENDS MaintenanceRun, FiniteSetTheorems, TLAPS

(* The number of candidates, OperationSummary.total, is a natural number   *)
(* because the tables of a database are finite in number.                  *)
LEMMA CandidatesCounted == \A S \in SUBSET Tables : IsFiniteSet(S) /\ Cardinality(S) \in Nat
  BY TablesAssumption, FS_Subset, FS_CardinalityType

(* Every runner passes the lag gate once or twice.                         *)
LEMMA RunnerFacts == \A p \in Phases : Runner[p].gates \in 1..2
  <1> SUFFICES ASSUME NEW p \in Phases PROVE Runner[p].gates \in 1..2
    OBVIOUS
  <1>1. CASE p \in 1..4
    BY <1>1 DEF Runner, run_vacuum_never_vacuumed, run_analyze_never_analyzed,
                run_freeze_wraparound, run_bloat_vacuum
  <1>2. CASE p \in 5..8
    BY <1>2 DEF Runner, run_needs_vacuum, run_vacuum_overdue, run_analyze_overdue,
                run_also_tables
  <1> QED
    BY <1>1, <1>2 DEF Phases


(* The values and the control points stay in their ranges: in particular a *)
(* table is in hand exactly where the loop body needs one, it is still in  *)
(* the list, and the retry counter never passes --lock-timeout-retries.    *)
THEOREM TypeCorrect == Spec => []TypeOK
<1>1. Init => TypeOK
  <2> SUFFICES ASSUME Init PROVE TypeOK
    OBVIOUS
  <2> USE DEF Init
  <2>1. policy \in Policy /\ enabled \in SUBSET Phases
    BY SetupsAssumption DEF Phases
  <2>2. already \in [Registers -> SUBSET Tables] /\ summary \in [Phases -> Summary]
    BY DEF Registers, Phases, Summary
  <2>3. /\ pc \in Control /\ phase \in 1..Final /\ pc \notin InTable
        /\ gates \in 0..2 /\ attempt \in 0..Retries /\ err \in Errors
        /\ exit \in {-1, 0, 1, 3, 130} /\ lateStarts \in Nat
    BY RetriesAssumption DEF Control, InTable, Final, Errors
  <2> QED
    BY <2>1, <2>2, <2>3 DEF TypeOK, Phases, Final, Control, InTable, Errors
<1>2. TypeOK /\ [Next]_vars => TypeOK'
  <2> SUFFICES ASSUME TypeOK, [Next]_vars PROVE TypeOK'
    OBVIOUS
  <2> USE DEF TypeOK, Phases, Final, Control, InTable, Summary, Errors, Statuses,
             fixed, signals, history
  <2>1. CASE PhaseStep
    <3>1. CASE SkipPhase
      BY <3>1 DEF SkipPhase
    <3>2. CASE EnterPhase
      BY <3>2, CandidatesCounted DEF EnterPhase
    <3>3. CASE Discover
      <4>1. PICK S \in SUBSET Tables :
               IF phase = 5 THEN cands' = S /\ pc' = "discover_max" /\ UNCHANGED << todo, summary, already >>
               ELSE StartRunner(S)
        BY <3>3 DEF Discover
      <4>2. CASE phase = 5
        BY <3>3, <4>1, <4>2 DEF Discover
      <4>3. CASE phase # 5
        BY <3>3, <4>1, <4>3, CandidatesCounted DEF Discover, StartRunner, Mark
      <4> QED
        BY <4>2, <4>3
    <3>4. CASE DiscoverFails
      BY <3>4 DEF DiscoverFails, Fail, QueryError
    <3>5. CASE DiscoverMaxThreshold
      BY <3>5, CandidatesCounted DEF DiscoverMaxThreshold, StartRunner, Mark
    <3> QED
      BY <2>1, <3>1, <3>2, <3>3, <3>4, <3>5 DEF PhaseStep
  <2>2. CASE LoopStep
    <3>1. CASE ListDone
      BY <3>1 DEF ListDone, EndRunner, Mark
    <3>2. CASE LoopFindsClosed
      BY <3>2 DEF LoopFindsClosed, Fail
    <3>3. CASE LoopFindsShutdown
      BY <3>3 DEF LoopFindsShutdown, EndRunner, Mark
    <3>4. ASSUME NEW t \in Tables, PassOver(t) PROVE TypeOK'
      BY <3>4 DEF PassOver, Skipped
    <3>5. ASSUME NEW t \in Tables, TakeTable(t) PROVE TypeOK'
      BY <3>5, RunnerFacts DEF TakeTable
    <3> QED
      BY <2>2, <3>1, <3>2, <3>3, <3>4, <3>5 DEF LoopStep
  <2>3. CASE GateStep
    <3>1. CASE GateNotNeeded
      BY <3>1 DEF GateNotNeeded
    <3>2. CASE GateProceed
      BY <3>2 DEF GateProceed, PassGate
    <3>3. CASE GateDisable
      BY <3>3 DEF GateDisable, PassGate
    <3>4. CASE GateHold
      BY <3>4 DEF GateHold
    <3>5. CASE GateRecovered
      BY <3>5 DEF GateRecovered, PassGate
    <3>6. CASE GateExpired
      BY <3>6 DEF GateExpired, Skipped, NextTable
    <3>7. CASE GateSeesShutdown
      BY <3>7 DEF GateSeesShutdown, EndRunner, Mark
    <3>8. CASE GateQueryFails
      BY <3>8 DEF GateQueryFails, Fail, QueryError
    <3> QED
      BY <2>3, <3>1, <3>2, <3>3, <3>4, <3>5, <3>6, <3>7, <3>8 DEF GateStep
  <2>4. CASE ActiveStep
    <3>1. CASE NoActiveVacuum
      BY <3>1, RetriesAssumption DEF NoActiveVacuum, Proceed, NextTable, StartAttempt, Late
    <3>2. CASE FindActive
      BY <3>2 DEF FindActive, Skipped, NextTable
    <3>3. CASE FindActiveFails
      BY <3>3 DEF FindActiveFails, Fail
    <3>4. CASE TerminateAutovacuum
      BY <3>4 DEF TerminateAutovacuum
    <3>5. CASE GateManual
      BY <3>5, RetriesAssumption DEF GateManual, Skipped, NextTable, Proceed, StartAttempt, Late
    <3>6. CASE TerminateFails
      BY <3>6 DEF TerminateFails, Fail, QueryError
    <3> QED
      BY <2>4, <3>1, <3>2, <3>3, <3>4, <3>5, <3>6 DEF ActiveStep
  <2>5. CASE OperationStep
    <3>1. CASE CountBefore
      BY <3>1 DEF CountBefore, Late
    <3>2. CASE Maintain
      BY <3>2 DEF Maintain, Complete
    <3>3. CASE CountAfter
      BY <3>3 DEF CountAfter
    <3>4. CASE StatementFails
      BY <3>4 DEF StatementFails, StatementErrors
    <3>5. CASE Backoff
      BY <3>5, RetriesAssumption DEF Backoff, MayRetry
    <3>6. CASE GiveUp
      BY <3>6 DEF GiveUp
    <3>7. CASE BackoffElapsed
      BY <3>7 DEF BackoffElapsed, StartAttempt, Late
    <3>8. CASE BackoffInterrupted
      BY <3>8 DEF BackoffInterrupted
    <3> QED
      BY <2>5, <3>1, <3>2, <3>3, <3>4, <3>5, <3>6, <3>7, <3>8 DEF OperationStep
  <2>6. CASE ResultStep
    <3>1. CASE TableSucceeded
      BY <3>1 DEF TableSucceeded, LogRow, NextTable
    <3>2. CASE TableInterrupted
      BY <3>2 DEF TableInterrupted, Skipped, LogRow, EndRunner, Mark
    <3>3. CASE TableLost
      BY <3>3 DEF TableLost, Fail
    <3>4. CASE TableLocked
      BY <3>4 DEF TableLocked, Skipped, NextTable
    <3>5. CASE TableFailed
      BY <3>5 DEF TableFailed, LogRow, NextTable
    <3> QED
      BY <2>6, <3>1, <3>2, <3>3, <3>4, <3>5 DEF ResultStep
  <2>7. CASE Environment
    <3>1. CASE SignalMark
      BY <3>1 DEF SignalMark
    <3>2. CASE SignalSend
      BY <3>2 DEF SignalSend
    <3>3. CASE LoseConnection
      BY <3>3 DEF LoseConnection, Complete
    <3>4. CASE NoticeClosed
      BY <3>4 DEF NoticeClosed
    <3> QED
      BY <2>7, <3>1, <3>2, <3>3, <3>4 DEF Environment
  <2>8. CASE Finish
    BY <2>8 DEF Finish, Fail
  <2>9. CASE ExitWithError
    BY <2>9 DEF ExitWithError, ExitCode
  <2>10. CASE UNCHANGED vars
    BY <2>10 DEF vars
  <2> QED
    BY <2>1, <2>2, <2>3, <2>4, <2>5, <2>6, <2>7, <2>8, <2>9, <2>10 DEF Next, RunStep, Exited
<1> QED
  BY <1>1, <1>2, PTL DEF Spec

-----------------------------------------------------------------------------
(* What a dry run never reaches, which is why it leaves no trace.          *)
DryRunInv ==
    policy.dry_run =>
       /\ pc \notin {"lagwait", "before", "maint", "after", "op_ok", "op_err", "backoff",
                     "classify"}
       /\ effects = {} /\ killed = {} /\ logbook = {}

(* Under --skip-active-vacuum the points where backends are terminated are *)
(* never reached: a busy table is left before them.                        *)
KillsInv ==
    /\ KillsAuthorized
    /\ policy.skip_active_vacuum => pc \notin {"kill", "manual"}

(* The facts the exit code rests on: the flag follows the request, an      *)
(* error that says the session is gone is only made once it is, and the    *)
(* code is fixed in the step that leaves the program.                      *)
ExitInv ==
    /\ ExitCodeFaithful
    /\ shutdown => requested
    /\ err = "lost" => conn # "open"
    /\ exit = -1 <=> pc # "exit"

(* Before the statement of the table in hand is started nothing has been   *)
(* started late, and between tables a shutdown keeps the next from being   *)
(* taken.                                                                  *)
StopInv ==
    /\ lateStarts \in 0..1
    /\ ~shutdown => lateStarts = 0
    /\ pc \in {"discover", "discover_max", "lag", "lagwait", "active", "kill", "manual",
              "before", "backoff"} => lateStarts = 0

ConductInv == DryRunInv /\ KillsInv /\ ExitInv /\ StopInv

(* Every step of a run keeps what is said of dry runs, kills, exit codes   *)
(* and late starts.                                                        *)
LEMMA ConductHolds == Spec => []ConductInv
<1>1. Init => ConductInv
  BY DEF Init, ConductInv, DryRunInv, KillsInv, ExitInv, StopInv, KillsAuthorized, ExitCodeFaithful
<1>2. ConductInv /\ TypeOK /\ [Next]_vars => ConductInv'
  <2> SUFFICES ASSUME ConductInv, TypeOK, [Next]_vars PROVE ConductInv'
    OBVIOUS
  <2> USE DEF ConductInv, DryRunInv, KillsInv, ExitInv, StopInv, KillsAuthorized, ExitCodeFaithful,
             TypeOK, fixed, signals, history
  <2>1. CASE PhaseStep
    <3>1. CASE SkipPhase
      BY <3>1 DEF SkipPhase
    <3>2. CASE EnterPhase
      BY <3>2 DEF EnterPhase
    <3>3. CASE Discover
      BY <3>3 DEF Discover, StartRunner, Mark
    <3>4. CASE DiscoverFails
      BY <3>4 DEF DiscoverFails, Fail, QueryError
    <3>5. CASE DiscoverMaxThreshold
      BY <3>5 DEF DiscoverMaxThreshold, StartRunner, Mark
    <3> QED
      BY <2>1, <3>1, <3>2, <3>3, <3>4, <3>5 DEF PhaseStep
  <2>2. CASE LoopStep
    <3>1. CASE ListDone
      BY <3>1 DEF ListDone, EndRunner, Mark
    <3>2. CASE LoopFindsClosed
      BY <3>2 DEF LoopFindsClosed, Fail
    <3>3. CASE LoopFindsShutdown
      BY <3>3 DEF LoopFindsShutdown, EndRunner, Mark
    <3>4. ASSUME NEW t \in Tables, PassOver(t) PROVE ConductInv'
      BY <3>4 DEF PassOver, Skipped
    <3>5. ASSUME NEW t \in Tables, TakeTable(t) PROVE ConductInv'
      BY <3>5 DEF TakeTable
    <3> QED
      BY <2>2, <3>1, <3>2, <3>3, <3>4, <3>5 DEF LoopStep
  <2>3. CASE GateStep
    <3>1. CASE GateNotNeeded
      BY <3>1 DEF GateNotNeeded
    <3>2. CASE GateProceed
      BY <3>2 DEF GateProceed, PassGate
    <3>3. CASE GateDisable
      BY <3>3 DEF GateDisable, PassGate
    <3>4. CASE GateHold
      BY <3>4 DEF GateHold
    <3>5. CASE GateRecovered
      BY <3>5 DEF GateRecovered, PassGate
    <3>6. CASE GateExpired
      BY <3>6 DEF GateExpired, Skipped, NextTable
    <3>7. CASE GateSeesShutdown
      BY <3>7 DEF GateSeesShutdown, EndRunner, Mark
    <3>8. CASE GateQueryFails
      BY <3>8 DEF GateQueryFails, Fail, QueryError
    <3> QED
      BY <2>3, <3>1, <3>2, <3>3, <3>4, <3>5, <3>6, <3>7, <3>8 DEF GateStep
  <2>4. CASE ActiveStep
    <3>1. CASE NoActiveVacuum
      BY <3>1 DEF NoActiveVacuum, Proceed, NextTable, StartAttempt, Late
    <3>2. CASE FindActive
      BY <3>2 DEF FindActive, Skipped, NextTable
    <3>3. CASE FindActiveFails
      BY <3>3 DEF FindActiveFails, Fail
    <3>4. CASE TerminateAutovacuum
      BY <3>4 DEF TerminateAutovacuum
    <3>5. CASE GateManual
      BY <3>5 DEF GateManual, MayTerminateManual, Skipped, NextTable, Proceed, StartAttempt, Late
    <3>6. CASE TerminateFails
      BY <3>6 DEF TerminateFails, Fail, QueryError
    <3> QED
      BY <2>4, <3>1, <3>2, <3>3, <3>4, <3>5, <3>6 DEF ActiveStep
  <2>5. CASE OperationStep
    <3>1. CASE CountBefore
      BY <3>1 DEF CountBefore, Late
    <3>2. CASE Maintain
      BY <3>2 DEF Maintain, Complete
    <3>3. CASE CountAfter
      BY <3>3 DEF CountAfter
    <3>4. CASE StatementFails
      BY <3>4 DEF StatementFails, StatementErrors
    <3>5. CASE Backoff
      BY <3>5 DEF Backoff, MayRetry
    <3>6. CASE GiveUp
      BY <3>6 DEF GiveUp
    <3>7. CASE BackoffElapsed
      BY <3>7 DEF BackoffElapsed, StartAttempt, Late
    <3>8. CASE BackoffInterrupted
      BY <3>8 DEF BackoffInterrupted
    <3> QED
      BY <2>5, <3>1, <3>2, <3>3, <3>4, <3>5, <3>6, <3>7, <3>8 DEF OperationStep
  <2>6. CASE ResultStep
    <3>1. CASE TableSucceeded
      BY <3>1 DEF TableSucceeded, LogRow, NextTable
    <3>2. CASE TableInterrupted
      BY <3>2 DEF TableInterrupted, Skipped, LogRow, EndRunner, Mark
    <3>3. CASE TableLost
      BY <3>3 DEF TableLost, Fail
    <3>4. CASE TableLocked
      BY <3>4 DEF TableLocked, Skipped, NextTable
    <3>5. CASE TableFailed
      BY <3>5 DEF TableFailed, LogRow, NextTable
    <3> QED
      BY <2>6, <3>1, <3>2, <3>3, <3>4, <3>5 DEF ResultStep
  <2>7. CASE Environment
    <3>1. CASE SignalMark
      BY <3>1 DEF SignalMark
    <3>2. CASE SignalSend
      BY <3>2 DEF SignalSend
    <3>3. CASE LoseConnection
      BY <3>3 DEF LoseConnection, Complete
    <3>4. CASE NoticeClosed
      BY <3>4 DEF NoticeClosed
    <3> QED
      BY <2>7, <3>1, <3>2, <3>3, <3>4 DEF Environment
  <2>8. CASE Finish
    BY <2>8 DEF Finish, Fail
  <2>9. CASE ExitWithError
    BY <2>9 DEF ExitWithError, ExitCode
  <2>10. CASE UNCHANGED vars
    BY <2>10 DEF vars
  <2> QED
    BY <2>1, <2>2, <2>3, <2>4, <2>5, <2>6, <2>7, <2>8, <2>9, <2>10 DEF Next, RunStep, Exited
<1> QED
  BY <1>1, <1>2, TypeCorrect, PTL DEF Spec

(* --dry-run executes nothing, terminates nothing and logs nothing.        *)
THEOREM DryRunSafe == Spec => []DryRunTouchesNothing
<1>1. ConductInv => DryRunTouchesNothing
  BY DEF ConductInv, DryRunInv, DryRunTouchesNothing
<1> QED
  BY <1>1, ConductHolds, PTL

(* No manual VACUUM is terminated without --force, and nothing under       *)
(* --skip-active-vacuum.                                                   *)
THEOREM OnlyAuthorizedKills == Spec => []KillsAuthorized
<1>1. ConductInv => KillsAuthorized
  BY DEF ConductInv, KillsInv
<1> QED
  BY <1>1, ConductHolds, PTL

(* The exit code is true to what happened, on every path to it.            *)
THEOREM ExitCodesFaithful == Spec => []ExitCodeFaithful
<1>1. ConductInv => ExitCodeFaithful
  BY DEF ConductInv, ExitInv
<1> QED
  BY <1>1, ConductHolds, PTL

(* At most one maintenance statement is started after the shutdown flag.   *)
THEOREM PromptStop == Spec => []StopsPromptly
<1>1. ConductInv => StopsPromptly
  BY DEF ConductInv, StopInv, StopsPromptly
<1> QED
  BY <1>1, ConductHolds, PTL

-----------------------------------------------------------------------------
(* What a step can do to the records of a run: the marks, the logbook, the *)
(* counts and the history of completed statements.  Each step is of one of *)
(* these kinds, or takes or completes a table (TakeTable, TableSucceeded). *)

(* The gate, the busy check, an attempt and its errors, the environment.   *)
Prepares ==
    /\ \/ pc' = pc \/ pc' \in {"fail", "exit"}
       \/ pc \in InTable /\ pc' \in InTable \ {"after", "op_ok"}
       \/ pc = "after" /\ pc' = "op_ok"
       \/ policy.skip_locked /\ pc = "maint" /\ pc' \in {"after", "op_ok"}
    /\ UNCHANGED << phase, cands, todo, cur, already, logbook, effects, summary >>

(* The statement of the table in hand completes.                           *)
Works ==
    /\ pc = "maint" /\ pc' \in {"maint", "after", "op_ok"}
    /\ Complete(phase, cur)
    /\ UNCHANGED << phase, cands, todo, cur, already, logbook, summary >>

(* A phase is passed over, or entered.                                     *)
Skips ==
    /\ pc = "phase" /\ pc' = "phase" /\ phase' = phase + 1
    /\ UNCHANGED << cands, todo, cur, already, logbook, effects, summary >>

Enters ==
    /\ pc = "phase" /\ pc' \in {"discover", "loop"} /\ ~shutdown
    /\ pc' = "loop" => ~Block[phase].early
    /\ phase \in Phases
    /\ UNCHANGED << phase, cur, already, logbook, effects >>
    /\ summary' = [summary EXCEPT ![phase].total = Cardinality(cands')]

(* The candidates become known, in phase 5 in two steps.                   *)
Discovers ==
    /\ pc = "discover" /\ pc' = "discover_max"
    /\ UNCHANGED << phase, todo, cur, already, logbook, effects, summary >>

Starts(S) ==
    /\ pc \in {"discover", "discover_max"} /\ pc' = "loop"
    /\ cands' = S
    /\ Mark(IF Block[phase].early THEN Block[phase].marks ELSE {}, S)
    /\ UNCHANGED << phase, cur, logbook, effects >>
    /\ summary' = [summary EXCEPT ![phase].total = Cardinality(S)]

(* The table in hand, or one already done, is left without success; a dry  *)
(* run may not even count it.                                              *)
LeftAside ==
    \/ UNCHANGED summary
    \/ \E o \in {"failed", "skipped"} : summary' = [summary EXCEPT ![phase][o] = @ + 1]

Leaves ==
    /\ pc \in InTable \cup {"loop"} /\ pc' = "loop" /\ todo' \subseteq todo
    /\ logbook \subseteq logbook' /\ \A row \in logbook' \ logbook : row[3] = "error"
    /\ UNCHANGED << phase, cands, already, effects >>
    /\ LeftAside

(* The runner returns, at the end of its list or because of a shutdown.    *)
Ends ==
    /\ pc \in {"loop", "lagwait", "classify"}
    /\ EndRunner
    /\ \/ UNCHANGED logbook
       \/ pc = "classify" /\ shutdown /\ logbook' = logbook \cup {<<phase, cur, "cancelled">>}
    /\ UNCHANGED effects
    /\ LeftAside

Recorded ==
    \/ Prepares \/ Works \/ Skips \/ Enters \/ Discovers \/ Leaves \/ Ends \/ TableSucceeded
    \/ \E S \in SUBSET Tables : Starts(S)
    \/ \E t \in Tables : TakeTable(t)

(* Every step of a run is of one of these kinds, and neither the policy    *)
(* changes nor a shutdown is taken back.                                   *)
LEMMA StepsRecorded ==
    ASSUME TypeOK, [Next]_vars
    PROVE  Recorded /\ UNCHANGED policy /\ (shutdown => shutdown')
<1> USE DEF TypeOK, Phases, Summary, InTable, fixed, signals, history
<1>1. Block[8].early = FALSE
  BY DEF Block, Phase8
<1>2. CASE PhaseStep
  <2>1. CASE SkipPhase
    BY <2>1 DEF SkipPhase, Skips, Recorded
  <2>2. CASE EnterPhase
    BY <2>2, <1>1 DEF EnterPhase, Enters, Recorded
  <2>4. CASE Discover
    <3>1. PICK S \in SUBSET Tables :
             IF phase = 5 THEN cands' = S /\ pc' = "discover_max" /\ UNCHANGED << todo, summary, already >>
             ELSE StartRunner(S)
      BY <2>4 DEF Discover
    <3>2. CASE phase = 5
      BY <2>4, <3>1, <3>2 DEF Discover, Discovers, Recorded
    <3>3. CASE phase # 5
      <4>1. Starts(S)
        BY <2>4, <3>1, <3>3 DEF Discover, Starts, StartRunner
      <4> QED
        BY <2>4, <4>1 DEF Discover, Recorded
    <3> QED
      BY <3>2, <3>3
  <2>5. CASE DiscoverFails
    BY <2>5 DEF DiscoverFails, Fail, Prepares, Recorded
  <2>6. CASE DiscoverMaxThreshold
    <3>1. PICK S \in SUBSET Tables : StartRunner(S)
      BY <2>6 DEF DiscoverMaxThreshold
    <3>2. Starts(S)
      BY <2>6, <3>1 DEF DiscoverMaxThreshold, Starts, StartRunner
    <3> QED
      BY <2>6, <3>2 DEF DiscoverMaxThreshold, Recorded
  <2> QED
    BY <1>2, <2>1, <2>2, <2>4, <2>5, <2>6 DEF PhaseStep
<1>3. CASE LoopStep
  <2>1. CASE ListDone
    BY <2>1 DEF ListDone, Ends, LeftAside, Recorded
  <2>2. CASE LoopFindsClosed
    BY <2>2 DEF LoopFindsClosed, Fail, Prepares, Recorded
  <2>3. CASE LoopFindsShutdown
    BY <2>3 DEF LoopFindsShutdown, Ends, LeftAside, Recorded
  <2>4. ASSUME NEW t \in Tables, PassOver(t) PROVE Leaves /\ UNCHANGED << policy, shutdown >>
    BY <2>4 DEF PassOver, Skipped, Leaves, LeftAside
  <2>5. ASSUME NEW t \in Tables, TakeTable(t) PROVE Recorded /\ UNCHANGED << policy, shutdown >>
    BY <2>5 DEF TakeTable, Recorded
  <2> QED
    BY <1>3, <2>1, <2>2, <2>3, <2>4, <2>5 DEF LoopStep, Recorded
<1>4. CASE GateStep
  <2>1. CASE GateNotNeeded \/ GateProceed \/ GateDisable \/ GateHold \/ GateRecovered \/ GateQueryFails
    BY <2>1 DEF GateNotNeeded, GateProceed, GateDisable, GateHold, GateRecovered, GateQueryFails,
                PassGate, Fail, Prepares, Recorded
  <2>2. CASE GateExpired
    BY <2>2 DEF GateExpired, Skipped, NextTable, Leaves, LeftAside, Recorded
  <2>3. CASE GateSeesShutdown
    BY <2>3 DEF GateSeesShutdown, Ends, LeftAside, Recorded
  <2> QED
    BY <1>4, <2>1, <2>2, <2>3 DEF GateStep
<1>5. CASE ActiveStep
  <2>1. CASE FindActiveFails \/ TerminateAutovacuum \/ TerminateFails
    BY <2>1 DEF FindActiveFails, TerminateAutovacuum, TerminateFails, Fail, Prepares, Recorded
  <2>2. ASSUME pc \in {"active", "manual"}, Proceed,
               UNCHANGED << phase, cands, already, logbook, effects, summary >>
        PROVE  Prepares \/ Leaves
    <3>1. CASE policy.dry_run
      BY <2>2, <3>1 DEF Proceed, NextTable, Leaves, LeftAside
    <3>2. CASE ~policy.dry_run
      BY <2>2, <3>2 DEF Proceed, StartAttempt, Prepares
    <3> QED
      BY <3>1, <3>2
  <2>3. CASE NoActiveVacuum
    BY <2>3, <2>2 DEF NoActiveVacuum, Recorded
  <2>4. CASE FindActive
    <3>1. CASE policy.skip_active_vacuum
      BY <2>4, <3>1 DEF FindActive, Skipped, NextTable, Leaves, LeftAside, Recorded
    <3>2. CASE ~policy.skip_active_vacuum
      BY <2>4, <3>2 DEF FindActive, Prepares, Recorded
    <3> QED
      BY <3>1, <3>2
  <2>5. CASE GateManual
    <3>1. CASE "manual" \in active /\ ~MayTerminateManual
      BY <2>5, <3>1 DEF GateManual, Skipped, NextTable, Leaves, LeftAside, Recorded
    <3>2. CASE ~("manual" \in active /\ ~MayTerminateManual)
      BY <2>5, <3>2, <2>2 DEF GateManual, Recorded
    <3> QED
      BY <3>1, <3>2
  <2> QED
    BY <1>5, <2>1, <2>3, <2>4, <2>5 DEF ActiveStep
<1>6. CASE OperationStep
  <2>1. CASE CountBefore \/ CountAfter \/ StatementFails \/ Backoff \/ GiveUp \/ BackoffElapsed
             \/ BackoffInterrupted
    BY <2>1 DEF CountBefore, CountAfter, StatementFails, Backoff, GiveUp, BackoffElapsed,
                BackoffInterrupted, StartAttempt, Prepares, Recorded
  <2>2. CASE Maintain
    BY <2>2 DEF Maintain, Prepares, Works, Recorded
  <2> QED
    BY <1>6, <2>1, <2>2 DEF OperationStep
<1>7. CASE ResultStep
  <2>1. CASE TableSucceeded
    BY <2>1 DEF TableSucceeded, Recorded
  <2>2. CASE TableInterrupted
    BY <2>2 DEF TableInterrupted, ShutdownInterrupted, Skipped, LogRow, Ends, LeftAside, Recorded
  <2>3. CASE TableLost
    BY <2>3 DEF TableLost, Fail, Prepares, Recorded
  <2>4. CASE TableLocked
    BY <2>4 DEF TableLocked, Skipped, NextTable, Leaves, LeftAside, Recorded
  <2>5. CASE TableFailed
    <3>1. LeftAside
      BY <2>5 DEF TableFailed, LeftAside
    <3> QED
      BY <2>5, <3>1 DEF TableFailed, LogRow, NextTable, Leaves, Recorded
  <2> QED
    BY <1>7, <2>1, <2>2, <2>3, <2>4, <2>5 DEF ResultStep
<1>8. CASE Environment
  <2>1. CASE SignalMark \/ SignalSend \/ NoticeClosed
    BY <2>1 DEF SignalMark, SignalSend, NoticeClosed, Prepares, Recorded
  <2>2. CASE LoseConnection
    BY <2>2 DEF LoseConnection, Prepares, Works, Recorded
  <2> QED
    BY <1>8, <2>1, <2>2 DEF Environment
<1>9. CASE Finish \/ ExitWithError
  BY <1>9 DEF Finish, ExitWithError, Fail, Prepares, Recorded
<1>10. CASE UNCHANGED vars
  BY <1>10 DEF vars, Prepares, Recorded
<1> QED
  BY <1>2, <1>3, <1>4, <1>5, <1>6, <1>7, <1>8, <1>9, <1>10 DEF Next, RunStep, Exited

-----------------------------------------------------------------------------
(* Once a table was cut short by a shutdown, the flag keeps every later    *)
(* phase from being entered: no statement and no second row can follow.    *)
CancelInv ==
    /\ \A done \in effects : done[1] <= phase
    /\ \A row \in logbook : row[3] = "cancelled" =>
          /\ shutdown
          /\ pc \in {"phase", "fail", "exit"}
          /\ \A other \in logbook : other[3] = "cancelled" => other = row
          /\ \A done \in effects : done[1] <= row[1]

(* A logbook row with status cancelled ends the work of a run: a shutdown  *)
(* is on record, there is one such row at most, and no statement of a      *)
(* later phase completed.                                                  *)
THEOREM CancelledRowEndsRun == Spec => []CancelledEndsRun
<1>1. Init => CancelInv
  BY DEF Init, CancelInv
<1>2. TypeOK /\ CancelInv /\ [Next]_vars => CancelInv'
  <2> SUFFICES ASSUME TypeOK, CancelInv, [Next]_vars PROVE CancelInv'
    OBVIOUS
  <2> USE DEF TypeOK, CancelInv, InTable, Phases, Final
  <2>kind. Recorded /\ (shutdown => shutdown')
    BY StepsRecorded
  <2>1. CASE Prepares
    BY <2>kind, <2>1 DEF Prepares
  <2>2. CASE Works
    <3>1. \A row \in logbook : row[3] # "cancelled"
      BY <2>2 DEF Works
    <3> QED
      BY <2>2, <3>1 DEF Works, Complete
  <2>3. CASE Skips
    BY <2>kind, <2>3 DEF Skips
  <2>4. CASE Enters
    BY <2>4 DEF Enters
  <2>5. CASE Discovers
    BY <2>5 DEF Discovers
  <2>6. ASSUME NEW S \in SUBSET Tables, Starts(S) PROVE CancelInv'
    BY <2>6 DEF Starts
  <2>7. CASE Leaves
    BY <2>7 DEF Leaves
  <2>8. CASE Ends
    <3>1. \A row \in logbook : row[3] # "cancelled"
      BY <2>8 DEF Ends
    <3>2. \A row \in logbook' : row[3] = "cancelled" => shutdown /\ row = <<phase, cur, "cancelled">>
      BY <2>8, <3>1 DEF Ends
    <3> QED
      BY <2>kind, <2>8, <3>2 DEF Ends, EndRunner
  <2>9. CASE TableSucceeded
    BY <2>9 DEF TableSucceeded, LogRow, NextTable, history
  <2>10. ASSUME NEW t \in Tables, TakeTable(t) PROVE CancelInv'
    BY <2>10 DEF TakeTable, history
  <2> QED
    BY <2>kind, <2>1, <2>2, <2>3, <2>4, <2>5, <2>6, <2>7, <2>8, <2>9, <2>10 DEF Recorded
<1>3. CancelInv => CancelledEndsRun
  BY DEF CancelInv, CancelledEndsRun
<1> QED
  BY <1>1, <1>2, <1>3, TypeCorrect, PTL DEF Spec

(* The tables of phase p whose statement completed and that are no longer  *)
(* ahead in the list: the ones a success may have been counted for.        *)
Decided(p) == Done(p) \ (IF p = phase THEN todo ELSE {})

NotReached(p) == p > phase \/ (p = phase /\ pc \in {"phase", "discover", "discover_max"})

SuccessInv ==
    ~policy.skip_locked =>
       /\ pc \in {"after", "op_ok"} => <<phase, cur>> \in effects
       /\ \A row \in logbook : row[3] = "success" => <<row[1], row[2]>> \in effects
       /\ \A p \in Phases : summary[p].succeeded <= Cardinality(Decided(p))
       /\ \A p \in Phases : NotReached(p) => summary[p].succeeded = 0

(* A set of tables counts at least as many as a part of it.                *)
LEMMA MoreTables ==
    ASSUME NEW T \in SUBSET Tables, NEW S \in SUBSET T
    PROVE  /\ Cardinality(S) \in Nat /\ Cardinality(T) \in Nat
           /\ Cardinality(S) <= Cardinality(T)
  BY CandidatesCounted, FS_Subset

(* A table that is added to a set counts as one.                           *)
LEMMA OneMoreTable ==
    ASSUME NEW S \in SUBSET Tables, NEW T, NEW t, t \notin S, T = S \cup {t}
    PROVE  Cardinality(T) = Cardinality(S) + 1
  BY CandidatesCounted, FS_AddElement

(* Without SKIP_LOCKED each success row of the logbook, and each table     *)
(* counted as succeeded in a phase, stands for a statement that completed  *)
(* on that table in that phase.                                            *)
THEOREM SuccessesAreReal == Spec => []SuccessIsReal
<1>1. Init => SuccessInv
  <2> SUFFICES ASSUME Init PROVE SuccessInv
    OBVIOUS
  <2>1. ASSUME NEW p \in Phases
        PROVE  summary[p].succeeded = 0 /\ 0 <= Cardinality(Decided(p))
    BY CandidatesCounted DEF Init, Decided, Done
  <2>2. logbook = {} /\ pc \notin {"after", "op_ok"}
    BY DEF Init
  <2> QED
    BY <2>1, <2>2 DEF SuccessInv
<1>2. TypeOK /\ TypeOK' /\ SuccessInv /\ [Next]_vars => SuccessInv'
  <2> SUFFICES ASSUME TypeOK, TypeOK', SuccessInv, [Next]_vars, ~policy.skip_locked
               PROVE  SuccessInv'
    BY StepsRecorded DEF SuccessInv
  <2> USE DEF TypeOK, SuccessInv, InTable, Phases, Final, Summary
  <2>kind. Recorded /\ UNCHANGED policy
    BY StepsRecorded
  <2>types. \A p \in Phases : Decided(p) \in SUBSET Tables /\ Decided(p)' \in SUBSET Tables
    BY DEF Decided, Done
  <2>aside. LeftAside => \A p \in Phases : summary'[p].succeeded = summary[p].succeeded
    BY DEF LeftAside
  (* A count is kept while the tables it stands for only get more.          *)
  <2>counts. ASSUME \A p \in Phases : summary'[p].succeeded = summary[p].succeeded,
                    \A p \in Phases : summary[p].succeeded = 0 \/ Decided(p) \subseteq Decided(p)'
             PROVE  \A p \in Phases : summary'[p].succeeded <= Cardinality(Decided(p)')
    <3> SUFFICES ASSUME NEW p \in Phases PROVE summary'[p].succeeded <= Cardinality(Decided(p)')
      OBVIOUS
    <3>1. Cardinality(Decided(p)') \in Nat
      BY <2>types, CandidatesCounted
    <3>2. CASE summary[p].succeeded = 0
      BY <2>counts, <3>1, <3>2
    <3>3. CASE Decided(p) \subseteq Decided(p)'
      <4>1. Cardinality(Decided(p)) \in Nat /\ Cardinality(Decided(p)) <= Cardinality(Decided(p)')
        BY <2>types, <3>3, MoreTables
      <4>2. summary[p].succeeded \in Nat /\ summary[p].succeeded <= Cardinality(Decided(p))
        OBVIOUS
      <4> QED
        BY <2>counts, <3>1, <4>1, <4>2
    <3> QED
      BY <2>counts, <3>2, <3>3
  <2>1. CASE Prepares
    <3>1. \A p \in Phases : Decided(p) \subseteq Decided(p)'
      BY <2>1 DEF Prepares, Decided, Done
    <3> QED
      BY <2>kind, <2>1, <2>counts, <3>1 DEF Prepares, NotReached
  <2>2. CASE Works
    <3>1. \A p \in Phases : Decided(p) \subseteq Decided(p)'
      BY <2>2 DEF Works, Complete, Decided, Done
    <3> QED
      BY <2>2, <2>counts, <3>1 DEF Works, Complete, NotReached
  <2>3. CASE Skips
    <3>1. \A p \in Phases : summary[p].succeeded = 0 \/ Decided(p) \subseteq Decided(p)'
      BY <2>3 DEF Skips, Decided, Done, NotReached
    <3> QED
      BY <2>3, <2>counts, <3>1 DEF Skips, NotReached
  <2>4. CASE Enters
    <3>1. \A p \in Phases : summary[p].succeeded = 0 \/ Decided(p) \subseteq Decided(p)'
      BY <2>4 DEF Enters, Decided, Done, NotReached
    <3> QED
      BY <2>4, <2>counts, <3>1 DEF Enters, NotReached
  <2>5. CASE Discovers
    <3>1. \A p \in Phases : Decided(p) \subseteq Decided(p)'
      BY <2>5 DEF Discovers, Decided, Done
    <3> QED
      BY <2>5, <2>counts, <3>1 DEF Discovers, NotReached
  <2>6. ASSUME NEW S \in SUBSET Tables, Starts(S) PROVE SuccessInv'
    <3>1. \A p \in Phases : summary[p].succeeded = 0 \/ Decided(p) \subseteq Decided(p)'
      BY <2>6 DEF Starts, Decided, Done, NotReached
    <3>2. \A p \in Phases : summary'[p].succeeded = summary[p].succeeded
      BY <2>6 DEF Starts
    <3> QED
      BY <2>6, <2>counts, <3>1, <3>2 DEF Starts, NotReached
  <2>7. CASE Leaves
    <3>1. \A p \in Phases : Decided(p) \subseteq Decided(p)'
      BY <2>7 DEF Leaves, Decided, Done
    <3> QED
      BY <2>7, <2>aside, <2>counts, <3>1 DEF Leaves, NotReached
  <2>8. CASE Ends
    <3>1. \A p \in Phases : summary[p].succeeded = 0 \/ Decided(p) \subseteq Decided(p)'
      BY <2>8 DEF Ends, EndRunner, Decided, Done, NotReached
    <3> QED
      BY <2>8, <2>aside, <2>counts, <3>1 DEF Ends, EndRunner, NotReached
  <2>9. CASE TableSucceeded
    <3> USE <2>9 DEF TableSucceeded, NextTable, history
    <3>1. phase \in Phases /\ cur \in todo /\ <<phase, cur>> \in effects
      OBVIOUS
    <3>2. Decided(phase)' = Decided(phase) \cup {cur} /\ cur \notin Decided(phase)
      BY <3>1 DEF Decided, Done
    <3>3. summary'[phase].succeeded = summary[phase].succeeded + 1
      BY <3>1
    <3>4. summary'[phase].succeeded <= Cardinality(Decided(phase)')
      <4>1. IsFiniteSet(Decided(phase)) /\ Cardinality(Decided(phase)) \in Nat
        BY <2>types, <3>1, CandidatesCounted
      <4>2. Cardinality(Decided(phase)') = Cardinality(Decided(phase)) + 1
        BY <2>types, <3>1, <3>2, OneMoreTable
      <4> QED
        BY <3>1, <3>3, <4>1, <4>2
    <3>5. ASSUME NEW p \in Phases, p # phase
          PROVE  summary'[p].succeeded <= Cardinality(Decided(p)')
      <4>1. Decided(p)' = Decided(p)
        BY <3>5 DEF Decided, Done
      <4> QED
        BY <3>5, <4>1
    <3>6. \A row \in logbook' : row[3] = "success" => <<row[1], row[2]>> \in effects'
      BY <3>1 DEF LogRow
    <3>7. \A p \in Phases : NotReached(p)' => NotReached(p) /\ p # phase
      BY DEF NotReached
    <3> QED
      BY <3>1, <3>4, <3>5, <3>6, <3>7
  <2>10. ASSUME NEW t \in Tables, TakeTable(t) PROVE SuccessInv'
    <3>1. \A p \in Phases : Decided(p)' = Decided(p)
      BY <2>10 DEF TakeTable, history, Decided, Done
    <3> QED
      BY <2>10, <3>1 DEF TakeTable, history, NotReached
  <2> QED
    BY <2>kind, <2>1, <2>2, <2>3, <2>4, <2>5, <2>6, <2>7, <2>8, <2>9, <2>10 DEF Recorded
<1>3. TypeOK /\ SuccessInv => SuccessIsReal
  <2> SUFFICES ASSUME TypeOK, SuccessInv, ~policy.skip_locked, NEW p \in Phases
               PROVE  summary[p].succeeded <= Cardinality(Done(p))
    BY DEF SuccessInv, SuccessIsReal
  <2>1. Done(p) \in SUBSET Tables /\ Decided(p) \in SUBSET Done(p)
    BY DEF Done, Decided
  <2>2. summary[p].succeeded \in Nat
    BY DEF TypeOK, Summary
  <2> QED
    BY <2>1, <2>2, MoreTables DEF SuccessInv
<1> QED
  BY <1>1, <1>2, <1>3, TypeCorrect, PTL DEF Spec

-----------------------------------------------------------------------------
(* The registers of a phase that a later runner consults are enough: where *)
(* a runner consults none the earlier phase marked, the repetition is one  *)
(* that is allowed.                                                        *)
LEMMA RegistersSuffice ==
    ASSUME NEW p \in Phases, NEW q \in Phases, p < q, Runner[q].consults \notin Block[p].marks
    PROVE  /\ {p, q} \subseteq VacuumPhases => p = 1 /\ q = 3
           /\ Runner[q].work = "analyze" => Runner[p].work = "vacuum"
           /\ q \notin {4, 8}
<1> USE DEF Phases, VacuumPhases
<1>1. /\ Block[1].marks = {"handled", "vacuumed"} /\ Block[2].marks = {"handled", "analyzed"}
      /\ Block[3].marks = {"handled", "vacuumed"} /\ Block[4].marks = {"handled", "vacuumed"}
  BY DEF Block, Phase1, Phase2, Phase3, Phase4
<1>2. /\ Block[5].marks = {"handled", "vacuumed"} /\ Block[6].marks = {"handled"}
      /\ Block[7].marks = {"handled"} /\ Block[8].marks = {}
  BY DEF Block, Phase5, Phase6, Phase7, Phase8
<1>3. /\ Runner[1].work = "vacuum" /\ Runner[2].work = "analyze" /\ Runner[3].work = "vacuum"
      /\ Runner[4].work = "vacuum" /\ Runner[5].work = "vacuum" /\ Runner[6].work = "vacuum"
      /\ Runner[7].work = "analyze" /\ Runner[8].work = "vacuum_analyze"
  BY DEF Runner, run_vacuum_never_vacuumed, run_analyze_never_analyzed, run_freeze_wraparound,
         run_bloat_vacuum, run_needs_vacuum, run_vacuum_overdue, run_analyze_overdue, run_also_tables
<1>4. /\ Runner[1].consults = "none" /\ Runner[2].consults = "none" /\ Runner[3].consults = "none"
      /\ Runner[4].consults = "handled" /\ Runner[5].consults = "vacuumed"
      /\ Runner[6].consults = "vacuumed" /\ Runner[7].consults = "analyzed"
      /\ Runner[8].consults = "handled"
  BY DEF Runner, run_vacuum_never_vacuumed, run_analyze_never_analyzed, run_freeze_wraparound,
         run_bloat_vacuum, run_needs_vacuum, run_vacuum_overdue, run_analyze_overdue, run_also_tables
<1>5. q \in 1..8 /\ p \in 1..7
  OBVIOUS
<1> QED
  BY <1>1, <1>2, <1>3, <1>4, <1>5

(* What a phase marks are registers of matched tables.                     *)
LEMMA MarksAreRegisters == \A p \in Phases : Block[p].marks \in SUBSET Registers
<1>1. \A p \in 1..4 : Block[p].marks \in SUBSET Registers
  BY DEF Block, Registers, Phase1, Phase2, Phase3, Phase4
<1>2. \A p \in 5..8 : Block[p].marks \in SUBSET Registers
  BY DEF Block, Registers, Phase5, Phase6, Phase7, Phase8
<1> QED
  BY <1>1, <1>2 DEF Phases

(* What the registers hold: of an earlier phase, every table it worked on; *)
(* of the current one, if it marks early, every candidate.                 *)
Orderly ==
    /\ \A done \in effects : done[1] <= phase
    /\ pc \in {"phase", "discover", "discover_max"} => \A done \in effects : done[1] < phase

Marked == \A p \in Phases : \A r \in Block[p].marks : p < phase => Done(p) \subseteq already[r]

InList ==
    pc \in InTable \cup {"loop"} =>
       /\ Done(phase) \subseteq cands
       /\ Block[phase].early => \A r \in Block[phase].marks : cands \subseteq already[r]

RegisterInv ==
    /\ Orderly /\ Marked /\ InList
    /\ pc \in InTable => ~AlreadyDone(phase, cur)
    /\ RepeatsOnlyFreeze

(* No table is worked on twice in a run, except that a never-vacuumed      *)
(* table may be vacuumed again by the wraparound FREEZE and that a table   *)
(* may be both vacuumed and analyzed, by phases other than bloat and       *)
(* --also-tables.                                                          *)
THEOREM RepeatsAreFreezes == Spec => []RepeatsOnlyFreeze
<1>1. Init => RegisterInv
  BY DEF Init, RegisterInv, Orderly, Marked, InList, RepeatsOnlyFreeze, Done, InTable
<1>2. TypeOK /\ TypeOK' /\ RegisterInv /\ [Next]_vars => RegisterInv'
  <2> SUFFICES ASSUME TypeOK, TypeOK', RegisterInv, [Next]_vars PROVE RegisterInv'
    OBVIOUS
  <2> USE MarksAreRegisters DEF RegisterInv, InTable, Phases, Final
  <2>kind. Recorded /\ UNCHANGED policy
    BY StepsRecorded
  <2>types. /\ effects \in SUBSET (Phases \X Tables) /\ phase \in 1..9
            /\ pc \in InTable \cup {"discover", "discover_max", "loop"} => phase \in Phases
            /\ pc \in InTable => cur \in cands
            /\ cands \in SUBSET Tables /\ already \in [Registers -> SUBSET Tables]
    BY DEF TypeOK
  <2>same. ASSUME effects' = effects
           PROVE  RepeatsOnlyFreeze' /\ \A p \in Phases : Done(p)' = Done(p)
    BY <2>same DEF RepeatsOnlyFreeze, Done
  <2>kept. ASSUME effects' = effects, phase' = phase,
                  \A r \in Registers : already[r] \subseteq already'[r]
           PROVE  Marked'
    BY <2>kept, <2>same DEF Marked
  <2>none. pc \in {"phase", "discover", "discover_max"} /\ phase \in Phases => Done(phase) = {}
    BY <2>types DEF Orderly, Done
  <2>1. CASE Prepares
    <3> USE <2>1 DEF Prepares
    <3>1. Orderly' /\ Marked' /\ InList'
      BY <2>types, <2>same, <2>kept DEF Orderly, InList
    <3> QED
      BY <3>1, <2>same DEF AlreadyDone
  <2>2. CASE Works
    <3> USE <2>2 DEF Works
    <3>1. phase \in Phases /\ cur \in cands /\ effects' = effects \cup {<<phase, cur>>}
      BY <2>types DEF Complete
    <3>2. ASSUME NEW p \in Phases, p < phase, <<p, cur>> \in effects
          PROVE  Runner[phase].consults \notin Block[p].marks
      <4>1. \A r \in Block[p].marks : cur \in already[r]
        BY <2>types, <3>1, <3>2 DEF Done, Marked
      <4>2. "none" \notin Block[p].marks
        BY DEF Registers
      <4> QED
        BY <4>1, <4>2 DEF AlreadyDone
    <3>3. RepeatsOnlyFreeze'
      <4> SUFFICES ASSUME NEW t \in Tables, NEW p \in Phases, NEW q \in Phases, p < q,
                          <<p, t>> \in effects', <<q, t>> \in effects'
                   PROVE  /\ {p, q} \subseteq VacuumPhases => p = 1 /\ q = 3
                          /\ Runner[q].work = "analyze" => Runner[p].work = "vacuum"
                          /\ q \notin {4, 8}
        BY DEF RepeatsOnlyFreeze
      <4>1. <<p, t>> \in effects
        <5>1. <<q, t>> \in effects \/ q = phase
          BY <3>1
        <5>2. q <= phase
          BY <5>1, <3>1 DEF Orderly
        <5> QED
          BY <5>2, <3>1
      <4>2. CASE <<q, t>> \in effects
        BY <4>1, <4>2 DEF RepeatsOnlyFreeze
      <4>3. CASE q = phase /\ t = cur
        <5>1. Runner[q].consults \notin Block[p].marks
          BY <4>1, <4>3, <3>2
        <5> QED
          BY <5>1, RegistersSuffice
      <4> QED
        BY <3>1, <4>2, <4>3
    <3>4. \A p \in Phases : Done(p)' = IF p = phase THEN Done(p) \cup {cur} ELSE Done(p)
      BY <2>types, <3>1 DEF Done
    <3>5. Orderly'
      BY <2>types, <3>1 DEF Orderly
    <3>6. Marked' /\ InList'
      BY <3>1, <3>4 DEF Marked, InList
    <3> QED
      BY <3>3, <3>5, <3>6 DEF AlreadyDone
  <2>3. CASE Skips
    <3> USE <2>3 DEF Skips
    <3>1. phase \in Phases
      BY DEF TypeOK
    <3>2. \A p \in Phases : p < phase' => p < phase \/ p = phase
      BY <3>1
    <3>3. Marked'
      BY <2>same, <2>none, <3>1, <3>2 DEF Marked
    <3>4. Orderly' /\ InList'
      BY <2>types, <3>1 DEF Orderly, InList
    <3> QED
      BY <2>same, <3>3, <3>4
  <2>4. CASE Enters
    <3> USE <2>4 DEF Enters
    <3>1. Orderly' /\ Marked' /\ InList'
      BY <2>same, <2>kept, <2>none DEF Orderly, InList
    <3> QED
      BY <2>same, <3>1
  <2>5. CASE Discovers
    <3> USE <2>5 DEF Discovers
    <3>1. Orderly' /\ Marked' /\ InList'
      BY <2>same, <2>kept DEF Orderly, InList
    <3> QED
      BY <2>same, <3>1
  <2>6. ASSUME NEW S \in SUBSET Tables, Starts(S) PROVE RegisterInv'
    <3> USE <2>6 DEF Starts
    <3>1. \A r \in Registers : already[r] \subseteq already'[r]
      BY <2>types DEF Mark
    <3>2. Block[phase].early => \A r \in Block[phase].marks : cands' \subseteq already'[r]
      BY <2>types DEF Mark
    <3>3. Orderly' /\ Marked' /\ InList'
      BY <2>types, <2>same, <2>kept, <2>none, <3>1, <3>2 DEF Orderly, InList
    <3> QED
      BY <2>same, <3>3
  <2>7. CASE Leaves
    <3> USE <2>7 DEF Leaves
    <3>1. Orderly' /\ Marked' /\ InList'
      BY <2>same, <2>kept, <2>types DEF Orderly, InList
    <3> QED
      BY <2>same, <3>1
  <2>8. CASE Ends
    <3> USE <2>8 DEF Ends, EndRunner
    <3>1. phase \in Phases
      BY <2>types
    <3>2. \A r \in Registers : already[r] \subseteq already'[r]
      BY <2>types DEF Mark
    <3>3. \A r \in Block[phase].marks : cands \subseteq already'[r]
      <4>1. CASE Block[phase].early
        BY <3>1, <3>2, <4>1 DEF InList
      <4>2. CASE ~Block[phase].early
        BY <2>types, <3>1, <4>2 DEF Mark
      <4> QED
        BY <4>1, <4>2
    <3>4. Marked'
      <4> SUFFICES ASSUME NEW p \in Phases, NEW r \in Block[p].marks, p < phase'
                   PROVE  Done(p) \subseteq already'[r]
        BY <2>same DEF Marked
      <4>1. CASE p = phase
        BY <3>1, <3>3, <4>1 DEF InList
      <4>2. CASE p < phase
        BY <3>2, <4>2 DEF Marked
      <4> QED
        BY <3>1, <4>1, <4>2
    <3>5. Orderly' /\ InList'
      BY <2>types, <3>1 DEF Orderly, InList
    <3> QED
      BY <2>same, <3>4, <3>5
  <2>9. CASE TableSucceeded
    <3> USE <2>9 DEF TableSucceeded, NextTable, history
    <3>1. Orderly' /\ Marked' /\ InList'
      BY <2>same, <2>kept, <2>types DEF Orderly, InList
    <3> QED
      BY <2>same, <3>1
  <2>10. ASSUME NEW t \in Tables, TakeTable(t) PROVE RegisterInv'
    <3> USE <2>10 DEF TakeTable, history
    <3>1. Orderly' /\ Marked' /\ InList'
      BY <2>same, <2>kept, <2>types DEF Orderly, InList
    <3> QED
      BY <2>same, <3>1 DEF AlreadyDone
  <2> QED
    BY <2>kind, <2>1, <2>2, <2>3, <2>4, <2>5, <2>6, <2>7, <2>8, <2>9, <2>10 DEF Recorded
<1>3. RegisterInv => RepeatsOnlyFreeze
  BY DEF RegisterInv
<1> QED
  BY <1>1, <1>2, <1>3, TypeCorrect, PTL DEF Spec

-----------------------------------------------------------------------------
(* MaintenanceRun implements AbstractRun, and what AbstractRun guarantees  *)
(* about the accounts of a run therefore holds of the detailed run.        *)
(*                                                                         *)
(* What the simulation needs beyond TypeOK: a phase has counted nothing    *)
(* before its candidates are known, and the exit code marks the end.       *)
Uncounted(p) == summary[p].succeeded = 0 /\ summary[p].failed = 0 /\ summary[p].skipped = 0

SimulationInv ==
    /\ TypeOK
    /\ exit = -1 <=> pc # "exit"
    /\ \A p \in Phases : NotReached(p) => Uncounted(p)

(* The summary of a phase is empty until the phase is reached.             *)
LEMMA NothingCountedEarly == Spec => []SimulationInv
<1> DEFINE Inv == \A p \in Phases : NotReached(p) => Uncounted(p)
<1>1. Init => Inv
  BY DEF Init, Uncounted
<1>2. TypeOK /\ Inv /\ [Next]_vars => Inv'
  <2> SUFFICES ASSUME TypeOK, Inv, [Next]_vars, NEW p \in Phases, NotReached(p)'
               PROVE  Uncounted(p)'
    OBVIOUS
  <2> USE DEF TypeOK, Phases, Summary, InTable, NotReached, Uncounted
  <2>kind. Recorded
    BY StepsRecorded
  <2>1. CASE Prepares \/ Works \/ Discovers
    BY <2>1 DEF Prepares, Works, Discovers
  <2>2. CASE Skips
    BY <2>2 DEF Skips
  <2>3. CASE Enters
    BY <2>3 DEF Enters
  <2>4. ASSUME NEW S \in SUBSET Tables, Starts(S) PROVE Uncounted(p)'
    BY <2>4 DEF Starts
  <2>5. CASE Leaves
    BY <2>5 DEF Leaves, LeftAside
  <2>6. CASE Ends
    BY <2>6 DEF Ends, EndRunner, LeftAside
  <2>7. CASE TableSucceeded
    BY <2>7 DEF TableSucceeded, NextTable
  <2>8. ASSUME NEW t \in Tables, TakeTable(t) PROVE Uncounted(p)'
    BY <2>8 DEF TakeTable
  <2> QED
    BY <2>kind, <2>1, <2>2, <2>3, <2>4, <2>5, <2>6, <2>7, <2>8 DEF Recorded
<1>3. TypeOK /\ ConductInv /\ Inv => SimulationInv
  BY DEF SimulationInv, ConductInv, ExitInv
<1> QED
  BY <1>1, <1>2, <1>3, TypeCorrect, ConductHolds, PTL DEF Spec

(* The instance carries its own copy of FiniteSets.                        *)
LEMMA SameSets == \A S : A!Cardinality(S) = Cardinality(S) /\ A!IsFiniteSet(S) = IsFiniteSet(S)
  BY DEF Cardinality, A!Cardinality, IsFiniteSet, A!IsFiniteSet

(* How a step of the run looks to the promise: a table leaves the list     *)
(* counted, a phase ends, or nothing happens.                              *)
LEMMA StepKeepsPromise ==
    ASSUME SimulationInv, [Next]_vars
    PROVE  [A!Next]_(A!vars)
<1> USE DEF SimulationInv, NotReached, Uncounted, TypeOK, status, A!vars, A!work, fixed, signals, history
<1> DEFINE Stutter == UNCHANGED A!vars
<1>0. A!Next \/ Stutter => [A!Next]_(A!vars)
  OBVIOUS
<1>1. CASE PhaseStep
  <2>1. CASE SkipPhase
    <3>1. A!PassOver
      BY <2>1 DEF SkipPhase, A!PassOver, Phases, A!Phases
    <3> QED
      BY <3>1, <1>0 DEF A!Next
  <2>2. CASE EnterPhase
    <3>1. cands' \in SUBSET Tables /\ A!Matched(cands')
      BY <2>2, SameSets DEF EnterPhase, A!Matched
    <3>2. A!Begin
      BY <2>2, <3>1 DEF EnterPhase, A!Begin, Phases, A!Phases
    <3> QED
      BY <3>2, <1>0 DEF A!Next
  <2>3. ASSUME NEW S \in SUBSET Tables, StartRunner(S), pc \in {"discover", "discover_max"},
               UNCHANGED << fixed, phase, cur, gates, active, attempt, err, exit, signals,
                            gateOff, conn, logbook, history >>
        PROVE  A!Match
    <3>1. A!Matched(S)
      BY <2>3, SameSets DEF StartRunner, A!Matched
    <3>2. phase \in Phases /\ todo = {}
      BY <2>3 DEF InTable
    <3>3. A!Decided(phase) = 0
      BY <2>3, <3>2 DEF A!Decided
    <3> QED
      BY <2>3, <3>1, <3>2, <3>3 DEF A!Match, StartRunner
  <2>4. CASE Discover
    <3>1. PICK S \in SUBSET Tables :
             IF phase = 5 THEN cands' = S /\ pc' = "discover_max" /\ UNCHANGED << todo, summary, already >>
             ELSE StartRunner(S)
      BY <2>4 DEF Discover
    <3>2. CASE phase = 5
      <4>1. Stutter
        BY <2>4, <3>1, <3>2 DEF Discover
      <4> QED
        BY <4>1, <1>0
    <3>3. CASE phase # 5
      <4>1. A!Match
        BY <2>4, <3>1, <3>3, <2>3 DEF Discover
      <4> QED
        BY <4>1, <1>0 DEF A!Next
    <3> QED
      BY <3>2, <3>3
  <2>5. CASE DiscoverFails
    <3>1. A!Fail
      BY <2>5 DEF DiscoverFails, Fail, A!Fail
    <3> QED
      BY <3>1, <1>0 DEF A!Next
  <2>6. CASE DiscoverMaxThreshold
    <3>1. PICK S \in SUBSET Tables : StartRunner(S)
      BY <2>6 DEF DiscoverMaxThreshold
    <3>2. A!Match
      BY <2>6, <3>1, <2>3 DEF DiscoverMaxThreshold
    <3> QED
      BY <3>2, <1>0 DEF A!Next
  <2> QED
    BY <1>1, <2>1, <2>2, <2>4, <2>5, <2>6 DEF PhaseStep
<1>2. ASSUME NEW t \in todo, NEW o \in {"succeeded", "failed", "skipped"},
             summary' = [summary EXCEPT ![phase][o] = @ + 1],
             todo' = todo \ {t}, pc' = "loop", pc \in InTable \cup {"loop"},
             UNCHANGED << policy, phase, exit, requested, shutdown >>
      PROVE  A!Next
  <2>1. A!Decide(t)
    BY <1>2 DEF A!Decide, A!Outcomes, InTable
  <2> QED
    BY <2>1 DEF A!Next
<1>3. ASSUME EndRunner, pc \in InTable \cup {"loop"}, UNCHANGED << policy, exit, requested, shutdown >>,
             \/ (todo = {} \/ shutdown) /\ UNCHANGED summary
             \/ todo # {} /\ shutdown /\ Skipped
      PROVE  A!Next
  <2>1. A!Leave
    BY <1>3 DEF EndRunner, Skipped, A!Leave, InTable
  <2> QED
    BY <2>1 DEF A!Next
<1>4. ASSUME pc' = "fail", pc \in InTable \cup {"loop"},
             UNCHANGED << policy, phase, todo, summary, exit, requested, shutdown >>
      PROVE  A!Next
  <2>1. A!Fail
    BY <1>4 DEF A!Fail, InTable
  <2> QED
    BY <2>1 DEF A!Next
<1>5. ASSUME pc \in InTable \cup {"loop"}, pc' \in InTable \cup {"loop"},
             UNCHANGED << policy, phase, todo, summary, exit, requested, shutdown >>
      PROVE  Stutter
  BY <1>5 DEF InTable
<1>6. ASSUME policy.dry_run, NEW t \in todo, todo' = todo \ {t}, pc \in InTable, pc' = "loop",
             UNCHANGED << policy, phase, summary, exit, requested, shutdown >>
      PROVE  A!Next
  <2>1. A!Decide(t)
    BY <1>6 DEF A!Decide, InTable
  <2> QED
    BY <2>1 DEF A!Next
<1>7. CASE LoopStep
  <2>1. CASE ListDone \/ LoopFindsShutdown
    BY <2>1, <1>0, <1>3 DEF ListDone, LoopFindsShutdown
  <2>2. CASE LoopFindsClosed
    BY <2>2, <1>0, <1>4 DEF LoopFindsClosed, Fail
  <2>3. ASSUME NEW t \in Tables, PassOver(t) PROVE A!Next
    BY <2>3, <1>2 DEF PassOver, Skipped
  <2>4. ASSUME NEW t \in Tables, TakeTable(t) PROVE Stutter
    BY <2>4, <1>5 DEF TakeTable, InTable
  <2> QED
    BY <1>7, <1>0, <2>1, <2>2, <2>3, <2>4 DEF LoopStep
<1>8. CASE GateStep
  <2>1. CASE GateNotNeeded \/ GateProceed \/ GateDisable \/ GateHold \/ GateRecovered
    BY <2>1, <1>0, <1>5 DEF GateNotNeeded, GateProceed, GateDisable, GateHold, GateRecovered,
                            PassGate, InTable
  <2>2. CASE GateExpired
    BY <2>2, <1>0, <1>2 DEF GateExpired, Skipped, NextTable, InTable
  <2>3. CASE GateSeesShutdown
    BY <2>3, <1>0, <1>3 DEF GateSeesShutdown, InTable
  <2>4. CASE GateQueryFails
    BY <2>4, <1>0, <1>4 DEF GateQueryFails, Fail, InTable
  <2> QED
    BY <1>8, <2>1, <2>2, <2>3, <2>4 DEF GateStep
<1>9. ASSUME Proceed, pc \in {"active", "manual"},
             UNCHANGED << policy, phase, summary, exit, requested, shutdown >>
      PROVE  A!Next \/ Stutter
  <2>1. CASE policy.dry_run
    BY <1>9, <2>1, <1>6 DEF Proceed, NextTable, InTable
  <2>2. CASE ~policy.dry_run
    BY <1>9, <2>2, <1>5 DEF Proceed, StartAttempt, InTable
  <2> QED
    BY <2>1, <2>2
<1>10. CASE ActiveStep
  <2>1. CASE NoActiveVacuum
    BY <2>1, <1>0, <1>9 DEF NoActiveVacuum
  <2>2. CASE FindActive
    <3>1. CASE policy.skip_active_vacuum
      BY <2>2, <3>1, <1>0, <1>2 DEF FindActive, Skipped, NextTable, InTable
    <3>2. CASE ~policy.skip_active_vacuum
      BY <2>2, <3>2, <1>0, <1>5 DEF FindActive, InTable
    <3> QED
      BY <3>1, <3>2
  <2>3. CASE FindActiveFails \/ TerminateFails
    BY <2>3, <1>0, <1>4 DEF FindActiveFails, TerminateFails, Fail, InTable
  <2>4. CASE TerminateAutovacuum
    BY <2>4, <1>0, <1>5 DEF TerminateAutovacuum, InTable
  <2>5. CASE GateManual
    <3>1. CASE "manual" \in active /\ ~MayTerminateManual
      BY <2>5, <3>1, <1>0, <1>2 DEF GateManual, Skipped, NextTable, InTable
    <3>2. CASE ~("manual" \in active /\ ~MayTerminateManual)
      BY <2>5, <3>2, <1>0, <1>9 DEF GateManual
    <3> QED
      BY <3>1, <3>2
  <2> QED
    BY <1>10, <2>1, <2>2, <2>3, <2>4, <2>5 DEF ActiveStep
<1>11. CASE OperationStep
  BY <1>11, <1>0, <1>5 DEF OperationStep, CountBefore, Maintain, CountAfter, StatementFails,
         Backoff, GiveUp, BackoffElapsed, BackoffInterrupted, StartAttempt, InTable
<1>12. CASE ResultStep
  <2>1. CASE TableSucceeded
    BY <2>1, <1>0, <1>2 DEF TableSucceeded, NextTable, InTable
  <2>2. CASE TableInterrupted
    BY <2>2, <1>0, <1>3 DEF TableInterrupted, ShutdownInterrupted, InTable
  <2>3. CASE TableLost
    BY <2>3, <1>0, <1>4 DEF TableLost, Fail, InTable
  <2>4. CASE TableLocked
    BY <2>4, <1>0, <1>2 DEF TableLocked, Skipped, NextTable, InTable
  <2>5. CASE TableFailed
    BY <2>5, <1>0, <1>2 DEF TableFailed, NextTable, InTable
  <2> QED
    BY <1>12, <2>1, <2>2, <2>3, <2>4, <2>5 DEF ResultStep
<1>13. CASE Environment
  <2>1. CASE SignalMark
    <3>1. A!Request
      BY <2>1 DEF SignalMark, A!Request
    <3> QED
      BY <3>1, <1>0 DEF A!Next
  <2>2. CASE SignalSend
    <3>1. A!Stop
      BY <2>2 DEF SignalSend, A!Stop
    <3> QED
      BY <3>1, <1>0 DEF A!Next
  <2>3. CASE LoseConnection \/ NoticeClosed
    BY <2>3, <1>0 DEF LoseConnection, NoticeClosed
  <2> QED
    BY <1>13, <2>1, <2>2, <2>3 DEF Environment
<1>14. CASE Finish
  <2>1. AnyFailed <=> A!AnyFailed
    BY DEF AnyFailed, A!AnyFailed, Phases, A!Phases
  <2>2. CASE shutdown \/ ~AnyFailed
    <3>1. A!End
      BY <1>14, <2>1, <2>2 DEF Finish, A!End, Final
    <3> QED
      BY <3>1, <1>0 DEF A!Next
  <2>3. CASE ~shutdown /\ AnyFailed
    <3>1. A!Fail
      BY <1>14, <2>1, <2>3 DEF Finish, Fail, A!Fail, Final
    <3> QED
      BY <3>1, <1>0 DEF A!Next
  <2> QED
    BY <2>2, <2>3
<1>15. CASE ExitWithError
  <2>1. A!Abort
    BY <1>15 DEF ExitWithError, ExitCode, A!Abort
  <2> QED
    BY <2>1, <1>0 DEF A!Next
<1>16. CASE UNCHANGED vars
  BY <1>16, <1>0 DEF vars
<1> QED
  BY <1>1, <1>7, <1>8, <1>10, <1>11, <1>12, <1>13, <1>14, <1>15, <1>16 DEF Next, RunStep, Exited

(* Every run is a run of AbstractRun: tables are decided one by one, each  *)
(* counted once, a phase is cut short for a shutdown only, and the exit    *)
(* code is that of the end the run met.                                    *)
THEOREM RunKeepsPromise == Spec => KeepsPromise
<1>1. Init => A!Init
  BY SetupsAssumption DEF Init, A!Init, status, Phases, A!Phases, Policy
<1> QED
  BY <1>1, StepKeepsPromise, NothingCountedEarly, PTL DEF Spec, KeepsPromise, A!Spec

(* What --verbose reports as the total of a phase is the number of its     *)
(* candidates, for as long as the runner works on them.                    *)
TotalInv == pc \in InTable \cup {"loop"} => summary[phase].total = Cardinality(cands)

(* Discover counts its candidates, and no step of the table loop changes   *)
(* them.                                                                   *)
LEMMA TotalIsCandidates == Spec => []TotalInv
<1>1. Init => TotalInv
  BY DEF Init, TotalInv, InTable
<1>2. TypeOK /\ TotalInv /\ [Next]_vars => TotalInv'
  <2> SUFFICES ASSUME TypeOK, TotalInv, [Next]_vars PROVE TotalInv'
    OBVIOUS
  <2> USE DEF TotalInv, InTable, Summary
  <2>kind. Recorded
    BY StepsRecorded
  <2>types. /\ summary \in [Phases -> Summary]
            /\ pc \in InTable \cup {"discover", "discover_max", "loop"} => phase \in Phases
    BY DEF TypeOK
  <2>1. CASE Prepares \/ Works
    BY <2>1 DEF Prepares, Works
  <2>2. CASE Skips \/ Discovers \/ Ends
    BY <2>2 DEF Skips, Discovers, Ends, EndRunner
  <2>3. CASE Enters
    BY <2>3, <2>types DEF Enters
  <2>4. ASSUME NEW S \in SUBSET Tables, Starts(S) PROVE TotalInv'
    BY <2>4, <2>types DEF Starts
  <2>5. CASE Leaves
    BY <2>5, <2>types DEF Leaves, LeftAside
  <2>6. CASE TableSucceeded
    BY <2>6, <2>types DEF TableSucceeded, NextTable
  <2>7. ASSUME NEW t \in Tables, TakeTable(t) PROVE TotalInv'
    BY <2>7 DEF TakeTable
  <2> QED
    BY <2>kind, <2>1, <2>2, <2>3, <2>4, <2>5, <2>6, <2>7 DEF Recorded
<1> QED
  BY <1>1, <1>2, TypeCorrect, PTL DEF Spec

(* No table a phase matched is lost or counted twice, on any of the ways   *)
(* out of the loop body.                                                   *)
THEOREM EveryTableAccounted == Spec => []SummaryAccounts
<1>1. A!Spec => []A!Accounts
  BY TablesAssumption, SameSets, A!AccountsHold
<1>2. /\ TypeOK
      /\ A!Accounts
      /\ TotalInv
      => SummaryAccounts
  BY SameSets DEF SummaryAccounts, TotalInv, A!Accounts, Counted, A!Decided, status, InTable, Phases,
        A!Phases, TypeOK
<1> QED
  BY <1>1, <1>2, RunKeepsPromise, TypeCorrect, TotalIsCandidates, PTL DEF KeepsPromise
=============================================================================
