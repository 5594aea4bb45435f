--------------------------- MODULE ShutdownWatcher ---------------------------
(***************************************************************************)
(* shutdown.rs: the watcher task that stops the statement in progress when *)
(* a signal arrives, together with the two parties it races with: the      *)
(* signal handlers of main.rs and the maintenance session.                 *)
(*                                                                         *)
(* The session is the stream of statements run() issues: the discovery     *)
(* queries of the phases and, for each table, the replication-lag reads,   *)
(* the search for active vacuums and their termination, the counts around  *)
(* the VACUUM or the ANALYZE, the xmin query and the logbook INSERT, each  *)
(* of which may be left out, fail or be repeated as the runners allow, with *)
(* idle moments in between.  The watcher reads pg_stat_activity in one     *)
(* statement and acts in another, and the session moves on in the          *)
(* meantime.                                                               *)
(***************************************************************************)
EXTENDS Integers

CONSTANTS
    Modes,          \* values of --shutdown-mode explored
    Tables,         \* how many tables the run still has to maintain
    MaxRepeats,     \* bound on the statements issued again: lag reads, kills, retries, discoveries
    MaxSignals,     \* bound on the signals sent
    PollAttempts    \* POLL_ATTEMPTS

ShutdownModes == {"cancel", "terminate", "finish"}

ASSUME ModesAssumption == Modes \subseteq ShutdownModes
ASSUME CountsAssumption ==
    Tables \in Nat /\ MaxRepeats \in Nat /\ MaxSignals \in Nat /\ PollAttempts \in Nat \ {0}

VARIABLES
    (* Configuration: the mode, and whether the control connection always works  *)
    (* and short statements always end between two polls.                        *)
    mode, reliable,
    (* The session: statement it is at, whether it is running, whether run()     *)
    (* sleeps before it, the query_start in pg_stat_activity, the interrupt the  *)
    (* backend has been sent, whether it lives, the tables and repeats left.     *)
    pos, running, waiting, query_start, interrupt, alive, left, repeats,
    (* The signal handlers: signals caught, signals forwarded, the shutdown flag *)
    (* and the channel.                                                          *)
    caught, forwarded, flag, channel,
    (* The watcher: control point, signal count, control connection, polls left, *)
    (* query_start of the target (0 without one) and, while it sleeps, whether   *)
    (* the session is still at the statement of the last poll.                   *)
    wpc, count, connected, polls, target, seen,
    (* History: what was acted on, the position of the target, cancel requests,  *)
    (* tables begun, tables begun when an interrupt was sent, and tables an      *)
    (* interrupt left without their logbook row.                                 *)
    acted, targetPos, cancels, begun, hit, lost

session == << pos, running, waiting, query_start, interrupt, alive, left, repeats, begun, lost >>
handlers == << caught, forwarded, flag >>
watcher == << wpc, count, connected, polls, target, targetPos >>
others == << mode, reliable, handlers, channel, watcher, acted, cancels, hit >>
vars == << mode, reliable, pos, running, waiting, query_start, interrupt, alive, left, repeats,
           caught, forwarded, flag, channel, wpc, count, connected, polls, target, seen,
           acted, targetPos, cancels, begun, hit, lost >>

(* discover stands for a phase's candidate query, lag for a read of        *)
(* pg_stat_replication, check for the search for active vacuums, kill for  *)
(* one termination of them, count and recount for n_dead_tup before and    *)
(* after the VACUUM, analyze for the operations without counts (ANALYZE,   *)
(* VACUUM (FREEZE)), xmin for the blocker query and log for the logbook    *)
(* INSERT.                                                                 *)
Maintenance == {"vacuum", "analyze"}
Operation == Maintenance \cup {"count", "recount"}
Gates == {"lag", "check", "kill"}
Statements == {"discover", "xmin", "log"} \cup Gates \cup Operation

(* loop is the top of a runner's loop or the start of a phase, done the    *)
(* end of the process.                                                     *)
Positions == Statements \cup {"loop", "done"}

(* What may follow when a statement succeeds: a gate repeats itself, lets  *)
(* the table pass or skips it (dry-run tables end there too).              *)
After == [discover |-> {"loop"},
          lag |-> {"lag", "check", "loop"},
          check |-> {"kill", "count", "analyze", "loop"},
          kill |-> {"kill", "count", "analyze", "loop"},
          count |-> {"vacuum"}, vacuum |-> {"recount"}, recount |-> {"xmin", "log"},
          analyze |-> {"log"}, xmin |-> {"log"}, log |-> {"loop"}]

(* What may follow an error of the server's own: candidate queries and     *)
(* gates pass it on with ?, a failed operation is recorded unless it was   *)
(* lock_timeout, and the xmin query's and the INSERT's are ignored.        *)
AfterError(p) ==
    CASE p \in Gates \cup {"discover"} -> {"done"}
      [] p \in Operation -> {"log", "loop"}
      [] p = "xmin" -> {"log"}
      [] OTHER -> {"loop"}

TypeOK ==
    /\ mode \in ShutdownModes /\ reliable \in BOOLEAN
    /\ pos \in Positions /\ running \in BOOLEAN /\ waiting \in BOOLEAN /\ alive \in BOOLEAN
    /\ running => pos \in Statements /\ alive /\ ~waiting
    /\ waiting => pos \in {"lag", "count", "analyze"}
    /\ query_start \in 0..2
    /\ interrupt \in {"none", "cancel", "term"}
    /\ left \in 0..Tables /\ begun = Tables - left /\ repeats \in 0..MaxRepeats
    /\ forwarded \in 0..caught /\ caught \in 0..MaxSignals
    /\ flag \in BOOLEAN
    /\ channel \in 0..MaxSignals
    /\ wpc \in {"recv", "connect", "poll", "sleep", "cancel", "grace", "recheck", "terminate"}
    /\ count \in 0..MaxSignals /\ count + channel = forwarded
    /\ connected \in BOOLEAN
    /\ polls \in 0..PollAttempts
    /\ wpc \in {"poll", "sleep"} => polls > 0
    /\ target \in 0..2
    /\ seen \in BOOLEAN /\ targetPos \in Positions
    /\ acted \in SUBSET ({"cancel", "terminate"} \X {"maintenance", "other", "idle"})
    /\ cancels \in Nat
    /\ hit \in SUBSET (0..Tables) /\ lost \in Nat

Init ==
    /\ mode \in Modes /\ reliable \in BOOLEAN
    /\ pos = "discover" /\ running = FALSE /\ waiting = FALSE /\ query_start = 0
    /\ interrupt = "none" /\ alive = TRUE /\ left = Tables /\ repeats = MaxRepeats
    /\ caught = 0 /\ forwarded = 0 /\ flag = FALSE /\ channel = 0
    /\ wpc = "recv" /\ count = 0 /\ connected = FALSE /\ polls = 0
    /\ target = 0 /\ seen = FALSE /\ targetPos = "loop"
    /\ acted = {} /\ cancels = 0 /\ begun = 0 /\ hit = {} /\ lost = 0

-----------------------------------------------------------------------------
(* The signal handlers: the flag first, the watcher's channel second.      *)

(* Mutant: the watcher is told before the flag is set.                     *)
CatchSignalUnflagged ==
    /\ pos # "done" /\ caught < MaxSignals
    /\ caught' = caught + 1
    /\ flag' = (caught > 0)
    /\ UNCHANGED << mode, reliable, session, forwarded, channel, watcher, seen, acted, cancels, hit >>

CatchSignal ==
    /\ pos # "done" /\ caught < MaxSignals
    /\ caught' = caught + 1
    /\ flag' = TRUE
    /\ UNCHANGED << mode, reliable, session, forwarded, channel, watcher, seen, acted, cancels, hit >>

ForwardSignal ==
    /\ pos # "done" /\ forwarded < caught
    /\ forwarded' = forwarded + 1
    /\ channel' = channel + 1
    /\ UNCHANGED << mode, reliable, session, caught, flag, watcher, seen, acted, cancels, hit >>

-----------------------------------------------------------------------------
(* The maintenance session.                                                *)

(* Mutant: the runner's loop does not look at the shutdown flag.           *)
LoopTopDeaf ==
    /\ pos = "loop"
    /\ IF ~alive
         THEN pos' = "done" /\ UNCHANGED << left, begun, repeats >>
         ELSE \/ left = 0 /\ pos' = "done" /\ UNCHANGED << left, begun, repeats >>
              \/ /\ left > 0 /\ pos' \in {"lag", "check"}
                 /\ left' = left - 1 /\ begun' = begun + 1 /\ UNCHANGED repeats
    /\ UNCHANGED << others, seen, running, waiting, query_start, interrupt, alive, lost >>

(* The runner's loop: is_closed, then the shutdown flag, then the table,   *)
(* or the next phase.                                                      *)
LoopTop ==
    /\ pos = "loop"
    /\ IF ~alive \/ flag
         THEN pos' = "done" /\ UNCHANGED << left, begun, repeats >>
         ELSE \/ left = 0 /\ pos' = "done" /\ UNCHANGED << left, begun, repeats >>
              \/ /\ left > 0 /\ pos' \in {"lag", "check"}
                 /\ left' = left - 1 /\ begun' = begun + 1 /\ UNCHANGED repeats
              \/ /\ repeats > 0 /\ pos' = "discover"
                 /\ repeats' = repeats - 1 /\ UNCHANGED << left, begun >>
    /\ UNCHANGED << others, seen, running, waiting, query_start, interrupt, alive, lost >>

(* The time a statement starts, which is told apart from the only time it  *)
(* is ever compared with, the target's.                                    *)
FreshStart == CHOOSE start \in 1..2 : start # target

Issue ==
    /\ pos \in Statements /\ ~running /\ ~waiting /\ alive
    /\ running' = TRUE
    /\ query_start' = FreshStart
    /\ UNCHANGED << others, seen, pos, waiting, interrupt, alive, left, repeats, begun, lost >>

(* A statement ends by itself, perhaps just before a cancel request is     *)
(* noticed, which then has no effect.                                      *)
Ends ==
    /\ running /\ alive
    /\ running' = FALSE /\ seen' = FALSE
    /\ interrupt' = IF interrupt = "term" THEN "term" ELSE "none"
    /\ UNCHANGED << others, query_start, alive, left, begun, lost >>

(* A second lag read comes after a sleep of poll_interval_seconds.         *)
Complete ==
    /\ Ends
    /\ pos' \in After[pos]
    /\ IF pos' = pos THEN repeats > 0 /\ repeats' = repeats - 1 ELSE UNCHANGED repeats
    /\ waiting' = (pos' = "lag")

(* An error that no interrupt caused.                                      *)
Fail ==
    /\ Ends
    /\ pos' \in AfterError(pos)
    /\ UNCHANGED << waiting, repeats >>

(* with_lock_timeout_retry: the whole operation again after the back-off,  *)
(* its count included.                                                     *)
LockTimeoutRetry ==
    /\ pos \in Operation /\ ~flag /\ repeats > 0
    /\ Ends
    /\ pos' = IF pos = "analyze" THEN "analyze" ELSE "count"
    /\ waiting' = TRUE /\ repeats' = repeats - 1

(* A sleep ends by its timer or by the shutdown flag, and both may be      *)
(* ready: the lag gate then breaks the runner's loop, the back-off skips   *)
(* the table.                                                              *)
Woken ==
    /\ waiting
    /\ waiting' = FALSE
    /\ \/ UNCHANGED pos
       \/ flag /\ pos' = IF pos = "lag" THEN "done" ELSE "loop"
    /\ UNCHANGED << others, seen, running, query_start, interrupt, alive, left, repeats, begun, lost >>

(* Mutant: a cancelled operation is left out of the logbook.               *)
AfterCancelUnrecorded == IF pos \in Gates \cup {"discover"} THEN "done" ELSE "loop"

AfterCancel == CASE pos \in Gates \cup {"discover"} -> "done"
                 [] pos = "log" -> "loop"
                 [] OTHER -> "log"

(* QUERY_CANCELED.  A cancelled catalog query aborts the run, a cancelled  *)
(* operation is recorded and ends the runner, a cancelled xmin query or    *)
(* logbook INSERT goes unnoticed.                                          *)
Cancelled ==
    /\ running /\ alive /\ interrupt = "cancel"
    /\ running' = FALSE /\ interrupt' = "none" /\ seen' = FALSE
    /\ pos' = AfterCancel
    /\ lost' = IF pos \in Gates \/ (pos # "discover" /\ pos' = "loop") THEN lost + 1 ELSE lost
    /\ UNCHANGED << others, waiting, query_start, alive, left, repeats, begun >>

(* The backend obeys a terminate request whenever it next looks, idle or   *)
(* not.                                                                    *)
Die ==
    /\ alive /\ interrupt = "term"
    /\ alive' = FALSE /\ running' = FALSE
    /\ UNCHANGED << others, seen, pos, waiting, query_start, interrupt, left, repeats, begun, lost >>

(* With the session gone every statement fails, and no row is written.     *)
FindDead ==
    /\ ~alive /\ ~waiting /\ pos \in Statements
    /\ pos' = CASE pos \in Gates \cup {"discover"} -> "done"
                 [] pos = "xmin" -> "log"
                 [] OTHER -> "loop"
    /\ seen' = FALSE
    /\ lost' = IF pos \in {"discover", "xmin"} THEN lost ELSE lost + 1
    /\ UNCHANGED << others, running, waiting, query_start, interrupt, alive, left, repeats, begun >>

-----------------------------------------------------------------------------
(* The watcher, until the process exits.                                   *)

(* In finish mode no watcher is spawned.                                   *)
Watching == pos # "done" /\ mode # "finish"

(* Mutant: a signal taken while waiting is not counted.                    *)
TakeSignalUncounted == channel > 0 /\ channel' = channel - 1 /\ UNCHANGED count

TakeSignal == channel > 0 /\ channel' = channel - 1 /\ count' = count + 1

Receive ==
    /\ Watching /\ wpc = "recv"
    /\ TakeSignal
    /\ IF connected THEN wpc' = "poll" /\ polls' = PollAttempts
       ELSE wpc' = "connect" /\ UNCHANGED polls
    /\ UNCHANGED << mode, reliable, session, handlers, connected, target, seen, targetPos,
                    acted, cancels, hit >>

Connect ==
    /\ Watching /\ wpc = "connect"
    /\ connected' = TRUE /\ wpc' = "poll" /\ polls' = PollAttempts
    /\ UNCHANGED << mode, reliable, session, handlers, channel, count, target, seen,
                    targetPos, acted, cancels, hit >>

(* No control connection, or a failed query on it: back to the channel,    *)
(* the run finishes its current table.                                     *)
ControlFails ==
    /\ Watching /\ ~reliable
    /\ wpc \in {"connect", "poll", "recheck", "terminate"}
    /\ wpc' = "recv" /\ target' = 0
    /\ UNCHANGED << mode, reliable, session, handlers, channel, count, connected, polls,
                    seen, targetPos, acted, cancels, hit >>

(* Mutant: the kind of statement is not looked at.                         *)
WorthActingAnything == running /\ alive

WorthActing == running /\ alive /\ (count >= 2 \/ pos \in Maintenance)

(* Mutant: only the third signal terminates at once.                       *)
PlanLate == IF mode = "terminate" \/ count >= 3 THEN "terminate" ELSE "cancel"

(* plan_action, for a backend with a statement worth acting on.            *)
Plan == IF mode = "terminate" \/ count >= 2 THEN "terminate" ELSE "cancel"

(* One read of pg_stat_activity by the polling loop of handle_signal.      *)
Poll ==
    /\ Watching /\ wpc = "poll"
    /\ polls' = polls - 1
    /\ IF WorthActing
         THEN target' = query_start /\ targetPos' = pos /\ wpc' = Plan /\ UNCHANGED seen
         ELSE /\ IF polls > 1 THEN wpc' = "sleep" /\ seen' = TRUE ELSE wpc' = "recv" /\ UNCHANGED seen
              /\ UNCHANGED << target, targetPos >>
    /\ UNCHANGED << mode, reliable, session, handlers, channel, count, connected, acted, cancels, hit >>

(* What POLL_INTERVAL is chosen for: a catalog query or a count that a     *)
(* poll saw, or saw coming, has ended by the next poll.  A slow server     *)
(* (~reliable) may show the same short statement to all the polls.         *)
MovedOn == ~seen \/ pos = "done" \/ (pos \in Maintenance /\ running)

SleepEnds ==
    /\ Watching /\ wpc = "sleep"
    /\ reliable => MovedOn
    /\ wpc' = "poll" /\ seen' = FALSE
    /\ UNCHANGED << mode, reliable, session, handlers, channel, count, connected, polls,
                    target, targetPos, acted, cancels, hit >>

SignalInSleep ==
    /\ Watching /\ wpc = "sleep"
    /\ TakeSignal
    /\ wpc' = "poll" /\ seen' = FALSE
    /\ UNCHANGED << mode, reliable, session, handlers, connected, polls, target,
                    targetPos, acted, cancels, hit >>

(* What an interrupt meets.                                                *)
Doing == IF ~running THEN "idle" ELSE IF pos \in Maintenance THEN "maintenance" ELSE "other"

(* pg_cancel_backend: it reaches whatever statement is running by now.     *)
Cancel ==
    /\ Watching /\ wpc = "cancel"
    /\ \/ IF running /\ alive
            THEN /\ interrupt' = IF interrupt = "term" THEN "term" ELSE "cancel"
                 /\ acted' = acted \cup {<<"cancel", Doing>>}
                 /\ hit' = hit \cup {begun}
            ELSE UNCHANGED << interrupt, acted, hit >>
       \/ ~reliable /\ UNCHANGED << interrupt, acted, hit >>
    /\ cancels' = cancels + 1
    /\ wpc' = "grace"
    /\ UNCHANGED << mode, reliable, pos, running, waiting, query_start, alive, left, repeats,
                    begun, lost, handlers, channel, count, connected, polls, target, seen,
                    targetPos >>

GraceEnds ==
    /\ Watching /\ wpc = "grace"
    /\ wpc' = "recheck"
    /\ UNCHANGED << mode, reliable, session, handlers, channel, count, connected, polls,
                    target, seen, targetPos, acted, cancels, hit >>

SignalInGrace ==
    /\ Watching /\ wpc = "grace"
    /\ TakeSignal
    /\ wpc' = "terminate" /\ target' = 0
    /\ UNCHANGED << mode, reliable, session, handlers, connected, polls, seen,
                    targetPos, acted, cancels, hit >>

(* Mutants: any active statement is taken for the cancelled one; the       *)
(* comparison never succeeds.                                              *)
SameStatementAny == alive /\ running
SameStatementNever == FALSE

SameStatement == alive /\ running /\ query_start = target

Recheck ==
    /\ Watching /\ wpc = "recheck"
    /\ wpc' = IF SameStatement THEN "terminate" ELSE "recv"
    /\ target' = 0
    /\ UNCHANGED << mode, reliable, session, handlers, channel, count, connected, polls,
                    seen, targetPos, acted, cancels, hit >>

(* pg_terminate_backend: it reaches the session whatever it is doing.      *)
Terminate ==
    /\ Watching /\ wpc = "terminate"
    /\ wpc' = "recv" /\ target' = 0
    /\ IF alive
         THEN /\ interrupt' = "term"
              /\ acted' = acted \cup {<<"terminate", Doing>>}
              /\ hit' = hit \cup {begun}
         ELSE UNCHANGED << interrupt, acted, hit >>
    /\ UNCHANGED << mode, reliable, pos, running, waiting, query_start, alive, left, repeats,
                    begun, lost, handlers, channel, count, connected, polls, seen,
                    targetPos, cancels >>

-----------------------------------------------------------------------------
ShortStep ==
    LoopTop \/ Issue \/ (pos \notin Maintenance /\ (Complete \/ Fail)) \/ Woken \/ FindDead
SessionStep ==
    \/ LoopTop \/ Issue \/ Complete \/ Fail \/ LockTimeoutRetry \/ Woken
    \/ Cancelled \/ Die \/ FindDead
HandlerStep == CatchSignal \/ ForwardSignal
WatcherStep ==
    \/ Receive \/ Connect \/ ControlFails \/ Poll \/ SleepEnds \/ SignalInSleep
    \/ Cancel \/ GraceEnds \/ SignalInGrace \/ Recheck \/ Terminate

Exited == pos = "done" /\ UNCHANGED vars

Next == SessionStep \/ HandlerStep \/ WatcherStep \/ Exited

Spec == Init /\ [][Next]_vars

(* The short statements and the sleeps end, a terminated backend dies and  *)
(* the two tasks are scheduled; that a VACUUM ends or notices a cancel     *)
(* request is not assumed.                                                 *)
FairSpec ==
    /\ Spec
    /\ WF_vars(ShortStep) /\ WF_vars(Die)
    /\ WF_vars(ForwardSignal) /\ WF_vars(WatcherStep)

-----------------------------------------------------------------------------
(* Properties.                                                             *)

(* The session is never interrupted before the shutdown flag is set, or    *)
(* classify_op_error would count the cancelled table as failed, or abort   *)
(* the run as a lost connection.                                           *)
FlagBeforeInterrupt == acted # {} => flag

(* A single signal acts only through a poll that saw a VACUUM or ANALYZE   *)
(* running; in cancel mode it terminates only after one cancel request and *)
(* a grace period, while the statement then seen is still running.         *)
OneSignalIsCareful ==
    count = 1 =>
       /\ acted # {} => targetPos \in Maintenance
       /\ wpc = "terminate" => targetPos \in Maintenance /\ (mode = "cancel" => cancels = 1)
       /\ mode = "cancel" => \A act \in acted : act[1] = "terminate" => cancels = 1

(* Escalation after the grace period never takes a later statement for the *)
(* cancelled one.                                                          *)
EscalatesOnTarget ==
    [][wpc = "recheck" /\ wpc' = "terminate" => query_start = target /\ pos = targetPos]_vars

(* The polite request is made once per run: whatever is signalled later    *)
(* terminates.                                                             *)
CancelOnce == cancels <= 1

(* Whatever the number of signals, one table at most is disturbed, the     *)
(* last one begun, and at most one is left without its logbook row; none   *)
(* is as long as the watcher only cancels, and only what it aims at.       *)
OneTableDisturbed ==
    /\ hit \subseteq {begun} /\ lost <= 1
    /\ acted \subseteq {<<"cancel", "maintenance">>} => lost = 0

(* In cancel and terminate mode a signal ends the run even if the VACUUM   *)
(* in progress, or the one about to start, would never end and ignores the *)
(* cancel request.  Every further signal that cuts a sleep between polls   *)
(* short costs one of the POLL_ATTEMPTS: with one the eight still reach    *)
(* the VACUUM, and nothing is promised from the third signal on.           *)
SignalEndsRun == (caught > 0 /\ reliable /\ mode # "finish") ~> (pos = "done" \/ caught > 2)

-----------------------------------------------------------------------------
(* shutdown.rs and README: only a running VACUUM or ANALYZE is ever acted  *)
(* on; an idle session and the logbook work are left alone.                *)
OnlyMaintenanceActedOn == \A act \in acted : act[2] = "maintenance"
=============================================================================
