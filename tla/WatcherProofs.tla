---------------------------- MODULE WatcherProofs ----------------------------
(***************************************************************************)
(* Proofs about ShutdownWatcher, for every number of tables, signals and   *)
(* polling attempts and every choice of modes.                             *)
(***************************************************************************)
EXTENDS ShutdownWatcher, TLAPS

(* The order of the handler's two stores, seen from the watcher's end.     *)
Told ==
    /\ caught > 0 => flag
    /\ wpc # "recv" => count > 0
    /\ acted # {} => count > 0

(* The first signal's one way through the watcher; later ones never take   *)
(* the turn to "cancel".                                                   *)
Polite ==
    /\ cancels <= 1
    /\ count = 0 => cancels = 0
    /\ wpc = "cancel" => count = 1 /\ cancels = 0
    /\ count = 1 =>
         /\ wpc \in {"connect", "poll", "sleep"} => cancels = 0 /\ acted = {}
         /\ wpc \in {"cancel", "grace", "recheck", "terminate"} => targetPos \in Maintenance
         /\ wpc \in {"grace", "recheck"} => cancels = 1
         /\ wpc = "cancel" => acted = {}
    /\ OneSignalIsCareful

(* A statement that still runs since the time of the target is the one the *)
(* poll saw.                                                               *)
Targeted == running => query_start # 0 /\ (query_start = target => pos = targetPos)

(* Whoever was hit is the table in hand, and a table without its row was   *)
(* the last.  With nothing but the maintenance statement cancelled the     *)
(* session lives and no row is missing.                                    *)
Confined ==
    /\ hit # {} \/ interrupt # "none" \/ ~alive \/ lost > 0 => acted # {}
    /\ hit \subseteq {begun}
    /\ lost > 0 => lost = 1 /\ pos \in {"loop", "done"}
    /\ acted \subseteq {<<"cancel", "maintenance">>} =>
         /\ alive /\ interrupt # "term" /\ lost = 0
         /\ interrupt = "cancel" => pos \in Maintenance /\ running

(* The part of TypeOK that the session's steps can disturb.                *)
SessionTyped ==
    /\ pos \in Positions /\ running \in BOOLEAN /\ waiting \in BOOLEAN /\ alive \in BOOLEAN
    /\ running => pos \in Statements /\ alive /\ ~waiting
    /\ waiting => pos \in {"lag", "count", "analyze"}
    /\ query_start \in 0..2
    /\ interrupt \in {"none", "cancel", "term"}
    /\ left \in 0..Tables /\ begun = Tables - left /\ repeats \in 0..MaxRepeats
    /\ seen \in BOOLEAN
    /\ hit \in SUBSET (0..Tables) /\ lost \in Nat

WatcherInv == TypeOK /\ Told /\ Polite /\ Targeted /\ Confined

-----------------------------------------------------------------------------
(* A statement's successors, after a success or an error, are statements,  *)
(* the top of the loop or the end.                                         *)
LEMMA NextStatement ==
  ASSUME NEW p \in Statements
  PROVE  After[p] \subseteq Positions \ {"done"} /\ AfterError(p) \subseteq Positions
  BY DEF After, AfterError, Positions, Statements, Gates, Operation, Maintenance

(* A statement that starts is told apart from the target.                  *)
LEMMA FreshStarts == FreshStart \in 1..2 /\ FreshStart # target
<1>1. \E start \in 1..2 : start # target
  <2>1. CASE target = 1
    BY <2>1
  <2>2. CASE target # 1
    BY <2>2
  <2> QED
    BY <2>1, <2>2
<1> QED
  BY <1>1 DEF FreshStart

(* Before the first signal the watcher has acted on nothing.               *)
LEMMA InitEstablishes == Init => WatcherInv
  <1> SUFFICES ASSUME Init PROVE WatcherInv
    OBVIOUS
  <1> USE DEF Init
  <1>1. /\ Tables \in Nat /\ MaxRepeats \in Nat /\ MaxSignals \in Nat
        /\ PollAttempts \in Nat \ {0} /\ mode \in ShutdownModes
    BY ModesAssumption, CountsAssumption
  <1>2. TypeOK
    <2>1. acted \in SUBSET ({"cancel", "terminate"} \X {"maintenance", "other", "idle"})
      OBVIOUS
    <2>2. /\ query_start \in 0..2 /\ left \in 0..Tables /\ polls \in 0..PollAttempts
          /\ begun = Tables - left /\ repeats \in 0..MaxRepeats /\ target \in 0..2
          /\ hit \in SUBSET (0..Tables) /\ lost \in Nat
      BY <1>1
    <2>3. /\ forwarded \in 0..caught /\ caught \in 0..MaxSignals /\ channel \in 0..MaxSignals
          /\ count \in 0..MaxSignals /\ count + channel = forwarded
      BY <1>1
    <2>4. pos \in Positions /\ targetPos \in Positions
      BY DEF Positions, Statements
    <2> QED
      BY <1>1, <2>1, <2>2, <2>3, <2>4 DEF TypeOK
  <1>3. Told /\ Polite /\ Targeted
    BY DEF Told, Polite, Targeted, OneSignalIsCareful
  <1>4. Confined
    BY DEF Confined
  <1> QED
    BY <1>2, <1>3, <1>4 DEF WatcherInv

(* The session's own steps leave the watcher and the handlers alone.       *)
LEMMA SessionFrame ==
  SessionStep => UNCHANGED << mode, reliable, caught, forwarded, flag, channel, wpc, count,
                              connected, polls, target, targetPos, acted, cancels, hit >>
  BY DEF SessionStep, LoopTop, Issue, Complete, Fail, Ends, LockTimeoutRetry, Woken, Cancelled, Die,
         FindDead, others, handlers, watcher

(* A table an interrupt leaves without its row is the only one: the flag   *)
(* is up by then, and the loop begins no other.                            *)
LEMMA SessionTypes == WatcherInv /\ SessionStep => SessionTyped' /\ Confined'
  <1> SUFFICES ASSUME WatcherInv, SessionStep PROVE SessionTyped' /\ Confined'
    OBVIOUS
  <1>1. /\ Tables \in Nat /\ MaxRepeats \in Nat /\ SessionTyped /\ Confined
        /\ acted # {} => flag
    BY CountsAssumption DEF WatcherInv, TypeOK, SessionTyped, Told
  <1>2. acted' = acted /\ hit' = hit
    BY SessionFrame
  <1>3. CASE LoopTop
    <2>1. /\ pos' \in {"done", "lag", "check", "discover"} /\ pos = "loop"
          /\ UNCHANGED << seen, running, waiting, query_start, interrupt, alive, lost >>
      BY <1>3 DEF LoopTop
    <2>2. /\ left' \in 0..Tables /\ begun' = Tables - left' /\ repeats' \in 0..MaxRepeats
          /\ begun' >= begun
      BY <1>1, <1>3 DEF LoopTop, SessionTyped
    <2>3. SessionTyped'
      BY <1>1, <1>2, <2>1, <2>2
         DEF SessionTyped, Positions, Statements, Gates, Operation, Maintenance
    <2>4. flag \/ ~alive => pos' = "done" /\ begun' = begun
      BY <1>3 DEF LoopTop
    <2>5. hit # {} \/ lost > 0 \/ ~alive => acted # {}
      BY <1>1 DEF Confined
    <2>6. interrupt = "cancel" /\ acted \subseteq {<<"cancel", "maintenance">>} => FALSE
      BY <1>1, <2>1 DEF Confined, Maintenance
    <2> QED
      BY <1>1, <1>2, <2>1, <2>3, <2>4, <2>5, <2>6 DEF Confined
  <1>4. CASE Issue
    BY <1>1, <1>2, <1>4, FreshStarts DEF Issue, SessionTyped, Confined, Statements, Gates, Operation, Maintenance
  <1>5. CASE Ends /\ pos' \in Positions /\ waiting' \in BOOLEAN /\ repeats' \in 0..MaxRepeats
             /\ (waiting' => pos' \in {"lag", "count", "analyze"})
    <2>1. /\ pos \in Statements /\ alive /\ UNCHANGED << query_start, alive, left, begun, lost >>
          /\ running' = FALSE /\ seen' = FALSE
          /\ interrupt' = IF interrupt = "term" THEN "term" ELSE "none"
      BY <1>1, <1>5 DEF Ends, SessionTyped
    <2>2. SessionTyped'
      BY <1>1, <1>2, <1>5, <2>1 DEF SessionTyped
    <2>3. lost = 0
      BY <1>1, <2>1 DEF Confined, SessionTyped, Statements, Gates, Operation, Maintenance
    <2> QED
      BY <1>1, <1>2, <2>1, <2>2, <2>3 DEF Confined
  <1>6. CASE Complete
    <2>1. pos \in Statements
      BY <1>1, <1>6 DEF Complete, Ends, SessionTyped
    <2>2. pos' \in Positions /\ repeats' \in 0..MaxRepeats
      BY <1>1, <1>6, <2>1, NextStatement DEF Complete, SessionTyped
    <2>3. waiting' \in BOOLEAN /\ (waiting' => pos' = "lag")
      BY <1>6 DEF Complete
    <2> QED
      BY <1>5, <1>6, <2>2, <2>3 DEF Complete
  <1>7. CASE Fail
    <2>1. pos \in Statements /\ ~waiting
      BY <1>1, <1>7 DEF Fail, Ends, SessionTyped
    <2>2. pos' \in Positions /\ UNCHANGED << waiting, repeats >>
      BY <1>7, <2>1, NextStatement DEF Fail
    <2> QED
      BY <1>1, <1>5, <1>7, <2>1, <2>2 DEF Fail, SessionTyped
  <1>8. CASE LockTimeoutRetry
    BY <1>1, <1>5, <1>8
       DEF LockTimeoutRetry, SessionTyped, Positions, Statements, Operation, Maintenance
  <1>9. CASE Woken
    BY <1>1, <1>2, <1>9
       DEF Woken, SessionTyped, Confined, Positions, Statements, Gates, Operation, Maintenance
  <1>10. CASE Cancelled
    <2>1. /\ pos \in Statements /\ running /\ alive /\ ~waiting /\ interrupt = "cancel"
          /\ running' = FALSE /\ interrupt' = "none" /\ seen' = FALSE
          /\ UNCHANGED << waiting, query_start, alive, left, repeats, begun >>
      BY <1>1, <1>10 DEF Cancelled, SessionTyped
    <2>2. /\ pos' \in Positions
          /\ pos \in Maintenance => lost' = lost
          /\ lost' # lost => lost' = lost + 1 /\ pos' \in {"loop", "done"}
      BY <1>10, <2>1
         DEF Cancelled, AfterCancel, Positions, Statements, Gates, Operation, Maintenance
    <2>3. lost = 0 /\ acted # {}
      BY <1>1, <2>1 DEF Confined, SessionTyped, Statements, Gates, Operation, Maintenance
    <2>4. SessionTyped'
      <3>1. lost' \in Nat /\ hit' \in SUBSET (0..Tables)
        BY <1>1, <1>2, <2>2 DEF SessionTyped
      <3>2. /\ query_start' \in 0..2 /\ left' \in 0..Tables /\ begun' = Tables - left'
            /\ repeats' \in 0..MaxRepeats /\ alive' \in BOOLEAN /\ waiting' \in BOOLEAN
        BY <1>1, <2>1 DEF SessionTyped
      <3> QED
        BY <2>1, <2>2, <3>1, <3>2 DEF SessionTyped
    <2>5. Confined'
      BY <1>1, <1>2, <2>1, <2>2, <2>3 DEF Confined
    <2> QED
      BY <2>4, <2>5
  <1>11. CASE Die
    BY <1>1, <1>2, <1>11 DEF Die, SessionTyped, Confined
  <1>12. CASE FindDead
    <2>1. /\ pos \in Statements /\ ~alive /\ ~waiting /\ seen' = FALSE
          /\ UNCHANGED << running, waiting, query_start, interrupt, alive, left, repeats, begun >>
      BY <1>12 DEF FindDead
    <2>2. /\ pos' \in {"done", "log", "loop"} /\ lost' \in {lost, lost + 1}
          /\ lost' # lost => pos' \in {"loop", "done"}
      BY <1>12 DEF FindDead
    <2>3. lost = 0 /\ ~running
      BY <1>1, <2>1 DEF Confined, SessionTyped, Statements, Gates, Operation, Maintenance
    <2>4. pos' \in Positions
      BY <2>2 DEF Positions, Statements
    <2>5. SessionTyped'
      <3>1. lost' \in Nat /\ hit' \in SUBSET (0..Tables)
        BY <1>1, <1>2, <2>2 DEF SessionTyped
      <3>2. /\ query_start' \in 0..2 /\ left' \in 0..Tables /\ begun' = Tables - left'
            /\ repeats' \in 0..MaxRepeats /\ interrupt' \in {"none", "cancel", "term"}
            /\ alive' \in BOOLEAN /\ waiting' \in BOOLEAN /\ running' \in BOOLEAN
        BY <1>1, <2>1 DEF SessionTyped
      <3> QED
        BY <2>1, <2>3, <2>4, <3>1, <3>2 DEF SessionTyped
    <2>6. Confined'
      BY <1>1, <1>2, <2>1, <2>2, <2>3 DEF Confined
    <2> QED
      BY <2>5, <2>6
  <1> QED
    BY <1>3, <1>4, <1>6, <1>7, <1>8, <1>9, <1>10, <1>11, <1>12 DEF SessionStep

(* No step of the session takes the watcher's grounds away.                *)
LEMMA SessionKeeps == WatcherInv /\ SessionStep => WatcherInv'
  <1> SUFFICES ASSUME WatcherInv, SessionStep PROVE WatcherInv'
    OBVIOUS
  <1>1. /\ UNCHANGED << mode, reliable, caught, forwarded, flag, channel, wpc, count, connected,
                        polls, target, targetPos, acted, cancels, hit >>
        /\ SessionTyped' /\ Confined'
    BY SessionFrame, SessionTypes
  <1>2. TypeOK'
    BY <1>1 DEF WatcherInv, TypeOK, SessionTyped
  <1>3. Told' /\ Polite'
    BY <1>1 DEF WatcherInv, Told, Polite, OneSignalIsCareful
  <1>4. Targeted'
    <2>1. CASE Issue
      BY <1>1, <2>1, FreshStarts DEF Issue, Targeted
    <2>4. CASE LoopTop \/ Woken \/ FindDead
      BY <2>4
         DEF LoopTop, Woken, FindDead, Targeted, WatcherInv, TypeOK, Statements, Gates, Operation,
             Maintenance
    <2>5. CASE Complete \/ Fail \/ LockTimeoutRetry \/ Cancelled \/ Die
      BY <2>5 DEF Complete, Fail, Ends, LockTimeoutRetry, Cancelled, Die, Targeted
    <2> QED
      BY <2>1, <2>4, <2>5 DEF SessionStep
  <1> QED
    BY <1>1, <1>2, <1>3, <1>4 DEF WatcherInv

(* The handlers count up and set the flag.                                 *)
LEMMA HandlersKeep == WatcherInv /\ HandlerStep => WatcherInv'
  <1> SUFFICES ASSUME WatcherInv, HandlerStep PROVE WatcherInv'
    OBVIOUS
  <1> USE DEF WatcherInv
  <1>1. MaxSignals \in Nat
    BY CountsAssumption
  <1>2. UNCHANGED << mode, reliable, pos, running, waiting, query_start, interrupt, alive, left,
                     repeats, wpc, count, connected, polls, target, seen, acted, cancels, begun,
                     hit, lost, targetPos >>
    BY DEF HandlerStep, CatchSignal, ForwardSignal, session, watcher
  <1>3. /\ caught' \in 0..MaxSignals /\ forwarded' \in 0..caught' /\ flag' \in BOOLEAN
        /\ channel' \in 0..MaxSignals /\ count + channel' = forwarded'
        /\ caught' > 0 => flag'
    <2>1. CASE CatchSignal
      BY <1>1, <2>1 DEF CatchSignal, TypeOK
    <2>2. CASE ForwardSignal
      BY <1>1, <2>2 DEF ForwardSignal, TypeOK, Told
    <2> QED
      BY <2>1, <2>2 DEF HandlerStep
  <1>4. TypeOK'
    BY <1>2, <1>3 DEF TypeOK
  <1>5. Told' /\ Polite' /\ Targeted' /\ Confined'
    BY <1>2, <1>3 DEF Told, Polite, OneSignalIsCareful, Targeted, Confined
  <1> QED
    BY <1>4, <1>5

(* The watcher's steps, of which none moves the session.                   *)
LEMMA WatcherTypes == WatcherInv /\ WatcherStep => TypeOK' /\ Targeted'
  <1> SUFFICES ASSUME WatcherInv, WatcherStep PROVE TypeOK' /\ Targeted'
    OBVIOUS
  <1> USE DEF WatcherInv
  <1>1. /\ UNCHANGED << mode, reliable, pos, running, waiting, query_start, alive, left, repeats,
                        begun, lost >>
        /\ UNCHANGED << caught, forwarded, flag >>
    BY DEF WatcherStep, Receive, Connect, ControlFails, Poll, SleepEnds, SignalInSleep, Cancel,
           GraceEnds, SignalInGrace, Recheck, Terminate, session, handlers
  <1>2. query_start \in 0..2 /\ target \in 0..2
    BY DEF TypeOK
  <1>3. /\ wpc' \in {"recv", "connect", "poll", "sleep", "cancel", "grace", "recheck", "terminate"}
        /\ connected' \in BOOLEAN /\ interrupt' \in {"none", "cancel", "term"}
    BY DEF WatcherStep, Receive, Connect, ControlFails, Poll, Plan, SleepEnds, SignalInSleep, Cancel,
           GraceEnds, SignalInGrace, Recheck, Terminate, session, TypeOK
  <1>4. channel' \in 0..MaxSignals /\ count' \in 0..MaxSignals /\ count' + channel' = forwarded
    <2>1. CASE TakeSignal
      BY <2>1, CountsAssumption DEF TakeSignal, TypeOK
    <2>2. CASE UNCHANGED << channel, count >>
      BY <2>2 DEF TypeOK
    <2> QED
      BY <2>1, <2>2 DEF WatcherStep, Receive, Connect, ControlFails, Poll, SleepEnds, SignalInSleep,
                        Cancel, GraceEnds, SignalInGrace, Recheck, Terminate
  <1>5. polls' \in 0..PollAttempts /\ (wpc' \in {"poll", "sleep"} => polls' > 0)
    <2>1. PollAttempts \in Nat \ {0} /\ polls \in 0..PollAttempts
      BY CountsAssumption DEF TypeOK
    <2>2. CASE Poll
      BY <2>1, <2>2 DEF Poll, Plan, TypeOK
    <2>3. CASE Receive \/ Connect
      BY <2>1, <2>3 DEF Receive, Connect
    <2>4. CASE SleepEnds \/ SignalInSleep
      BY <2>1, <2>4 DEF SleepEnds, SignalInSleep, TypeOK
    <2>5. CASE ControlFails \/ Cancel \/ GraceEnds \/ SignalInGrace \/ Recheck \/ Terminate
      BY <2>1, <2>5 DEF ControlFails, Cancel, GraceEnds, SignalInGrace, Recheck, Terminate
    <2> QED
      BY <2>2, <2>3, <2>4, <2>5 DEF WatcherStep
  <1>6. /\ target' \in 0..2 /\ seen' \in BOOLEAN /\ targetPos' \in Positions
        /\ running => query_start # 0 /\ (query_start = target' => pos = targetPos')
    <2>1. CASE Poll
      BY <1>2, <2>1 DEF Poll, TypeOK, Targeted
    <2>2. CASE UNCHANGED << target, targetPos >> /\ seen' \in BOOLEAN
      BY <2>2 DEF TypeOK, Targeted
    <2>3. CASE target' = 0 /\ UNCHANGED << seen, targetPos >>
      BY <2>3 DEF TypeOK, Targeted
    <2> QED
      BY <2>1, <2>2, <2>3
         DEF TypeOK, WatcherStep, Receive, Connect, ControlFails, SleepEnds, SignalInSleep, Cancel,
             GraceEnds, SignalInGrace, Recheck, Terminate, session
  <1>7. /\ cancels' \in Nat /\ acted' \in SUBSET ({"cancel", "terminate"} \X {"maintenance", "other", "idle"})
        /\ hit' \in SUBSET (0..Tables)
    <2>1. /\ begun \in 0..Tables /\ Doing \in {"maintenance", "other", "idle"}
          /\ cancels \in Nat /\ hit \in SUBSET (0..Tables)
      BY CountsAssumption DEF TypeOK, Doing
    <2>2. CASE Cancel
      <3>1. cancels' = cancels + 1 /\ (hit' = hit \/ hit' = hit \cup {begun})
        BY <2>2 DEF Cancel
      <3>2. cancels' \in Nat
        BY <2>1, <3>1
      <3>3. hit' \in SUBSET (0..Tables)
        BY <2>1, <3>1
      <3>4. acted' = acted \/ acted' = acted \cup {<<"cancel", Doing>>}
        BY <2>2 DEF Cancel
      <3> QED
        BY <2>1, <3>2, <3>3, <3>4 DEF TypeOK
    <2>3. CASE Terminate
      <3>1. cancels' \in Nat /\ hit' \in SUBSET (0..Tables)
        BY <2>1, <2>3 DEF Terminate, TypeOK
      <3>2. acted' = acted \/ acted' = acted \cup {<<"terminate", Doing>>}
        BY <2>3 DEF Terminate
      <3> QED
        BY <2>1, <3>1, <3>2 DEF TypeOK
    <2>4. CASE UNCHANGED << acted, cancels, hit >>
      BY <2>4 DEF TypeOK
    <2> QED
      BY <2>2, <2>3, <2>4 DEF WatcherStep, Receive, Connect, ControlFails, Poll, SleepEnds,
                              SignalInSleep, GraceEnds, SignalInGrace, Recheck
  <1>8. TypeOK'
    BY <1>1, <1>3, <1>4, <1>5, <1>6, <1>7 DEF TypeOK
  <1>9. Targeted'
    BY <1>1, <1>6 DEF Targeted
  <1> QED
    BY <1>8, <1>9

(* The first signal polls, cancels once and then escalates; what a later   *)
(* one does is not bound to the maintenance statement.                     *)
LEMMA WatcherPolite == WatcherInv /\ WatcherStep => Told' /\ Polite'
  <1> SUFFICES ASSUME WatcherInv, WatcherStep PROVE Told' /\ Polite'
    OBVIOUS
  <1> USE DEF WatcherInv
  <1>1. /\ UNCHANGED << mode, caught, forwarded, flag >>
        /\ count \in Nat /\ channel \in Nat /\ cancels \in Nat
    BY CountsAssumption
       DEF WatcherStep, Receive, Connect, ControlFails, Poll, SleepEnds, SignalInSleep, Cancel,
           GraceEnds, SignalInGrace, Recheck, Terminate, handlers, TypeOK
  <1>2. Told'
    BY <1>1 DEF WatcherStep, Receive, Connect, ControlFails, Poll, SleepEnds, SignalInSleep, Cancel,
           GraceEnds, SignalInGrace, Recheck, Terminate, TakeSignal, Told
  <1>3. Polite'
    <2> USE DEF Polite, OneSignalIsCareful
    <2>1. CASE Receive
      BY <1>1, <2>1 DEF Receive, TakeSignal, Told
    <2>2. CASE Connect
      BY <1>1, <2>2 DEF Connect
    <2>3. CASE ControlFails
      BY <1>1, <2>3 DEF ControlFails
    <2>4. CASE Poll
      BY <1>1, <2>4 DEF Poll, Plan, WorthActing, Told, TypeOK
    <2>5. CASE SleepEnds
      BY <1>1, <2>5 DEF SleepEnds
    <2>6. CASE SignalInSleep
      BY <1>1, <2>6 DEF SignalInSleep, TakeSignal, Told
    <2>7. CASE Cancel
      BY <1>1, <2>7 DEF Cancel
    <2>8. CASE GraceEnds
      BY <1>1, <2>8 DEF GraceEnds
    <2>9. CASE SignalInGrace
      BY <1>1, <2>9 DEF SignalInGrace, TakeSignal, Told
    <2>10. CASE Recheck
      BY <1>1, <2>10 DEF Recheck
    <2>11. CASE Terminate
      BY <1>1, <2>11 DEF Terminate
    <2> QED
      BY <2>1, <2>2, <2>3, <2>4, <2>5, <2>6, <2>7, <2>8, <2>9, <2>10, <2>11 DEF WatcherStep
  <1> QED
    BY <1>2, <1>3

(* A request that meets another statement than the maintenance one is      *)
(* remembered in acted, and whatever is hit is the table in hand.          *)
LEMMA WatcherConfined == WatcherInv /\ WatcherStep => Confined'
  <1> SUFFICES ASSUME WatcherInv, WatcherStep PROVE Confined'
    OBVIOUS
  <1> USE DEF WatcherInv
  <1>1. UNCHANGED << pos, running, alive, begun, lost >>
    BY DEF WatcherStep, Receive, Connect, ControlFails, Poll, SleepEnds, SignalInSleep, Cancel,
           GraceEnds, SignalInGrace, Recheck, Terminate, session
  <1>2. CASE UNCHANGED << interrupt, acted, hit >>
    BY <1>1, <1>2 DEF Confined
  <1>3. CASE /\ running /\ alive /\ acted' = acted \cup {<<"cancel", Doing>>}
             /\ interrupt' = IF interrupt = "term" THEN "term" ELSE "cancel"
             /\ hit' = hit \cup {begun}
    BY <1>1, <1>3 DEF Confined, Doing
  <1>4. CASE \E x : acted' = acted \cup {<<"terminate", x>>} /\ hit' = hit \cup {begun}
    <2>1. PICK x : acted' = acted \cup {<<"terminate", x>>} /\ hit' = hit \cup {begun}
      BY <1>4
    <2>2. <<"terminate", x>> # <<"cancel", "maintenance">>
      OBVIOUS
    <2>3. ~(acted' \subseteq {<<"cancel", "maintenance">>}) /\ acted' # {}
      BY <2>1, <2>2, Zenon
    <2> QED
      BY <1>1, <2>1, <2>3 DEF Confined
  <1> QED
    BY <1>2, <1>3, <1>4 DEF WatcherStep, Receive, Connect, ControlFails, Poll, SleepEnds,
           SignalInSleep, Cancel, GraceEnds, SignalInGrace, Recheck, Terminate, session

(* Every step of the watcher, the handlers and the session keeps the       *)
(* invariant.                                                              *)
LEMMA StepKeeps == WatcherInv /\ [Next]_vars => WatcherInv'
  <1> SUFFICES ASSUME WatcherInv, [Next]_vars PROVE WatcherInv'
    OBVIOUS
  <1>1. CASE SessionStep
    BY <1>1, SessionKeeps
  <1>2. CASE HandlerStep
    BY <1>2, HandlersKeep
  <1>3. CASE WatcherStep
    BY <1>3, WatcherTypes, WatcherPolite, WatcherConfined DEF WatcherInv
  <1>4. CASE UNCHANGED vars
    BY <1>4 DEF vars, WatcherInv, TypeOK, Told, Polite, OneSignalIsCareful, Targeted,
                Confined
  <1> QED
    BY <1>1, <1>2, <1>3, <1>4 DEF Next, Exited

(* The invariant holds of every behaviour.                                 *)
LEMMA Invariant == Spec => []WatcherInv
  BY InitEstablishes, StepKeeps, PTL DEF Spec

-----------------------------------------------------------------------------
(* shutdown.rs takes no more signals than were sent and polls at most      *)
(* POLL_ATTEMPTS times, and a sleeping session runs no statement.          *)
THEOREM WatcherTypeCorrect == Spec => []TypeOK
<1>1. WatcherInv => TypeOK
  BY DEF WatcherInv
<1> QED
  BY <1>1, Invariant, PTL

(* Nothing is interrupted before the run can see why: main.rs stores the   *)
(* flag before the watcher hears of the signal.                            *)
THEOREM FlagComesFirst == Spec => []FlagBeforeInterrupt
<1>1. WatcherInv => FlagBeforeInterrupt
  BY DEF WatcherInv, TypeOK, Told, FlagBeforeInterrupt
<1> QED
  BY <1>1, Invariant, PTL

(* handle_signal, called for the first signal, acts on a VACUUM or ANALYZE *)
(* it saw running and terminates after the polite request only.            *)
THEOREM FirstSignalCareful == Spec => []OneSignalIsCareful
<1>1. WatcherInv => OneSignalIsCareful
  BY DEF WatcherInv, Polite
<1> QED
  BY <1>1, Invariant, PTL

(* pg_cancel_backend is called once in a run, whatever the signals.        *)
THEOREM OneCancel == Spec => []CancelOnce
<1>1. WatcherInv => CancelOnce
  BY DEF WatcherInv, Polite, CancelOnce
<1> QED
  BY <1>1, Invariant, PTL

(* run_watcher disturbs the last table begun and no other, and a polite    *)
(* cancel that hits its statement leaves that table its row.               *)
THEOREM DisturbanceConfined == Spec => []OneTableDisturbed
<1>1. WatcherInv => OneTableDisturbed
  BY DEF WatcherInv, TypeOK, Confined, OneTableDisturbed
<1> QED
  BY <1>1, Invariant, PTL

(* handle_signal's comparison of query_start keeps the escalation off a    *)
(* later statement.                                                        *)
THEOREM EscalationOnTarget == Spec => EscalatesOnTarget
<1> DEFINE Aimed == wpc = "recheck" /\ wpc' = "terminate" => query_start = target /\ pos = targetPos
<1>1. WatcherInv /\ [Next]_vars => [Aimed]_vars
  <2> SUFFICES ASSUME WatcherInv, Next, wpc = "recheck", wpc' = "terminate"
               PROVE  query_start = target /\ pos = targetPos
    OBVIOUS
  <2>1. Recheck /\ SameStatement
    BY SessionFrame
       DEF Next, HandlerStep, CatchSignal, ForwardSignal, WatcherStep, Receive, Connect, ControlFails, Poll, SleepEnds,
           SignalInSleep, Cancel, GraceEnds, SignalInGrace, Recheck, Terminate, Exited, watcher, vars
  <2> QED
    BY <2>1 DEF WatcherInv, Targeted, SameStatement
<1> QED
  BY <1>1, Invariant, PTL DEF Spec, EscalatesOnTarget
=============================================================================
