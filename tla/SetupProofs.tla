----------------------------- MODULE SetupProofs -----------------------------
(***************************************************************************)
(* Proofs about SessionSetup and the Configuration it extends, for every   *)
(* command line, file, environment and server.                             *)
(*                                                                         *)
(* The arguments are known in closed form at every point: as parsed, as    *)
(* merged with the file, as filled from the connection string.  The        *)
(* settings of the session are known from the arguments, and the           *)
(* arguments from the sources.                                             *)
(***************************************************************************)
EXTENDS SessionSetup, SublistTheorems

(* The arguments once the file is merged, from the sources alone.          *)
FileMerged ==
    IF command.file = None THEN Parsed(command.cli)
    ELSE merge_config(Config, Parsed(command.cli))

Configuring == {"file", "dsn", "validate", "endpoint"}
Connecting  == {"connect", "pid", "schemas", "lock", "logbook", "mem"}
Throttled   == {"buffer", "workers", "timeout"}
Ready       == {"freeze", "lag", "horizon", "also", "run"}
Set_up      == Connecting \cup {"delay", "cost"} \cup Throttled \cup Ready

(* What the arguments are at each point.                                   *)
ArgsInv ==
    /\ command \in Commands
    /\ pc \in Configuring \cup Set_up \cup {"rejected", "failed"}
    /\ pc = "file" => args = Parsed(command.cli)
    /\ pc \notin {"file", "rejected"} => command.file # Malformed
    /\ pc = "dsn" => args = FileMerged
    /\ Completed =>
          /\ DsnSource # Malformed
          /\ args = [f \in Fields |->
                IF /\ f \in DsnFields /\ DsnSource # None /\ FileMerged[f] = ArgsDefault(f)
                   /\ Given(DsnSource, f) # None
                THEN DsnSource[f] ELSE FileMerged[f]]

(* Nothing is done with arguments that were not validated.                 *)
ValidInv == pc \notin {"file", "dsn", "validate", "rejected"} => ~Invalid

(* The endpoint and the password are those of the arguments as they are.   *)
ConnInv ==
    /\ pc \in Configuring => conn = None
    /\ conn # None => conn = [endpoint |-> Endpoint, password |-> Password(Endpoint)]

(* Which settings the session has at each point.                           *)
SessionInv ==
    /\ DOMAIN session = Gucs
    /\ pc \in Configuring \cup Connecting \cup {"delay"} => session["vacuum_cost_delay"] = None
    /\ pc \in Configuring \cup Connecting \cup {"delay", "cost"} =>
          session["vacuum_cost_limit"] = None
    /\ pc \in {"cost"} \cup Throttled \cup Ready =>
          session["vacuum_cost_delay"] = Throttle.cost_delay_ms
    /\ pc \in Throttled \cup Ready => session["vacuum_cost_limit"] = Throttle.cost_limit
    /\ pc \in Ready => session["lock_timeout"] = args["lock_timeout_ms"]

(* The list that is locked, and the tables that are in it.                 *)
ScopeInv ==
    /\ pc = "lock" => schemas # << >>
    /\ pc \in {"logbook", "mem", "delay", "cost"} \cup Throttled \cup Ready =>
          locked = schemas /\ schemas # << >>
    /\ pc = "run" =>
          also = Kept(InScope, {n \in DOMAIN InScope : InScope[n] \in server.relations})

-----------------------------------------------------------------------------
(* The steps.                                                              *)

(* run(), once the configuration is complete.                              *)
SessionStep ==
    \/ Connect \/ SpawnWatcher \/ ResolveSchemas \/ AcquireLock \/ EnsureLogbook
    \/ SetMaintenanceWorkMem \/ SetVacuumCostDelay \/ SetVacuumCostLimit
    \/ SetVacuumBufferUsageLimit \/ SetMaxParallelMaintenanceWorkers \/ SetLockTimeout
    \/ ReadFreezeMaxAge \/ LogInitialReplicaLag \/ LogInitialXminHorizon
    \/ ResolveExplicitTables

(* Which step of run() is next after which.                                *)
Follows ==
    \/ pc = "connect" /\ pc' = "pid"
    \/ pc = "pid" /\ pc' = "schemas"
    \/ pc = "schemas" /\ pc' = "lock"
    \/ pc = "lock" /\ pc' = "logbook"
    \/ pc = "logbook" /\ pc' = "mem"
    \/ pc = "mem" /\ pc' = "delay"
    \/ pc = "delay" /\ pc' = "cost"
    \/ pc = "cost" /\ pc' = "buffer"
    \/ pc = "buffer" /\ pc' = "workers"
    \/ pc = "workers" /\ pc' = "timeout"
    \/ pc = "timeout" /\ pc' = "freeze"
    \/ pc = "freeze" /\ pc' = "lag"
    \/ pc = "lag" /\ pc' = "horizon"
    \/ pc = "horizon" /\ pc' = "also"
    \/ pc = "also" /\ pc' = "run"
    \/ pc \in Set_up /\ pc' = "failed"

(* Once it is complete the configuration is not touched, and the steps of  *)
(* run() come in the order of the source, or end it.                       *)
LEMMA SessionFollows ==
    SessionStep => UNCHANGED configuration /\ Follows
<1> USE DEF Follows, Set_up, Connecting, Throttled, Ready, configuration, Fail, Required, NotNeeded,
            MustSet, MaySet
<1>1. Connect => UNCHANGED configuration /\ Follows
  BY DEF Connect
<1>2. SpawnWatcher => UNCHANGED configuration /\ Follows
  BY DEF SpawnWatcher
<1>3. ResolveSchemas => UNCHANGED configuration /\ Follows
  BY DEF ResolveSchemas
<1>4. AcquireLock => UNCHANGED configuration /\ Follows
  BY DEF AcquireLock
<1>5. EnsureLogbook => UNCHANGED configuration /\ Follows
  BY DEF EnsureLogbook
<1>6. SetMaintenanceWorkMem => UNCHANGED configuration /\ Follows
  BY DEF SetMaintenanceWorkMem
<1>7. SetVacuumCostDelay => UNCHANGED configuration /\ Follows
  BY DEF SetVacuumCostDelay
<1>8. SetVacuumCostLimit => UNCHANGED configuration /\ Follows
  BY DEF SetVacuumCostLimit
<1>9. SetVacuumBufferUsageLimit => UNCHANGED configuration /\ Follows
  BY DEF SetVacuumBufferUsageLimit
<1>10. SetMaxParallelMaintenanceWorkers => UNCHANGED configuration /\ Follows
  BY DEF SetMaxParallelMaintenanceWorkers
<1>11. SetLockTimeout => UNCHANGED configuration /\ Follows
  BY DEF SetLockTimeout
<1>12. ReadFreezeMaxAge => UNCHANGED configuration /\ Follows
  BY DEF ReadFreezeMaxAge
<1>13. LogInitialReplicaLag => UNCHANGED configuration /\ Follows
  BY DEF LogInitialReplicaLag
<1>14. LogInitialXminHorizon => UNCHANGED configuration /\ Follows
  BY DEF LogInitialXminHorizon
<1>15. ResolveExplicitTables => UNCHANGED configuration /\ Follows
  BY DEF ResolveExplicitTables
<1> QED
  BY <1>1, <1>2, <1>3, <1>4, <1>5, <1>6, <1>7, <1>8, <1>9, <1>10, <1>11, <1>12, <1>13, <1>14,
     <1>15 DEF SessionStep

(* A step completes the configuration, takes run() on, or leaves both as   *)
(* they are: a lost connection is noticed only by the next query.          *)
LEMMA StepKinds ==
    [Next]_vars =>
        \/ ConfigurationNext /\ UNCHANGED << server, alive, session, resolved >>
        \/ SessionStep /\ UNCHANGED configuration /\ Follows
        \/ UNCHANGED << configuration, pc, session, resolved >>
<1>1. Configure => ConfigurationNext /\ UNCHANGED << server, alive, session, resolved >>
  BY DEF Configure
<1>2. ConnectionLost \/ Ended \/ UNCHANGED vars => UNCHANGED << configuration, pc, session, resolved >>
  BY DEF ConnectionLost, Ended, vars, configuration, resolved
<1> QED
  BY <1>1, <1>2, SessionFollows DEF Next, SessionStep

(* The point of run() that a step of the configuration is taken from, and  *)
(* the one it leads to.                                                    *)
LEMMA ConfigurationFollows ==
    ConfigurationNext =>
        /\ UNCHANGED command
        /\ \/ pc = "file" /\ pc' \in {"dsn", "rejected"} /\ UNCHANGED conn
           \/ pc = "dsn" /\ pc' \in {"validate", "rejected"} /\ UNCHANGED conn
           \/ pc = "validate" /\ pc' \in {"endpoint", "rejected"} /\ UNCHANGED << args, conn >>
           \/ pc = "endpoint" /\ pc' = "connect" /\ UNCHANGED args
BY DEF ConfigurationNext, LoadFile, ApplyDsn, Validate, FromArgs, Reject

(* What is computed of the command and the arguments changes with them     *)
(* only.                                                                   *)
LEMMA Unmoved ==
    ASSUME command' = command, args' = args
    PROVE  /\ FileMerged' = FileMerged /\ DsnSource' = DsnSource /\ Invalid' = Invalid
           /\ Endpoint' = Endpoint /\ Password(Endpoint)' = Password(Endpoint)
           /\ Throttle' = Throttle /\ AlsoTables' = AlsoTables
<1>1. FileMerged' = FileMerged
  BY DEF FileMerged, Config, resolve_env_interpolation
<1>2. DsnSource' = DsnSource
  BY DEF DsnSource
<1>3. Throttle' = Throttle /\ AlsoTables' = AlsoTables
  BY DEF Throttle, AlsoTables, Set
<1>4. Invalid' = Invalid
  BY <1>3 DEF Invalid, BadScope, BadThresholds, BadLimits, Conflict, Set, Outside
<1>5. Endpoint' = Endpoint
  BY DEF Endpoint
<1>6. Password(Endpoint)' = Password(Endpoint)
  BY <1>5 DEF Password, get_password_from_pgpass
<1> QED
  BY <1>1, <1>2, <1>3, <1>4, <1>5, <1>6

-----------------------------------------------------------------------------
(* The arguments.                                                          *)

(* No connection string gives a connection string: what dsn::parse found   *)
(* does not move the source it was found in.                               *)
LEMMA SourceStays ==
    ASSUME args["dsn"]' = args["dsn"], command' = command
    PROVE  DsnSource' = DsnSource
BY DEF DsnSource

(* LoadFile, ApplyDsn and Validate keep the closed form of the arguments,  *)
(* and no later step touches them.                                         *)
LEMMA ArgsHold == Spec => []ArgsInv
<1> USE DEF Configuring, Set_up, Connecting, Throttled, Ready
<1>1. Init => ArgsInv
  BY DEF Init, ConfigurationInit, ArgsInv, Completed
<1>2. ArgsInv /\ [Next]_vars => ArgsInv'
  <2> SUFFICES ASSUME ArgsInv, [Next]_vars PROVE ArgsInv'
    OBVIOUS
  <2>1. ASSUME command' = command, args' = args, pc' \in Configuring \cup Set_up \cup {"failed", "rejected"},
               pc' \notin {"file", "dsn"}, pc \notin {"file", "dsn", "rejected"} \/ pc' = "rejected"
        PROVE  ArgsInv'
    <3>1. FileMerged' = FileMerged /\ DsnSource' = DsnSource
      BY <2>1, Unmoved
    <3>2. pc' # "rejected" => Completed
      BY <2>1 DEF Completed
    <3> QED
      BY <2>1, <3>1, <3>2 DEF ArgsInv, Completed
  <2>2. CASE SessionStep /\ UNCHANGED configuration /\ Follows
    <3>1. /\ command' = command /\ args' = args
          /\ pc \in Set_up /\ pc' \in Set_up \cup {"failed"}
      BY <2>2 DEF configuration, Follows
    <3> QED
      BY <2>1, <3>1
  <2>3. CASE UNCHANGED << configuration, pc, session, resolved >>
    <3>1. command' = command /\ args' = args /\ pc' = pc
      BY <2>3 DEF configuration
    <3>2. FileMerged' = FileMerged /\ DsnSource' = DsnSource
      BY <3>1, Unmoved
    <3> QED
      BY <3>1, <3>2 DEF ArgsInv, Completed
  <2>4. CASE ConfigurationNext
    <3>1. command' = command
      BY <2>4, ConfigurationFollows
    <3>2. CASE LoadFile
      <4>1. CASE command.file = Malformed
        <5>1. pc' = "rejected" /\ args' = args
          BY <3>2, <4>1 DEF LoadFile, Reject
        <5> QED
          BY <2>1, <3>1, <5>1
      <4>2. CASE command.file # Malformed
        <5>1. pc' = "dsn" /\ args' = FileMerged
          BY <3>2, <4>2 DEF LoadFile, ArgsInv, FileMerged
        <5>2. FileMerged' = FileMerged
          BY <3>1 DEF FileMerged, Config, resolve_env_interpolation
        <5> QED
          BY <3>1, <4>2, <5>1, <5>2 DEF ArgsInv, Completed
      <4> QED
        BY <4>1, <4>2
    <3>3. CASE ApplyDsn
      <4>1. CASE DsnSource = Malformed
        <5>1. pc' = "rejected" /\ args' = args
          BY <3>3, <4>1 DEF ApplyDsn, Reject
        <5> QED
          BY <2>1, <3>1, <5>1
      <4>2. CASE DsnSource # Malformed
        <5>1. /\ pc = "dsn" /\ pc' = "validate" /\ args = FileMerged /\ command.file # Malformed
              /\ args' = IF DsnSource = None THEN args ELSE FilledFromDsn(DsnSource)
          BY <3>3, <4>2 DEF ApplyDsn, ArgsInv
        <5>2. FileMerged = [f \in Fields |-> FileMerged[f]]
          BY DEF FileMerged, Parsed, merge_config
        <5>3. args' = [f \in Fields |->
                IF /\ f \in DsnFields /\ DsnSource # None /\ FileMerged[f] = ArgsDefault(f)
                   /\ Given(DsnSource, f) # None
                THEN DsnSource[f] ELSE FileMerged[f]]
          <6>1. CASE DsnSource = None
            BY <5>1, <5>2, <6>1, Zenon
          <6>2. CASE DsnSource # None
            BY <5>1, <6>2 DEF FilledFromDsn
          <6> QED
            BY <6>1, <6>2
        <5>4. "dsn" \in Fields /\ "dsn" \notin DsnFields
          BY DEF Fields, Options, DsnFields
        <5>5. args["dsn"]' = args["dsn"]
          BY <5>1, <5>3, <5>4
        <5>6. DsnSource' = DsnSource /\ FileMerged' = FileMerged
          BY <3>1, <5>5, SourceStays DEF FileMerged, Config, resolve_env_interpolation
        <5> QED
          BY <3>1, <4>2, <5>1, <5>3, <5>6 DEF ArgsInv, Completed
      <4> QED
        BY <4>1, <4>2
    <3>4. CASE Validate
      <4>1. pc = "validate" /\ pc' \in {"endpoint", "rejected"} /\ args' = args
        BY <3>4 DEF Validate, Reject
      <4> QED
        BY <2>1, <3>1, <4>1
    <3>5. CASE FromArgs
      <4>1. pc = "endpoint" /\ pc' = "connect" /\ args' = args
        BY <3>5 DEF FromArgs
      <4> QED
        BY <2>1, <3>1, <4>1
    <3> QED
      BY <2>4, <3>2, <3>3, <3>4, <3>5 DEF ConfigurationNext
  <2> QED
    BY <2>2, <2>3, <2>4, StepKinds
<1> QED
  BY <1>1, <1>2, PTL DEF Spec

(* run() goes past Validate with valid arguments, and they stay valid.     *)
LEMMA ValidHolds == Spec => []ValidInv
<1>1. Init => ValidInv
  BY DEF Init, ConfigurationInit, ValidInv
<1>2. ValidInv /\ [Next]_vars => ValidInv'
  <2> SUFFICES ASSUME ValidInv, [Next]_vars PROVE ValidInv'
    OBVIOUS
  <2>1. CASE SessionStep /\ UNCHANGED configuration /\ Follows
    <3>1. pc \notin {"file", "dsn", "validate", "rejected"} /\ Invalid' = Invalid
      BY <2>1, Unmoved DEF configuration, Follows, Set_up, Connecting, Throttled, Ready
    <3> QED
      BY <3>1 DEF ValidInv
  <2>2. CASE UNCHANGED << configuration, pc, session, resolved >>
    <3>1. pc' = pc /\ Invalid' = Invalid
      BY <2>2, Unmoved DEF configuration
    <3> QED
      BY <3>1 DEF ValidInv
  <2>3. CASE ConfigurationNext
    <3>1. CASE Validate
      <4>1. pc' = "rejected" \/ (~Invalid /\ Invalid' = Invalid)
        BY <3>1, Unmoved DEF Validate, Reject
      <4> QED
        BY <4>1 DEF ValidInv
    <3>2. CASE FromArgs
      <4>1. pc = "endpoint" /\ Invalid' = Invalid
        BY <3>2, Unmoved DEF FromArgs
      <4> QED
        BY <4>1 DEF ValidInv
    <3>3. CASE LoadFile \/ ApplyDsn
      <4>1. pc' \in {"dsn", "validate", "rejected"}
        BY <3>3 DEF LoadFile, ApplyDsn, Reject
      <4> QED
        BY <4>1 DEF ValidInv
    <3> QED
      BY <2>3, <3>1, <3>2, <3>3 DEF ConfigurationNext
  <2> QED
    BY <2>1, <2>2, <2>3, StepKinds
<1> QED
  BY <1>1, <1>2, PTL DEF Spec

(* FromArgs builds the ConnectionConfig from the arguments, and nothing    *)
(* builds it again.                                                        *)
LEMMA ConnHolds == Spec => []ConnInv
<1>1. Init => ConnInv
  BY DEF Init, ConfigurationInit, ConnInv
<1>2. ConnInv /\ [Next]_vars => ConnInv'
  <2> SUFFICES ASSUME ConnInv, [Next]_vars PROVE ConnInv'
    OBVIOUS
  <2>1. ASSUME UNCHANGED << command, args, conn >>, pc' \in Configuring => pc \in Configuring
        PROVE  ConnInv'
    <3>1. Endpoint' = Endpoint /\ Password(Endpoint)' = Password(Endpoint)
      BY <2>1, Unmoved
    <3> QED
      BY <2>1, <3>1 DEF ConnInv
  <2>2. CASE SessionStep /\ UNCHANGED configuration /\ Follows
    <3>1. UNCHANGED << command, args, conn >> /\ pc' \notin Configuring
      BY <2>2 DEF configuration, Follows, Configuring, Set_up, Connecting, Throttled, Ready
    <3> QED
      BY <2>1, <3>1
  <2>3. CASE UNCHANGED << configuration, pc, session, resolved >>
    <3>1. UNCHANGED << command, args, conn >> /\ pc' = pc
      BY <2>3 DEF configuration
    <3> QED
      BY <2>1, <3>1
  <2>4. CASE ConfigurationNext
    <3>1. CASE FromArgs
      <4>1. /\ pc' = "connect"
            /\ conn' = [endpoint |-> Endpoint, password |-> Password(Endpoint)]
            /\ Endpoint' = Endpoint /\ Password(Endpoint)' = Password(Endpoint)
        BY <3>1, Unmoved DEF FromArgs
      <4> QED
        BY <4>1 DEF ConnInv, Configuring
    <3>2. CASE LoadFile \/ ApplyDsn \/ Validate
      <4>1. pc \in Configuring /\ conn' = conn
        BY <3>2 DEF LoadFile, ApplyDsn, Validate, Reject, Configuring
      <4>2. conn' = None
        BY <4>1 DEF ConnInv
      <4> QED
        BY <4>2 DEF ConnInv
    <3> QED
      BY <2>4, <3>1, <3>2 DEF ConfigurationNext
  <2> QED
    BY <2>2, <2>3, <2>4, StepKinds
<1> QED
  BY <1>1, <1>2, PTL DEF Spec

-----------------------------------------------------------------------------
(* The session and the schema list.                                        *)

(* connect_raw and the SET statements: each changes its own settings.      *)
LEMMA SessionSteps ==
    ASSUME SessionStep, DOMAIN session = Gucs
    PROVE  /\ DOMAIN session' = Gucs
           /\ session'["vacuum_cost_delay"] # session["vacuum_cost_delay"] => pc = "delay"
           /\ session'["vacuum_cost_limit"] # session["vacuum_cost_limit"] => pc = "cost"
           /\ session'["lock_timeout"] # session["lock_timeout"] => pc = "timeout"
           /\ pc = "delay" /\ pc' = "cost" =>
                 session'["vacuum_cost_delay"] = IF Throttle.cost_delay_ms = None
                    THEN session["vacuum_cost_delay"] ELSE Throttle.cost_delay_ms
           /\ pc = "cost" /\ pc' = "buffer" =>
                 session'["vacuum_cost_limit"] = IF Throttle.cost_limit = None
                    THEN session["vacuum_cost_limit"] ELSE Throttle.cost_limit
           /\ pc = "timeout" /\ pc' = "freeze" => session'["lock_timeout"] = args["lock_timeout_ms"]
<1> DEFINE Own(g) == session'[g] = session[g]
           Goal ==
              /\ DOMAIN session' = Gucs
              /\ Own("vacuum_cost_delay") \/ pc = "delay"
              /\ Own("vacuum_cost_limit") \/ pc = "cost"
              /\ Own("lock_timeout") \/ pc = "timeout"
              /\ pc = "delay" /\ pc' = "cost" =>
                    session'["vacuum_cost_delay"] = IF Throttle.cost_delay_ms = None
                       THEN session["vacuum_cost_delay"] ELSE Throttle.cost_delay_ms
              /\ pc = "cost" /\ pc' = "buffer" =>
                    session'["vacuum_cost_limit"] = IF Throttle.cost_limit = None
                       THEN session["vacuum_cost_limit"] ELSE Throttle.cost_limit
              /\ pc = "timeout" /\ pc' = "freeze" =>
                    session'["lock_timeout"] = args["lock_timeout_ms"]
<1>1. Connect => Goal
  BY DEF Connect, Fail, Gucs
<1>2. SpawnWatcher \/ ResolveSchemas \/ AcquireLock \/ EnsureLogbook => Goal
  BY DEF SpawnWatcher, ResolveSchemas, AcquireLock, EnsureLogbook, NotNeeded, Fail
<1>3. SetMaintenanceWorkMem => Goal
  BY DEF SetMaintenanceWorkMem, MustSet, Fail, Gucs
<1>4. SetVacuumCostDelay => Goal
  BY DEF SetVacuumCostDelay, MustSet, NotNeeded, Fail, Gucs
<1>5. SetVacuumCostLimit => Goal
  BY DEF SetVacuumCostLimit, MustSet, NotNeeded, Fail, Gucs
<1>6. SetVacuumBufferUsageLimit => Goal
  BY DEF SetVacuumBufferUsageLimit, MaySet, NotNeeded, Gucs
<1>7. SetMaxParallelMaintenanceWorkers => Goal
  BY DEF SetMaxParallelMaintenanceWorkers, MaySet, Gucs
<1>8. SetLockTimeout => Goal
  BY DEF SetLockTimeout, MustSet, Fail, Gucs
<1>9. ReadFreezeMaxAge \/ LogInitialReplicaLag \/ LogInitialXminHorizon => Goal
  BY DEF ReadFreezeMaxAge, LogInitialReplicaLag, LogInitialXminHorizon, Required, NotNeeded, Fail
<1>10. ResolveExplicitTables => Goal
  BY DEF ResolveExplicitTables, Fail
<1> QED
  BY <1>1, <1>2, <1>3, <1>4, <1>5, <1>6, <1>7, <1>8, <1>9, <1>10 DEF SessionStep

(* set_throttle and set_lock_timeout end the program when they fail, so    *)
(* past them the session has what was asked of it.                         *)
LEMMA SessionHolds == Spec => []SessionInv
<1> USE DEF Configuring, Connecting, Throttled, Ready
<1>1. Init => SessionInv
  BY DEF Init, ConfigurationInit, SessionInv, Gucs
<1>2. SessionInv /\ [Next]_vars => SessionInv'
  <2> SUFFICES ASSUME SessionInv, [Next]_vars PROVE SessionInv'
    OBVIOUS
  <2>1. CASE SessionStep /\ UNCHANGED configuration /\ Follows
    <3>1. Throttle' = Throttle /\ args' = args
      BY <2>1, Unmoved DEF configuration
    <3>2. /\ DOMAIN session' = Gucs
          /\ session'["vacuum_cost_delay"] # session["vacuum_cost_delay"] => pc = "delay"
          /\ session'["vacuum_cost_limit"] # session["vacuum_cost_limit"] => pc = "cost"
          /\ session'["lock_timeout"] # session["lock_timeout"] => pc = "timeout"
          /\ pc = "delay" /\ pc' = "cost" =>
                session'["vacuum_cost_delay"] = IF Throttle.cost_delay_ms = None
                   THEN session["vacuum_cost_delay"] ELSE Throttle.cost_delay_ms
          /\ pc = "cost" /\ pc' = "buffer" =>
                session'["vacuum_cost_limit"] = IF Throttle.cost_limit = None
                   THEN session["vacuum_cost_limit"] ELSE Throttle.cost_limit
          /\ pc = "timeout" /\ pc' = "freeze" => session'["lock_timeout"] = args["lock_timeout_ms"]
      BY <2>1, SessionSteps DEF SessionInv
    <3>3. pc' \in Connecting \cup {"delay"} => session'["vacuum_cost_delay"] = None
      BY <2>1, <3>2 DEF SessionInv, Follows
    <3>4. pc' \in Connecting \cup {"delay", "cost"} => session'["vacuum_cost_limit"] = None
      BY <2>1, <3>2 DEF SessionInv, Follows
    <3>5. pc' \in {"cost"} \cup Throttled \cup Ready =>
             session'["vacuum_cost_delay"] = Throttle.cost_delay_ms
      BY <2>1, <3>2 DEF SessionInv, Follows
    <3>6. pc' \in Throttled \cup Ready => session'["vacuum_cost_limit"] = Throttle.cost_limit
      BY <2>1, <3>2 DEF SessionInv, Follows
    <3>7. pc' \in Ready => session'["lock_timeout"] = args["lock_timeout_ms"]
      BY <2>1, <3>2 DEF SessionInv, Follows
    <3>8. pc' \notin Configuring
      BY <2>1 DEF Follows
    <3> QED
      BY <3>1, <3>2, <3>3, <3>4, <3>5, <3>6, <3>7, <3>8 DEF SessionInv
  <2>2. CASE UNCHANGED << configuration, pc, session, resolved >>
    <3>1. Throttle' = Throttle /\ args' = args /\ pc' = pc /\ session' = session
      BY <2>2, Unmoved DEF configuration
    <3> QED
      BY <3>1 DEF SessionInv
  <2>3. CASE ConfigurationNext /\ UNCHANGED << server, alive, session, resolved >>
    <3>1. /\ pc \in Configuring /\ session' = session
          /\ pc' \in Configuring \cup {"connect", "rejected"}
      BY <2>3, ConfigurationFollows
    <3> QED
      BY <3>1 DEF SessionInv
  <2> QED
    BY <2>1, <2>2, <2>3, StepKinds
<1> QED
  BY <1>1, <1>2, PTL DEF Spec

(* What ResolveSchemas, AcquireLock and ResolveExplicitTables do to the    *)
(* lists, which no other step changes.                                     *)
LEMMA ScopeSteps ==
    ASSUME SessionStep
    PROVE  /\ schemas' # schemas => pc = "schemas"
           /\ locked' # locked => pc = "lock"
           /\ also' # also => pc = "also"
           /\ pc = "schemas" /\ pc' = "lock" => schemas' # << >>
           /\ pc = "lock" /\ pc' = "logbook" => locked' = schemas
           /\ pc = "also" /\ pc' = "run" =>
                 also' = Kept(InScope, {n \in DOMAIN InScope : InScope[n] \in server.relations})
<1> DEFINE Goal ==
           /\ schemas' # schemas => pc = "schemas"
           /\ locked' # locked => pc = "lock"
           /\ also' # also => pc = "also"
           /\ pc = "schemas" /\ pc' = "lock" => schemas' # << >>
           /\ pc = "lock" /\ pc' = "logbook" => locked' = schemas
           /\ pc = "also" /\ pc' = "run" =>
                 also' = Kept(InScope, {n \in DOMAIN InScope : InScope[n] \in server.relations})
<1> USE DEF Fail, resolved
<1>1. Connect \/ SpawnWatcher \/ AcquireLock => Goal
  BY DEF Connect, SpawnWatcher, AcquireLock
<1>2. ResolveSchemas => Goal
  BY DEF ResolveSchemas
<1>3. EnsureLogbook => Goal
  BY DEF EnsureLogbook, NotNeeded
<1>4. SetMaintenanceWorkMem \/ SetVacuumCostDelay \/ SetVacuumCostLimit \/ SetLockTimeout => Goal
  BY DEF SetMaintenanceWorkMem, SetVacuumCostDelay, SetVacuumCostLimit, SetLockTimeout, MustSet,
         NotNeeded
<1>5. SetVacuumBufferUsageLimit \/ SetMaxParallelMaintenanceWorkers => Goal
  BY DEF SetVacuumBufferUsageLimit, SetMaxParallelMaintenanceWorkers, MaySet, NotNeeded
<1>6. ReadFreezeMaxAge \/ LogInitialReplicaLag \/ LogInitialXminHorizon => Goal
  BY DEF ReadFreezeMaxAge, LogInitialReplicaLag, LogInitialXminHorizon, Required, NotNeeded
<1>7. ResolveExplicitTables => Goal
  BY DEF ResolveExplicitTables
<1> QED
  BY <1>1, <1>2, <1>3, <1>4, <1>5, <1>6, <1>7 DEF SessionStep

(* From AcquireLock on the list that is worked on is the one that is       *)
(* locked.                                                                 *)
LEMMA ScopeHolds == Spec => []ScopeInv
<1> USE DEF Configuring, Connecting, Throttled, Ready
<1>1. Init => ScopeInv
  BY DEF Init, ConfigurationInit, ScopeInv
<1>2. ScopeInv /\ [Next]_vars => ScopeInv'
  <2> SUFFICES ASSUME ScopeInv, [Next]_vars PROVE ScopeInv'
    OBVIOUS
  <2>1. CASE SessionStep /\ UNCHANGED configuration /\ Follows
    <3>1. AlsoTables' = AlsoTables /\ server' = server
      BY <2>1, Unmoved DEF configuration
    <3>2. /\ schemas' # schemas => pc = "schemas"
          /\ locked' # locked => pc = "lock"
          /\ pc = "schemas" /\ pc' = "lock" => schemas' # << >>
          /\ pc = "lock" /\ pc' = "logbook" => locked' = schemas
          /\ pc = "also" /\ pc' = "run" =>
                also' = Kept(InScope, {n \in DOMAIN InScope : InScope[n] \in server.relations})
      BY <2>1, ScopeSteps
    <3>3. /\ pc' = "lock" => schemas' # << >>
          /\ pc' \in {"logbook", "mem", "delay", "cost"} \cup Throttled \cup Ready =>
                locked' = schemas' /\ schemas' # << >>
      BY <2>1, <3>2 DEF ScopeInv, Follows
    <3>4. pc' = "run" => also' = Kept(InScope', {n \in DOMAIN InScope' : InScope'[n] \in server'.relations})
      <4>1. pc' = "run" => pc = "also" /\ schemas' = schemas
        BY <2>1, <3>2 DEF Follows
      <4>2. schemas' = schemas => InScope' = InScope
        BY <3>1 DEF InScope
      <4> QED
        BY <3>1, <3>2, <4>1, <4>2
    <3> QED
      BY <3>3, <3>4 DEF ScopeInv
  <2>2. CASE UNCHANGED << configuration, pc, session, resolved >>
    <3>1. /\ AlsoTables' = AlsoTables /\ server' = server
          /\ pc' = pc /\ schemas' = schemas /\ locked' = locked /\ also' = also
      BY <2>2, Unmoved DEF configuration, resolved
    <3>2. InScope' = InScope
      BY <3>1 DEF InScope
    <3> QED
      BY <3>1, <3>2 DEF ScopeInv
  <2>3. CASE ConfigurationNext
    <3>1. pc' \in Configuring \cup {"connect", "rejected"}
      BY <2>3, ConfigurationFollows
    <3> QED
      BY <3>1 DEF ScopeInv
  <2> QED
    BY <2>1, <2>2, <2>3, StepKinds
<1> QED
  BY <1>1, <1>2, PTL DEF Spec

-----------------------------------------------------------------------------
(* The sources of a setting.                                               *)

(* The source that counts is the first that names something: what is not   *)
(* the default, and parses.                                                *)
Highest(s, default) ==
    LET Names(v) == v \notin {None, Malformed, default}
    IN  IF Names(s[1]) THEN s[1] ELSE IF Names(s[2]) THEN s[2]
        ELSE IF Names(s[3]) THEN s[3] ELSE default

(* The choice among three sources: the first that names something.         *)
LEMMA HighestSource ==
    ASSUME NEW s, NEW default,
           NEW named, named = {n \in 1..3 : s[n] \notin {None, Malformed, default}}
    PROVE  IF named = {} THEN Highest(s, default) = default
           ELSE \E n \in named : /\ Highest(s, default) = s[n]
                                 /\ \A m \in named : n <= m
<1> DEFINE Names(v) == v \notin {None, Malformed, default}
<1>1. \A n : n \in named <=> n \in {1, 2, 3} /\ Names(s[n])
  <2>1. 1..3 = {1, 2, 3}
    OBVIOUS
  <2> QED
    BY <2>1
<1>2. Highest(s, default) = IF Names(s[1]) THEN s[1] ELSE IF Names(s[2]) THEN s[2]
                            ELSE IF Names(s[3]) THEN s[3] ELSE default
  BY DEF Highest
<1> HIDE DEF Names
<1>3. CASE Names(s[1])
  <2>1. 1 \in named /\ Highest(s, default) = s[1] /\ \A m \in named : 1 <= m
    BY <1>1, <1>2, <1>3
  <2> QED
    BY <2>1
<1>4. CASE ~Names(s[1]) /\ Names(s[2])
  <2>1. 2 \in named /\ Highest(s, default) = s[2] /\ \A m \in named : 2 <= m
    BY <1>1, <1>2, <1>4
  <2> QED
    BY <2>1
<1>5. CASE ~Names(s[1]) /\ ~Names(s[2]) /\ Names(s[3])
  <2>1. 3 \in named /\ Highest(s, default) = s[3] /\ \A m \in named : 3 <= m
    BY <1>1, <1>2, <1>5
  <2> QED
    BY <2>1
<1>6. CASE ~Names(s[1]) /\ ~Names(s[2]) /\ ~Names(s[3])
  <2>1. named = {} /\ Highest(s, default) = default
    BY <1>1, <1>2, <1>6
  <2> QED
    BY <2>1
<1> QED
  BY <1>3, <1>4, <1>5, <1>6

(* The three sources, each by its name.                                    *)
LEMMA SourcesAre ==
    ASSUME NEW f
    PROVE  /\ Sources(f)[1] = Given(command.cli, f)
           /\ Sources(f)[2] = IF command.file = None THEN None ELSE Given(Config, f)
           /\ Sources(f)[3] = IF f \in DsnFields /\ DsnSource # None
                              THEN Given(DsnSource, f) ELSE None
BY DEF Sources

(* What the file names, its references resolved, parses, except where the  *)
(* code parses it after the merge.                                         *)
LEMMA FileParses ==
    ASSUME command \in Commands, command.file \notin {None, Malformed}, NEW f,
           Given(Config, f) # None, Given(Config, f) = Malformed
    PROVE  f \in ParsedFields \cup {"dsn"}
<1>1. /\ FileOf(command) = command.file
      /\ \A g \in DOMAIN command.file \ (ParsedFields \cup {"dsn"}) : command.file[g] # Malformed
      /\ Given(command.file, "password") = Reference => Given(command.env, "variable") # Malformed
  BY ValuesAssumption DEF FileOf
<1>2. /\ DOMAIN Config = DOMAIN command.file
      /\ \A g \in DOMAIN command.file : Config[g] =
            IF g \in {"password", "dsn"} THEN resolve_env_interpolation(command.file[g])
            ELSE command.file[g]
  BY DEF Config
<1>3. f \in DOMAIN command.file /\ Config[f] = Malformed
  BY <1>2 DEF Given
<1>4. CASE f = "password"
  <2>1. command.file[f] # Malformed /\ Given(command.file, f) = command.file[f]
    BY <1>1, <1>3, <1>4 DEF ParsedFields, Given
  <2> QED
    BY <1>1, <1>2, <1>3, <1>4, <2>1 DEF resolve_env_interpolation
<1>5. CASE f \notin {"password", "dsn"}
  BY <1>1, <1>2, <1>3, <1>5
<1> QED
  BY <1>4, <1>5

(* The connection string that is in use is one of those that were given,   *)
(* and it parsed.                                                          *)
LEMMA SourceIsGiven ==
    ASSUME ArgsInv, Completed, DsnSource # None
    PROVE  DsnSource \in ConnectionStrings(command)
<1>1. /\ command \in Commands /\ DsnSource # Malformed /\ command.file # Malformed
      /\ "dsn" \in Fields /\ "dsn" \notin DsnFields /\ args["dsn"] = FileMerged["dsn"]
      /\ ArgsDefault("dsn") = None
  <2>1. "dsn" \in Fields /\ "dsn" \notin DsnFields /\ ArgsDefault("dsn") = None
    BY DEF Fields, Options, DsnFields, ArgsDefault, Flags
  <2> QED
    BY <2>1 DEF ArgsInv, Completed
<1>2. Parsed(command.cli)["dsn"] = Given(command.cli, "dsn")
  BY <1>1 DEF Parsed, Given
<1>3. CASE args["dsn"] = None
  BY <1>1, <1>3 DEF DsnSource, ConnectionStrings
<1>4. CASE args["dsn"] # None /\ FileMerged["dsn"] = Parsed(command.cli)["dsn"]
  BY <1>1, <1>2, <1>4 DEF DsnSource, ConnectionStrings
<1>5. CASE args["dsn"] # None /\ FileMerged["dsn"] # Parsed(command.cli)["dsn"]
  <2>1. command.file # None
    BY <1>5 DEF FileMerged
  <2>2. FileMerged["dsn"] = Config["dsn"] /\ Given(Config, "dsn") # None
    BY <1>1, <1>5, <2>1 DEF FileMerged, merge_config
  <2>3. "dsn" \in DOMAIN command.file /\ Config["dsn"] = resolve_env_interpolation(command.file["dsn"])
    BY <2>2 DEF Given, Config
  <2>4. Given(FileOf(command), "dsn") = command.file["dsn"]
    BY <1>1, <2>1, <2>3 DEF FileOf, Given
  <2>5. DsnSource = Config["dsn"]
    BY <1>1, <1>5, <2>2 DEF DsnSource
  <2> QED
    BY <1>1, <2>3, <2>4, <2>5 DEF ConnectionStrings, resolve_env_interpolation
<1> QED
  BY <1>3, <1>4, <1>5

(* Args::parse, merge_config and the filling from the connection string    *)
(* come to the highest source.                                             *)
LEMMA MergedIsHighest ==
    ASSUME ArgsInv, Completed, NEW f \in Fields
    PROVE  args[f] = Highest(Sources(f), ArgsDefault(f))
<1> DEFINE D == ArgsDefault(f)
           Names(v) == v \notin {None, Malformed, D}
           s1 == Sources(f)[1]
           s2 == Sources(f)[2]
           s3 == Sources(f)[3]
<1>1. /\ command \in Commands /\ DsnSource # Malformed /\ command.file # Malformed
      /\ args[f] = IF /\ f \in DsnFields /\ DsnSource # None /\ FileMerged[f] = D
                      /\ Given(DsnSource, f) # None
                   THEN DsnSource[f] ELSE FileMerged[f]
  BY DEF ArgsInv, Completed
<1>2. /\ s1 = Given(command.cli, f)
      /\ s2 = IF command.file = None THEN None ELSE Given(Config, f)
      /\ s3 = IF f \in DsnFields /\ DsnSource # None THEN Given(DsnSource, f) ELSE None
  BY SourcesAre
<1>3. Highest(Sources(f), D) = IF Names(s1) THEN s1 ELSE IF Names(s2) THEN s2
                               ELSE IF Names(s3) THEN s3 ELSE D
  BY DEF Highest
<1> HIDE DEF s1, s2, s3, D
<1>4. f = "dsn" => D = None /\ f \notin DsnFields /\ args["dsn"] = FileMerged["dsn"]
  <2>1. f = "dsn" => ArgsDefault(f) = None /\ f \notin DsnFields
    BY DEF Options, DsnFields, ArgsDefault, Flags
  <2> QED
    BY <1>1, <2>1 DEF D
<1>5. f = "dsn" /\ FileMerged[f] = Malformed => Malformed = None
  BY <1>1, <1>4 DEF DsnSource
<1>6. /\ f \in DOMAIN command.cli => command.cli[f] # None /\ (f # "dsn" => command.cli[f] # Malformed)
      /\ Parsed(command.cli)[f] = IF f \in DOMAIN command.cli THEN command.cli[f] ELSE D
  BY <1>1, ValuesAssumption DEF Parsed, WellTyped, D
<1>7. Parsed(command.cli)[f] # D => FileMerged[f] = Parsed(command.cli)[f]
  BY DEF FileMerged, merge_config, D
<1>8. f \in DOMAIN command.cli => command.cli[f] # Malformed
  BY <1>4, <1>5, <1>6, <1>7
<1>9. Parsed(command.cli)[f] = IF Names(s1) THEN s1 ELSE D
  BY <1>2, <1>6, <1>8 DEF Given
<1>10. FileMerged[f] = IF Names(s1) THEN s1 ELSE IF Names(s2) THEN s2 ELSE D
  <2>1. CASE Names(s1)
    BY <1>7, <1>9, <2>1
  <2>2. CASE ~Names(s1) /\ command.file = None
    BY <1>2, <1>9, <2>2 DEF FileMerged
  <2>3. CASE ~Names(s1) /\ command.file # None
    <3>1. Parsed(command.cli)[f] = D /\ s2 = Given(Config, f)
      BY <1>2, <1>9, <2>3
    <3>2. FileMerged[f] = IF s2 = None \/ (f \in ParsedFields /\ Config[f] = Malformed)
                          THEN D ELSE Config[f]
      BY <2>3, <3>1 DEF FileMerged, merge_config, D
    <3>3. s2 # None => Config[f] = s2
      BY <3>1 DEF Given
    <3>4. s2 # None /\ s2 = Malformed => f \in ParsedFields \cup {"dsn"}
      BY <1>1, <2>3, <3>1, FileParses
    <3>5. f = "dsn" => f \notin ParsedFields
      BY DEF ParsedFields
    <3>6. s2 # None /\ s2 = Malformed => f \in ParsedFields
      BY <1>5, <3>2, <3>3, <3>4, <3>5
    <3> QED
      BY <2>3, <3>2, <3>3, <3>6
  <2> QED
    BY <2>1, <2>2, <2>3
<1>11. s3 # None => /\ s3 # Malformed /\ s3 = DsnSource[f]
                    /\ f \in DsnFields /\ DsnSource # None /\ Given(DsnSource, f) # None
  <2> SUFFICES ASSUME s3 # None
               PROVE  /\ s3 # Malformed /\ s3 = DsnSource[f]
                      /\ f \in DsnFields /\ DsnSource # None /\ Given(DsnSource, f) # None
    OBVIOUS
  <2>1. f \in DsnFields /\ DsnSource # None /\ s3 = Given(DsnSource, f)
    BY <1>2
  <2>2. Given(DsnSource, f) # Malformed
    BY <1>1, <2>1, SourceIsGiven, ValuesAssumption
  <2> QED
    BY <2>1, <2>2 DEF Given
<1>12. s3 = None => args[f] = FileMerged[f]
  BY <1>1, <1>2
<1>13. s3 # None => args[f] = IF FileMerged[f] = D THEN s3 ELSE FileMerged[f]
  BY <1>1, <1>11
<1>14. args[f] = IF Names(s1) THEN s1 ELSE IF Names(s2) THEN s2 ELSE IF Names(s3) THEN s3 ELSE D
  BY <1>10, <1>11, <1>12, <1>13
<1> QED
  BY <1>3, <1>14 DEF D

(* A flag is on when the command line or the file switches it on, and the  *)
(* file's FALSE is what an absent flag is.                                 *)
LEMMA FlagSources ==
    ASSUME ArgsInv, Completed, NEW f \in Flags
    PROVE  /\ f \in Fields \ DOMAIN Defaults /\ ArgsDefault(f) = FALSE
           /\ Sources(f)[1] \in {None, TRUE} /\ Sources(f)[2] \in {None, TRUE, FALSE}
           /\ Sources(f)[3] = None
           /\ Sources(f)[1] = Malformed => Sources(f)[1] = None
           /\ Sources(f)[2] = Malformed => Sources(f)[2] = None
<1>1. /\ f \in Fields \ DOMAIN Defaults /\ ArgsDefault(f) = FALSE
      /\ f \notin DsnFields /\ f \notin ParsedFields /\ f \notin {"dsn", "password"}
  <2>1. f \in Fields /\ ArgsDefault(f) = FALSE
    <3>1. f \notin Options
      BY SMT DEF Flags, Options
    <3>2. ArgsDefault(f) = FALSE
      BY Zenon, <3>1 DEF ArgsDefault
    <3> QED
      BY <3>2 DEF Fields
  <2>2. f \notin DsnFields /\ f \notin ParsedFields /\ f \notin {"dsn", "password"}
    BY DEF Flags, DsnFields, ParsedFields
  <2>3. f \notin DOMAIN Defaults
    BY SMT DEF Flags, Defaults
  <2> QED
    BY <2>1, <2>2, <2>3
<1>2. command \in Commands /\ command.file # Malformed
  BY DEF ArgsInv, Completed
<1>3. /\ f \in DOMAIN command.cli => command.cli[f] = TRUE /\ command.cli[f] # Malformed
      /\ WellTyped(FileOf(command))
  BY <1>1, <1>2, ValuesAssumption
<1>4. Sources(f)[1] \in {None, TRUE} /\ (Sources(f)[1] = Malformed => Sources(f)[1] = None)
  BY <1>3, SourcesAre DEF Given
<1>5. Sources(f)[2] \in {None, TRUE, FALSE}
  <2>1. CASE command.file = None
    BY <2>1, SourcesAre
  <2>2. CASE command.file # None
    <3>1. FileOf(command) = command.file /\ Sources(f)[2] = Given(Config, f)
      BY <1>2, <2>2, SourcesAre DEF FileOf
    <3>2. f \in DOMAIN command.file => Config[f] = command.file[f] /\ command.file[f] \in BOOLEAN
      BY <1>1, <1>3, <3>1 DEF Config, WellTyped
    <3>3. DOMAIN Config = DOMAIN command.file
      BY DEF Config
    <3> QED
      BY <3>1, <3>2, <3>3 DEF Given
  <2> QED
    BY <2>1, <2>2
<1>6. Sources(f)[2] = Malformed => Sources(f)[2] = None
  BY <1>1, <1>2, SourcesAre, FileParses
<1>7. Sources(f)[3] = None
  BY <1>1, SourcesAre
<1> QED
  BY <1>1, <1>4, <1>5, <1>6, <1>7

(* PrecedenceKept: once run() has completed the arguments (merge_config,   *)
(* resolve_dsn_source and the filling from what dsn::parse returned),      *)
(* every flag and option is that of its highest source, and every setting  *)
(* with a default in Args that of the highest source that says anything    *)
(* else.                                                                   *)
THEOREM PrecedenceIsKept == Spec => []PrecedenceKept
<1>1. ArgsInv => PrecedenceKept
  <2> SUFFICES ASSUME ArgsInv, Completed, NEW f \in Fields,
                      NEW given, given = {n \in 1..3 : Sources(f)[n] \notin {None, Malformed}},
                      NEW heard,
                      heard = IF f \in DOMAIN Defaults
                              THEN {n \in given : Sources(f)[n] # Defaults[f]} ELSE given
               PROVE  IF heard = {} THEN args[f] = ArgsDefault(f)
                      ELSE \E n \in heard : /\ args[f] = Sources(f)[n]
                                            /\ \A m \in heard : n <= m
    BY DEF PrecedenceKept
  <2> DEFINE named == {n \in 1..3 : Sources(f)[n] \notin {None, Malformed, ArgsDefault(f)}}
  <2>1. args[f] = Highest(Sources(f), ArgsDefault(f))
    BY MergedIsHighest
  <2>2. ASSUME heard = named
        PROVE  IF heard = {} THEN args[f] = ArgsDefault(f)
               ELSE \E n \in heard : args[f] = Sources(f)[n] /\ \A m \in heard : n <= m
    BY <2>1, <2>2, HighestSource
  <2>3. CASE f \in DOMAIN Defaults
    <3>1. ArgsDefault(f) = Defaults[f]
      <4>1. f \notin Flags /\ f \notin Options
        BY SMT, <2>3 DEF Defaults, Flags, Options
      <4> QED
        BY Zenon, <4>1 DEF ArgsDefault
    <3>2. heard = named
      BY <2>3, <3>1
    <3> QED
      BY <2>2, <3>2
  <2>4. CASE f \in Options
    <3>1. ArgsDefault(f) = None /\ f \notin DOMAIN Defaults
      BY <2>4 DEF ArgsDefault, Defaults, Flags, Options
    <3>2. heard = named
      BY <3>1
    <3> QED
      BY <2>2, <3>2
  <2>5. CASE f \in Flags
    <3> DEFINE s == Sources(f)
    <3>1. /\ f \notin DOMAIN Defaults /\ ArgsDefault(f) = FALSE
          /\ s[1] \in {None, TRUE} /\ s[2] \in {None, TRUE, FALSE} /\ s[3] = None
          /\ s[1] = Malformed => s[1] = None
          /\ s[2] = Malformed => s[2] = None
      BY <2>5, FlagSources
    <3>2. args[f] = IF s[1] = TRUE THEN TRUE ELSE IF s[2] = TRUE THEN TRUE ELSE FALSE
      BY <2>1, <3>1, NoneAssumption DEF Highest
    <3>3. \A n : n \in heard <=> n \in {1, 2, 3} /\ s[n] \notin {None, Malformed}
      <4>1. 1..3 = {1, 2, 3} /\ heard = given
        BY <3>1
      <4> QED
        BY <4>1
    <3> HIDE DEF s
    <3>4. \A n : n \in heard <=> (n = 1 /\ s[1] = TRUE) \/ (n = 2 /\ s[2] # None)
      BY <3>1, <3>3, NoneAssumption
    <3>5. CASE s[1] = TRUE
      <4>1. 1 \in heard /\ \A m \in heard : 1 <= m
        BY <3>4, <3>5
      <4>2. args[f] = s[1]
        BY Zenon, <3>2, <3>5
      <4> QED
        BY <4>1, <4>2 DEF s
    <3>6. CASE s[1] # TRUE /\ s[2] # None
      <4>1. 2 \in heard /\ \A m \in heard : m = 2
        BY Zenon, <3>4, <3>6
      <4>2. s[2] = TRUE \/ s[2] = FALSE
        BY Zenon, <3>1, <3>6
      <4>3. args[f] = s[2]
        BY Zenon, <3>2, <3>6, <4>2
      <4> QED
        BY <4>1, <4>3 DEF s
    <3>7. CASE s[1] # TRUE /\ s[2] = None
      <4>1. heard = {} /\ args[f] = FALSE
        BY <3>2, <3>4, <3>7, NoneAssumption
      <4> QED
        BY <3>1, <4>1
    <3> QED
      BY <3>5, <3>6, <3>7
  <2> QED
    BY <2>3, <2>4, <2>5 DEF Fields
<1> QED
  BY <1>1, ArgsHold, PTL

-----------------------------------------------------------------------------
(* The password.                                                           *)

(* get_password_from_pgpass returns the password of the first entry that   *)
(* fits, and none only when none fits or the file's mode is not 0600.      *)
LEMMA FirstEntryThatFits ==
    ASSUME command \in Commands, NEW endpoint,
           NEW entries,
           entries = IF command.pgpass.mode = "0600" THEN command.pgpass.entries ELSE << >>
    PROVE  \/ /\ get_password_from_pgpass(endpoint) = None
              /\ \A n \in DOMAIN entries : ~Matches(entries[n], endpoint)
           \/ \E n \in DOMAIN entries :
                 /\ Matches(entries[n], endpoint)
                 /\ get_password_from_pgpass(endpoint) = entries[n].password
                 /\ \A m \in 1..(n - 1) : ~Matches(entries[m], endpoint)
<1> DEFINE list == command.pgpass.entries
           matching == {n \in DOMAIN list : Matches(list[n], endpoint)}
           first == CHOOSE n \in matching : \A m \in matching : n <= m
<1>1. get_password_from_pgpass(endpoint) =
        IF command.pgpass.mode # "0600" \/ matching = {} THEN None ELSE list[first].password
  BY DEF get_password_from_pgpass
<1>2. Len(list) \in Nat /\ DOMAIN list = 1..Len(list)
  BY ValuesAssumption DEF IsList
<1>3. CASE command.pgpass.mode # "0600"
  <2>1. get_password_from_pgpass(endpoint) = None /\ entries = << >>
    BY <1>1, <1>3
  <2> QED
    BY <2>1
<1>4. CASE command.pgpass.mode = "0600" /\ matching = {}
  <2>1. get_password_from_pgpass(endpoint) = None /\ entries = list
    BY <1>1, <1>4
  <2> QED
    BY <1>4, <2>1
<1>5. CASE command.pgpass.mode = "0600" /\ matching # {}
  <2>1. get_password_from_pgpass(endpoint) = list[first].password /\ entries = list
    BY <1>1, <1>5
  <2>2. matching \in SUBSET (1..Len(list))
    BY <1>2
  <2> HIDE DEF matching
  <2>3. IsFiniteSet(matching) /\ matching \in SUBSET Int
    BY <1>2, <2>2, ChoiceIsFinite
  <2>4. \E n \in matching : \A m \in matching : n <= m
    BY <1>5, <2>3, FirstPosition
  <2>5. first \in matching /\ \A m \in matching : first <= m
    BY <2>4
  <2> HIDE DEF first
  <2>6. first \in 1..Len(list) /\ Matches(list[first], endpoint)
    BY <1>2, <2>5 DEF matching
  <2>7. ASSUME NEW m \in 1..(first - 1) PROVE ~Matches(list[m], endpoint)
    <3>1. m \in 1..Len(list) /\ ~(first <= m)
      BY <1>2, <2>6
    <3>2. m \notin matching
      BY <2>5, <3>1
    <3> QED
      BY <1>2, <3>1, <3>2 DEF matching
  <2> QED
    BY <1>2, <2>1, <2>6, <2>7
<1> QED
  BY <1>3, <1>4, <1>5

(* PasswordMatchesEndpoint: the password that ConnectionConfig::from_args  *)
(* takes for the endpoint is the first that was given outright, else that  *)
(* of the first .pgpass entry that fits that endpoint, for every           *)
(* environment and every .pgpass file.                                     *)
THEOREM PasswordFitsEndpoint == Spec => []PasswordMatchesEndpoint
<1>1. ArgsInv /\ ConnInv => PasswordMatchesEndpoint
  <2> SUFFICES ASSUME ArgsInv, ConnInv, conn # None PROVE PasswordMatchesEndpoint
    BY DEF PasswordMatchesEndpoint
  <2> DEFINE s == << args["password"], Given(command.env, "PG_PASSWORD"),
                     Given(command.env, "PG_PASSWORD_FILE") >>
             outright == {n \in 1..3 : s[n] # None}
             entries == IF command.pgpass.mode = "0600" THEN command.pgpass.entries ELSE << >>
             fits(n) == entries[n] # Malformed
                        /\ \A f \in DOMAIN conn.endpoint : entries[n][f] \in {Wildcard, conn.endpoint[f]}
             Outright == \E n \in outright : /\ conn.password = s[n]
                                            /\ \A m \in outright : n <= m
             Entry == \/ conn.password = None /\ \A n \in DOMAIN entries : ~fits(n)
                      \/ \E n \in DOMAIN entries :
                            /\ fits(n) /\ conn.password = entries[n].password
                            /\ \A m \in 1..(n - 1) : ~fits(m)
  <2>1. conn.endpoint = Endpoint /\ conn.password = Password(Endpoint) /\ command \in Commands
    BY DEF ConnInv, ArgsInv
  <2>2. conn.password = IF s[1] # None THEN s[1] ELSE IF s[2] # None THEN s[2]
                        ELSE IF s[3] # None THEN s[3] ELSE get_password_from_pgpass(Endpoint)
    BY <2>1 DEF Password, OrElse
  <2>3. \A n : n \in outright <=> n \in {1, 2, 3} /\ s[n] # None
    <3>1. 1..3 = {1, 2, 3}
      OBVIOUS
    <3> QED
      BY <3>1
  <2>4. \A n : fits(n) <=> Matches(entries[n], conn.endpoint)
    BY DEF Matches
  <2>5. outright # {} => Outright
    <3> HIDE DEF s, outright
    <3> SUFFICES ASSUME outright # {} PROVE Outright
      OBVIOUS
    <3>1. CASE s[1] # None
      <4>1. 1 \in outright /\ conn.password = s[1] /\ \A m \in outright : 1 <= m
        BY <2>2, <2>3, <3>1
      <4> QED
        BY <4>1
    <3>2. CASE s[1] = None /\ s[2] # None
      <4>1. 2 \in outright /\ conn.password = s[2] /\ \A m \in outright : 2 <= m
        BY <2>2, <2>3, <3>2
      <4> QED
        BY <4>1
    <3>3. CASE s[1] = None /\ s[2] = None
      <4>1. 3 \in outright /\ conn.password = s[3] /\ \A m \in outright : 3 <= m
        BY <2>2, <2>3, <3>3
      <4> QED
        BY <4>1
    <3> QED
      BY <3>1, <3>2, <3>3
  <2>6. outright = {} => Entry
    <3>1. outright = {} => conn.password = get_password_from_pgpass(Endpoint)
      BY <2>2, <2>3
    <3>2. \/ /\ get_password_from_pgpass(Endpoint) = None
             /\ \A n \in DOMAIN entries : ~Matches(entries[n], Endpoint)
          \/ \E n \in DOMAIN entries :
                /\ Matches(entries[n], Endpoint)
                /\ get_password_from_pgpass(Endpoint) = entries[n].password
                /\ \A m \in 1..(n - 1) : ~Matches(entries[m], Endpoint)
      BY <2>1, FirstEntryThatFits
    <3> HIDE DEF entries, fits, outright, s
    <3> QED
      BY <2>1, <2>4, <3>1, <3>2
  <2>7. PasswordMatchesEndpoint <=> IF outright # {} THEN Outright ELSE Entry
    BY Zenon DEF PasswordMatchesEndpoint
  <2> HIDE DEF outright, Outright, Entry
  <2> QED
    BY <2>5, <2>6, <2>7
<1> QED
  BY <1>1, ArgsHold, ConnHolds, PTL

-----------------------------------------------------------------------------
(* What the run begins with.                                               *)

(* --gentle, from the command line or the file.                            *)
LEMMA GentleIsAsked ==
    ASSUME ArgsInv, Completed
    PROVE  args["gentle"] <=> \E n \in 1..2 : Sources("gentle")[n] = TRUE
<1> DEFINE s == Sources("gentle")
           Names(v) == v \notin {None, Malformed, FALSE}
<1>1. /\ "gentle" \in Fields /\ "gentle" \notin DsnFields /\ "gentle" \in Flags
      /\ "gentle" \notin {"password", "dsn"} /\ "gentle" \notin ParsedFields
      /\ "gentle" \notin Options
  BY DEF Fields, Flags, DsnFields, ParsedFields, Options
<1>2. ArgsDefault("gentle") = FALSE
  BY <1>1 DEF ArgsDefault
<1>3. command \in Commands /\ command.file # Malformed
  BY DEF ArgsInv, Completed
<1>4. s[1] = None \/ (s[1] \in BOOLEAN /\ s[1] # None /\ s[1] # Malformed)
  BY <1>1, <1>3, SourcesAre, ValuesAssumption DEF Given, WellTyped
<1>5. s[2] = None \/ (s[2] \in BOOLEAN /\ s[2] # None /\ s[2] # Malformed)
  <2>1. s[2] = IF command.file = None THEN None ELSE Given(Config, "gentle")
    BY SourcesAre
  <2>2. ASSUME command.file # None, Given(Config, "gentle") # None
        PROVE  Given(Config, "gentle") \in BOOLEAN /\ Given(Config, "gentle") # Malformed
    <3>1. "gentle" \in DOMAIN command.file /\ Given(Config, "gentle") = command.file["gentle"]
      BY <1>1, <2>2 DEF Given, Config
    <3>2. FileOf(command) = command.file
      BY <1>3, <2>2 DEF FileOf
    <3>3. WellTyped(command.file) /\ command.file["gentle"] # Malformed
      BY <1>1, <1>3, <3>1, <3>2, ValuesAssumption
    <3>4. command.file["gentle"] \in BOOLEAN
      BY <1>1, <3>1, <3>3, Zenon DEF WellTyped
    <3> QED
      BY <3>1, <3>3, <3>4
  <2> QED
    BY <2>1, <2>2
<1>6. s[3] = None
  BY <1>1, SourcesAre
<1>7. args["gentle"] = IF Names(s[1]) THEN s[1] ELSE IF Names(s[2]) THEN s[2]
                       ELSE IF Names(s[3]) THEN s[3] ELSE FALSE
  <2>1. args["gentle"] = Highest(s, FALSE)
    BY <1>1, <1>2, MergedIsHighest
  <2> QED
    BY <2>1, Zenon DEF Highest
<1>8. None # TRUE
  BY NoneAssumption
<1>9. (\E n \in 1..2 : s[n] = TRUE) <=> s[1] = TRUE \/ s[2] = TRUE
  <2>1. 1..2 = {1, 2}
    OBVIOUS
  <2> QED
    BY <2>1
<1> HIDE DEF s
<1>10. Names(s[1]) <=> s[1] = TRUE
  BY <1>4, <1>8
<1>11. Names(s[2]) <=> s[2] = TRUE
  BY <1>5, <1>8
<1>12. ~Names(s[3])
  BY <1>6
<1>13. s[1] = TRUE => args["gentle"] = TRUE
  BY <1>7, <1>10
<1>14. s[1] # TRUE /\ s[2] = TRUE => args["gentle"] = TRUE
  BY <1>7, <1>10, <1>11
<1>15. s[1] # TRUE /\ s[2] # TRUE => args["gentle"] = FALSE
  BY <1>7, <1>10, <1>11, <1>12
<1> QED
  BY <1>9, <1>13, <1>14, <1>15 DEF s

(* A cost setting with --gentle's preset is what the sources ask for.      *)
LEMMA AskedIsTaken ==
    ASSUME ArgsInv, Completed, NEW f \in {"vacuum_cost_delay_ms", "vacuum_cost_limit"}, NEW preset
    PROVE  Asked(f, preset) = IF args["gentle"] /\ ~Set(f) THEN preset ELSE args[f]
<1> DEFINE s == Sources(f)
           given == {n \in 1..3 : s[n] # None}
           named == {n \in 1..3 : s[n] \notin {None, Malformed, ArgsDefault(f)}}
           first == CHOOSE n \in given : \A m \in given : n <= m
           gentle == \E n \in 1..2 : Sources("gentle")[n] = TRUE
<1>1. /\ f \in Fields /\ f \notin DsnFields /\ f \notin ParsedFields /\ f # "dsn" /\ f # "password"
      /\ f \notin Flags /\ f \in Options /\ ArgsDefault(f) = None
  BY DEF Fields, Options, Flags, DsnFields, ParsedFields, ArgsDefault
<1>2. command \in Commands /\ command.file # Malformed
  BY DEF ArgsInv, Completed
<1>3. (s[1] = Malformed => s[1] = None) /\ (s[2] = Malformed => s[2] = None) /\ s[3] = None
  <2>1. s[1] = Malformed => s[1] = None
    BY <1>1, <1>2, SourcesAre, ValuesAssumption DEF Given
  <2>2. s[2] = Malformed => s[2] = None
    BY <1>1, <1>2, SourcesAre, FileParses
  <2>3. s[3] = None
    BY <1>1, SourcesAre
  <2> QED
    BY <2>1, <2>2, <2>3
<1>4. named = given
  <2>1. 1..3 = {1, 2, 3}
    OBVIOUS
  <2> HIDE DEF s
  <2> QED
    BY <1>1, <1>3, <2>1
<1>5. args[f] = Highest(s, ArgsDefault(f))
  BY <1>1, MergedIsHighest
<1> HIDE DEF s
<1>6. named = {n \in 1..3 : s[n] \notin {None, Malformed, ArgsDefault(f)}}
  OBVIOUS
<1> HIDE DEF named
<1>7. IF named = {} THEN Highest(s, ArgsDefault(f)) = ArgsDefault(f)
      ELSE \E n \in named : /\ Highest(s, ArgsDefault(f)) = s[n]
                            /\ \A m \in named : n <= m
  BY <1>6, HighestSource
<1>8. IF given = {} THEN args[f] = None
      ELSE \E n \in given : args[f] = s[n] /\ \A m \in given : n <= m
  BY <1>1, <1>4, <1>5, <1>7
<1>9. given # {} => args[f] = s[first] /\ args[f] # None
  <2> SUFFICES ASSUME given # {} PROVE args[f] = s[first] /\ args[f] # None
    OBVIOUS
  <2>1. PICK n \in given : args[f] = s[n] /\ \A m \in given : n <= m
    BY <1>8
  <2>2. first \in given /\ \A m \in given : first <= m
    BY <2>1
  <2>3. \A m \in given : m \in Int /\ s[m] # None
    OBVIOUS
  <2> HIDE DEF given, first
  <2>4. n = first
    BY <2>1, <2>2, <2>3
  <2> QED
    BY <2>1, <2>3, <2>4
<1>10. Asked(f, preset) = IF given # {} THEN s[first] ELSE IF gentle THEN preset ELSE None
  BY DEF Asked, s
<1>11. args["gentle"] <=> gentle
  BY GentleIsAsked
<1> HIDE DEF given, first, gentle
<1>12. CASE given # {}
  BY <1>9, <1>10, <1>12 DEF Set
<1>13. CASE given = {}
  <2>1. args[f] = None
    BY <1>8, <1>13
  <2> QED
    BY <1>10, <1>11, <1>13, <2>1 DEF Set
<1> QED
  BY <1>12, <1>13

(* ThrottleHonoured: a run that begins has the cost settings that its      *)
(* sources ask for, in every interleaving of the statements and their      *)
(* failures (set_throttle ends the program when a SET fails).              *)
THEOREM ThrottleIsHonoured == Spec => []ThrottleHonoured
<1>1. ArgsInv /\ SessionInv => ThrottleHonoured
  <2> SUFFICES ASSUME ArgsInv, SessionInv, pc = "run" PROVE ThrottleHonoured
    BY DEF ThrottleHonoured
  <2>1. Completed
    BY DEF Completed
  <2>2. /\ session["vacuum_cost_delay"] = Throttle.cost_delay_ms
        /\ session["vacuum_cost_limit"] = Throttle.cost_limit
    BY DEF SessionInv, Throttled, Ready
  <2>3. /\ Asked("vacuum_cost_delay_ms", 10) =
              IF args["gentle"] /\ ~Set("vacuum_cost_delay_ms") THEN 10 ELSE args["vacuum_cost_delay_ms"]
        /\ Asked("vacuum_cost_limit", 200) =
              IF args["gentle"] /\ ~Set("vacuum_cost_limit") THEN 200 ELSE args["vacuum_cost_limit"]
    BY <2>1, AskedIsTaken
  <2> QED
    BY <2>2, <2>3 DEF Throttle, ThrottleHonoured
<1> QED
  BY <1>1, ArgsHold, SessionHolds, PTL

(* NeverWaitsForever: whatever lock_timeout the sources give and the       *)
(* server has, a run begins only with one from 1 ms to a minute set.       *)
THEOREM WaitsAreLimited == Spec => []NeverWaitsForever
<1>1. ArgsInv /\ ValidInv /\ SessionInv => NeverWaitsForever
  <2> SUFFICES ASSUME ArgsInv, ValidInv, SessionInv, pc = "run"
               PROVE  NeverWaitsForever
    BY DEF NeverWaitsForever
  <2> DEFINE f == "lock_timeout_ms"
             s == Sources(f)
  <2>1. Completed /\ command \in Commands /\ command.file # Malformed
    BY DEF ArgsInv, Completed
  <2>2. f \in Fields /\ f \notin DsnFields /\ f \notin {"password", "dsn"} /\ ArgsDefault(f) = 10
    BY DEF Fields, Flags, Options, Defaults, DsnFields, ArgsDefault
  <2>3. session["lock_timeout"] = args[f]
    BY DEF SessionInv, Ready
  <2>4. ~Outside(f, 1, MAX_LOCK_TIMEOUT_MS)
    BY DEF ValidInv, Invalid, BadLimits
  <2>5. s[1] \in {None} \cup Int /\ s[2] \in {None} \cup Int /\ s[3] = None
    <3>1. s[1] \in {None} \cup Int
      BY <2>1, SourcesAre, ValuesAssumption DEF Given, WellTyped
    <3>2. s[2] \in {None} \cup Int
      <4>1. s[2] = IF command.file = None THEN None ELSE Given(Config, f)
        BY SourcesAre
      <4>2. ASSUME command.file # None, Given(Config, f) # None PROVE Given(Config, f) \in Int
        <5>1. f \in DOMAIN command.file /\ Given(Config, f) = command.file[f]
          BY <2>2, <4>2 DEF Given, Config
        <5>2. FileOf(command) = command.file
          BY <2>1, <4>2 DEF FileOf
        <5>3. WellTyped(command.file)
          BY <2>1, <5>2, ValuesAssumption
        <5> QED
          BY <5>1, <5>3 DEF WellTyped
      <4> QED
        BY <4>1, <4>2
    <3>3. s[3] = None
      BY <2>2, SourcesAre
    <3> QED
      BY <3>1, <3>2, <3>3
  <2>6. args[f] = Highest(s, 10)
    BY <2>1, <2>2, MergedIsHighest
  <2>7. args[f] \in Int
    BY <2>5, <2>6 DEF Highest
  <2>8. 1 <= args[f] /\ args[f] <= MAX_LOCK_TIMEOUT_MS
    BY <2>4, <2>7, NoneAssumption DEF Outside, Set
  <2>9. MAX_LOCK_TIMEOUT_MS \in Int
    BY DEF MAX_LOCK_TIMEOUT_MS
  <2> QED
    BY <2>3, <2>7, <2>8, <2>9 DEF NeverWaitsForever
<1> QED
  BY <1>1, ArgsHold, ValidHolds, SessionHolds, PTL

-----------------------------------------------------------------------------
(* The explicit tables.                                                    *)

(* --also-tables is a list, from whatever source.                          *)
LEMMA AlsoTablesAreListed ==
    ASSUME ArgsInv, Completed, Set("also_tables")
    PROVE  IsList(args["also_tables"])
<1> DEFINE f == "also_tables"
           s == Sources(f)
<1>1. /\ f \in Fields /\ f \notin DsnFields /\ f \notin {"password", "dsn"} /\ ArgsDefault(f) = None
  BY DEF Fields, Flags, Options, DsnFields, ArgsDefault
<1>2. command \in Commands /\ command.file # Malformed
  BY DEF ArgsInv, Completed
<1>3. s[1] # None => IsList(s[1])
  BY <1>2, SourcesAre, ValuesAssumption DEF Given, WellTyped
<1>4. s[2] # None => IsList(s[2])
  <2>1. s[2] = IF command.file = None THEN None ELSE Given(Config, f)
    BY SourcesAre
  <2>2. ASSUME command.file # None, Given(Config, f) # None PROVE IsList(Given(Config, f))
    <3>1. f \in DOMAIN command.file /\ Given(Config, f) = command.file[f]
      BY <1>1, <2>2 DEF Given, Config
    <3>2. FileOf(command) = command.file
      BY <1>2, <2>2 DEF FileOf
    <3>3. WellTyped(command.file)
      BY <1>2, <3>2, ValuesAssumption
    <3> QED
      BY <3>1, <3>3 DEF WellTyped
  <2> QED
    BY <2>1, <2>2
<1>5. s[3] = None
  BY <1>1, SourcesAre
<1>6. args[f] = Highest(s, None)
  BY <1>1, MergedIsHighest
<1> QED
  BY <1>3, <1>4, <1>5, <1>6 DEF Highest, Set

(* ExplicitTable::parse_list keeps the order and collapses duplicates.     *)
LEMMA ParsedList ==
    ASSUME ArgsInv, Completed
    PROVE  /\ \E n \in Nat : DOMAIN AlsoTables = 1..n
           /\ \A k, l \in DOMAIN AlsoTables : k < l => AlsoTables[k] # AlsoTables[l]
           /\ AlsoTables # << >> => Sublist(AlsoTables, args["also_tables"])
<1>1. CASE ~Set("also_tables")
  <2>1. AlsoTables = << >>
    BY <1>1 DEF AlsoTables
  <2>2. DOMAIN AlsoTables = {} /\ {} = 1..0
    BY <2>1
  <2> QED
    BY <2>1, <2>2
<1>2. CASE Set("also_tables")
  <2> DEFINE list == args["also_tables"]
             U == {n \in DOMAIN list : \A m \in 1..(n - 1) : list[m] # list[n]}
  <2>1. AlsoTables = Kept(list, U)
    BY <1>2 DEF AlsoTables, Unrepeated
  <2>2. Len(list) \in Nat /\ DOMAIN list = 1..Len(list)
    BY <1>2, AlsoTablesAreListed DEF IsList
  <2>3. U \in SUBSET (1..Len(list)) /\ U \in SUBSET DOMAIN list
    BY <2>2
  <2>4. \A i, j \in U : i < j => list[i] # list[j]
    <3> SUFFICES ASSUME NEW i \in U, NEW j \in U, i < j PROVE list[i] # list[j]
      OBVIOUS
    <3>1. i \in 1..(j - 1)
      BY <2>2
    <3> QED
      BY <3>1
  <2> HIDE DEF U, list
  <2>5. IsFiniteSet(U) /\ U \in SUBSET Int
    BY <2>2, <2>3, ChoiceIsFinite
  <2>6. /\ Cardinality(U) \in Nat
        /\ \A k, l \in 1..Cardinality(U) : k < l <=> Positions(U)[k] < Positions(U)[l]
    BY <2>5, PositionsAscend
  <2>7. /\ DOMAIN Kept(list, U) = 1..Cardinality(U)
        /\ \A k \in 1..Cardinality(U) : Positions(U)[k] \in U /\ Kept(list, U)[k] = list[Positions(U)[k]]
    BY <2>5, KeptElements
  <2>8. Sublist(Kept(list, U), list)
    BY <2>3, <2>5, KeptIsSublist
  <2>9. \A k, l \in 1..Cardinality(U) : k < l => Kept(list, U)[k] # Kept(list, U)[l]
    BY <2>4, <2>6, <2>7
  <2> QED
    BY <2>1, <2>6, <2>7, <2>8, <2>9 DEF list
<1> QED
  BY <1>1, <1>2

(* The in-scope entries keep their order, and are in a schema of the list  *)
(* and not in the logbook's.                                               *)
LEMMA ScopedList ==
    ASSUME ArgsInv, Completed
    PROVE  /\ \E n \in Nat : DOMAIN InScope = 1..n
           /\ Sublist(InScope, AlsoTables)
           /\ \A k \in DOMAIN InScope :
                 /\ InScope[k].schema # Logbook
                 /\ \E m \in DOMAIN schemas : schemas[m] = InScope[k].schema
<1> DEFINE list == AlsoTables
           I == {n \in DOMAIN list : /\ list[n].schema # Logbook
                                     /\ \E m \in DOMAIN schemas : schemas[m] = list[n].schema}
<1>1. InScope = Kept(list, I)
  BY DEF InScope
<1>2. PICK n \in Nat : DOMAIN list = 1..n
  BY ParsedList
<1>3. I \in SUBSET (1..n) /\ I \in SUBSET DOMAIN list
  BY <1>2
<1>4. \A i \in I : /\ list[i].schema # Logbook
                   /\ \E m \in DOMAIN schemas : schemas[m] = list[i].schema
  OBVIOUS
<1> HIDE DEF I, list
<1>5. IsFiniteSet(I) /\ I \in SUBSET Int
  BY <1>2, <1>3, ChoiceIsFinite
<1>6. Cardinality(I) \in Nat
  BY <1>5, PositionsAscend
<1>7. /\ DOMAIN Kept(list, I) = 1..Cardinality(I)
      /\ \A k \in 1..Cardinality(I) : Positions(I)[k] \in I /\ Kept(list, I)[k] = list[Positions(I)[k]]
  BY <1>5, KeptElements
<1>8. Sublist(Kept(list, I), list)
  BY <1>3, <1>5, KeptIsSublist
<1> QED
  BY <1>1, <1>4, <1>6, <1>7, <1>8 DEF list

(* AlsoTablesLocked: the explicit tables a run begins with are distinct,   *)
(* in the order they were written in, there, and under the advisory lock   *)
(* that is held, for every list and every schema list                      *)
(* (resolve_explicit_tables).                                              *)
THEOREM AlsoTablesAreLocked == Spec => []AlsoTablesLocked
<1>1. ArgsInv /\ ScopeInv => AlsoTablesLocked
  <2> SUFFICES ASSUME ArgsInv, ScopeInv, pc = "run" PROVE AlsoTablesLocked
    BY DEF AlsoTablesLocked
  <2> DEFINE J == {n \in DOMAIN InScope : InScope[n] \in server.relations}
  <2>1. Completed /\ locked = schemas /\ schemas # << >> /\ also = Kept(InScope, J)
    BY DEF Completed, ScopeInv, Ready
  <2>2. PICK n \in Nat : DOMAIN InScope = 1..n
    BY <2>1, ScopedList
  <2>3. J \in SUBSET (1..n) /\ J \in SUBSET DOMAIN InScope /\ \A i \in J : InScope[i] \in server.relations
    BY <2>2
  <2> HIDE DEF J
  <2>4. IsFiniteSet(J) /\ J \in SUBSET Int
    BY <2>2, <2>3, ChoiceIsFinite
  <2>5. /\ DOMAIN Kept(InScope, J) = 1..Cardinality(J)
        /\ \A k \in 1..Cardinality(J) :
              Positions(J)[k] \in J /\ Kept(InScope, J)[k] = InScope[Positions(J)[k]]
    BY <2>4, KeptElements
  <2>6. Sublist(Kept(InScope, J), InScope)
    BY <2>3, <2>4, KeptIsSublist
  <2>7. Sublist(also, AlsoTables)
    BY <2>1, <2>6, ScopedList, SublistOfSublist
  <2>8. ASSUME NEW k \in DOMAIN also
        PROVE  /\ \E m \in DOMAIN locked : locked[m] = also[k].schema
               /\ also[k].schema # Logbook /\ also[k] \in server.relations
    <3>1. PICK j \in J : also[k] = InScope[j]
      BY <2>1, <2>5, <2>8
    <3>2. j \in DOMAIN InScope /\ InScope[j] \in server.relations
      BY <2>3, <3>1
    <3> QED
      BY <2>1, <3>1, <3>2, ScopedList
  <2>9. ASSUME NEW k \in DOMAIN also, NEW l \in DOMAIN also, k < l
        PROVE  \E i, j \in DOMAIN args["also_tables"] :
                  /\ i < j /\ args["also_tables"][i] = also[k]
                  /\ args["also_tables"][j] = also[l] /\ also[k] # also[l]
    <3>1. PICK p \in [DOMAIN also -> DOMAIN AlsoTables] :
             /\ \A h \in DOMAIN also : also[h] = AlsoTables[p[h]]
             /\ \A g, h \in DOMAIN also : g < h => p[g] < p[h]
      BY <2>7 DEF Sublist
    <3>2. p[k] \in DOMAIN AlsoTables /\ p[l] \in DOMAIN AlsoTables /\ p[k] < p[l]
      BY <2>9, <3>1
    <3>3. AlsoTables[p[k]] # AlsoTables[p[l]]
      BY <2>1, <3>2, ParsedList
    <3>4. AlsoTables # << >>
      BY <3>2
    <3>5. Sublist(AlsoTables, args["also_tables"])
      BY <2>1, <3>4, ParsedList
    <3>6. PICK q \in [DOMAIN AlsoTables -> DOMAIN args["also_tables"]] :
             /\ \A h \in DOMAIN AlsoTables : AlsoTables[h] = args["also_tables"][q[h]]
             /\ \A g, h \in DOMAIN AlsoTables : g < h => q[g] < q[h]
      BY <3>5 DEF Sublist
    <3>7. /\ q[p[k]] \in DOMAIN args["also_tables"] /\ q[p[l]] \in DOMAIN args["also_tables"]
          /\ q[p[k]] < q[p[l]]
          /\ args["also_tables"][q[p[k]]] = also[k] /\ args["also_tables"][q[p[l]]] = also[l]
      BY <2>9, <3>1, <3>2, <3>6
    <3>8. also[k] # also[l]
      BY <2>9, <3>1, <3>3
    <3> QED
      BY <3>7, <3>8
  <2> QED
    BY <2>1, <2>8, <2>9 DEF AlsoTablesLocked
<1> QED
  BY <1>1, ArgsHold, ScopeHolds, PTL

=============================================================================
