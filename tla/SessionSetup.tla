----------------------------- MODULE SessionSetup -----------------------------
(***************************************************************************)
(* From a validated configuration (module Configuration) to the first      *)
(* phase: the connection and its checks, the schema list and its advisory  *)
(* lock, the session's settings, of which some must succeed and some need  *)
(* not, and the explicit table list.  The races of several processes for   *)
(* the lock and the logbook are in module Startup, what follows is in      *)
(* module MaintenanceRun.                                                  *)
(***************************************************************************)
EXTENDS Configuration

CONSTANTS
    Servers,      \* what can be found behind the endpoint
    Logbook,      \* LOGBOOK_SCHEMA_NAME
    Blank         \* an empty element of --schema

(* relations: the tables, materialized views and partitioned tables there  *)
(* are; free: nobody holds the lock of this schema list.                   *)
ASSUME ServersAssumption ==
    \A s \in Servers : /\ s.version \in Nat /\ s.standby \in BOOLEAN /\ s.free \in BOOLEAN
                       /\ \A n \in DOMAIN s.schemas : s.schemas[n] # Logbook

VARIABLES
    server,       \* the input, constant
    alive,        \* the connection is up
    session,      \* the settings made, a function; the server's own elsewhere
    watching,     \* the shutdown watcher runs
    schemas,      \* the resolved schema list
    locked,       \* the list whose advisory lock is held
    also          \* the resolved --also-tables

vars == << command, pc, args, conn, server, alive, session, watching, schemas, locked, also >>
configuration == << command, args, conn, server >>
resolved == << watching, schemas, locked, also >>

Gucs == {"statement_timeout", "idle_session_timeout", "maintenance_work_mem",
         "vacuum_cost_delay", "vacuum_cost_limit", "vacuum_buffer_usage_limit",
         "max_parallel_maintenance_workers", "lock_timeout"}

Init ==
    /\ ConfigurationInit
    /\ server \in Servers
    /\ alive = FALSE
    /\ session = [g \in Gucs |-> None]
    /\ watching = FALSE
    /\ schemas = << >> /\ locked = << >> /\ also = << >>

Configure == ConfigurationNext /\ UNCHANGED << server, alive, session, resolved >>

-----------------------------------------------------------------------------
(* What a step may come to.                                                *)

(* An error that ends the program.                                         *)
Fail == pc' = "failed" /\ UNCHANGED << session, resolved >>

(* A query whose error ends the program, one that is not needed.           *)
Required(at, then) ==
    /\ pc = at
    /\ \/ alive /\ pc' = then /\ UNCHANGED << session, resolved >>
       \/ Fail
    /\ UNCHANGED << configuration, alive >>
NotNeeded(at, then) ==
    /\ pc = at
    /\ pc' = then
    /\ UNCHANGED << configuration, alive, session, resolved >>

MustSet(at, guc, value, then) ==
    /\ pc = at
    /\ \/ /\ alive
          /\ session' = [session EXCEPT ![guc] = value]
          /\ pc' = then /\ UNCHANGED resolved
       \/ Fail
    /\ UNCHANGED << configuration, alive >>

(* A warning is all that comes of its error.                               *)
MaySet(at, guc, value, then) ==
    /\ pc = at
    /\ \/ alive /\ session' = [session EXCEPT ![guc] = value]
       \/ UNCHANGED session
    /\ pc' = then
    /\ UNCHANGED << configuration, alive, resolved >>

-----------------------------------------------------------------------------
(* connect and connect_raw.                                                *)

OneOfPair == Set("ssl_client_cert") # Set("ssl_client_key")

Connect ==
    /\ pc = "connect"
    /\ \/ /\ ~(args["sslmode"] # "disable" /\ OneOfPair)
          /\ server.version >= 14 /\ ~server.standby
          /\ alive' = TRUE
          /\ session' = [session EXCEPT !["statement_timeout"] = args["statement_timeout_seconds"],
                                        !["idle_session_timeout"] = 0]
          /\ pc' = "pid" /\ UNCHANGED resolved
       \/ Fail /\ UNCHANGED alive
    /\ UNCHANGED configuration

(* pg_backend_pid(), for the watcher to act on.                            *)
SpawnWatcher ==
    /\ pc = "pid"
    /\ \/ /\ alive
          /\ watching' = (args["shutdown_mode"] # "finish")
          /\ pc' = "schemas" /\ UNCHANGED << session, schemas, locked, also >>
       \/ Fail
    /\ UNCHANGED << configuration, alive >>

(* --schema goes before discovery; the logbook's schema is dropped.        *)
ResolveSchemas ==
    /\ pc = "schemas"
    /\ LET named == IF Set("schema") THEN args["schema"] ELSE server.schemas
           found == Kept(named, {n \in DOMAIN named : named[n] \notin {Blank, Logbook}})
       IN  \/ /\ Set("schema") \/ alive
              /\ found # << >>
              /\ schemas' = found
              /\ pc' = "lock" /\ UNCHANGED << session, watching, locked, also >>
           \/ (found = << >> \/ ~Set("schema")) /\ Fail
    /\ UNCHANGED << configuration, alive >>

AcquireLock ==
    /\ pc = "lock"
    /\ \/ /\ alive /\ server.free
          /\ locked' = schemas
          /\ pc' = "logbook" /\ UNCHANGED << session, watching, schemas, also >>
       \/ Fail
    /\ UNCHANGED << configuration, alive >>

(* ensure_logbook_schema, whose failure is a warning.                      *)
EnsureLogbook == NotNeeded("logbook", "mem")

-----------------------------------------------------------------------------
(* The session's settings, in their order.                                 *)

(* The server refuses 0GB, which passed the validation.                    *)
SetMaintenanceWorkMem ==
    \/ /\ args["maintenance_work_mem_gb"] > 0
       /\ MustSet("mem", "maintenance_work_mem", args["maintenance_work_mem_gb"], "delay")
    \/ /\ pc = "mem" /\ args["maintenance_work_mem_gb"] = 0 /\ Fail
       /\ UNCHANGED << configuration, alive >>

(* Mutant: a failed SET is a warning.                                      *)
SetVacuumCostDelayLeniently ==
    IF Throttle.cost_delay_ms = None THEN NotNeeded("delay", "cost")
    ELSE MaySet("delay", "vacuum_cost_delay", Throttle.cost_delay_ms, "cost")

(* "An operator who asked to run gently must not get an un-throttled run   *)
(* because a SET quietly failed."                                          *)
SetVacuumCostDelay ==
    IF Throttle.cost_delay_ms = None THEN NotNeeded("delay", "cost")
    ELSE MustSet("delay", "vacuum_cost_delay", Throttle.cost_delay_ms, "cost")
SetVacuumCostLimit ==
    IF Throttle.cost_limit = None THEN NotNeeded("cost", "buffer")
    ELSE MustSet("cost", "vacuum_cost_limit", Throttle.cost_limit, "buffer")

(* A sixteenth of shared_buffers, since 16; the pool of parallel workers,  *)
(* or less of it with --vacuum-parallel.                                   *)
SetVacuumBufferUsageLimit ==
    IF server.version < 16 THEN NotNeeded("buffer", "workers")
    ELSE MaySet("buffer", "vacuum_buffer_usage_limit", "sixteenth", "workers")
effective_parallel_workers(n) ==
    IF n # None /\ n < server.workers THEN n ELSE server.workers
SetMaxParallelMaintenanceWorkers ==
    MaySet("workers", "max_parallel_maintenance_workers",
           effective_parallel_workers(args["vacuum_parallel"]), "timeout")

(* Mutant: a failed SET is a warning.                                      *)
SetLockTimeoutLeniently == MaySet("timeout", "lock_timeout", args["lock_timeout_ms"], "freeze")

SetLockTimeout == MustSet("timeout", "lock_timeout", args["lock_timeout_ms"], "freeze")

-----------------------------------------------------------------------------
(* The last reads before the phases.                                       *)

ReadFreezeMaxAge ==
    IF Set("wraparound_pct") THEN Required("freeze", "lag") ELSE NotNeeded("freeze", "lag")
LogInitialReplicaLag ==
    IF Set("max_replica_lag_seconds") THEN Required("lag", "horizon")
                                      ELSE NotNeeded("lag", "horizon")
LogInitialXminHorizon ==
    IF args["skip_xmin_horizon_check"] THEN NotNeeded("horizon", "also")
                                       ELSE Required("horizon", "also")

(* Mutant: every schema of the server is in scope.                         *)
InScopeAnywhere ==
    Kept(AlsoTables, {n \in DOMAIN AlsoTables : AlsoTables[n].schema # Logbook})

InScope ==
    Kept(AlsoTables, {n \in DOMAIN AlsoTables :
                         /\ AlsoTables[n].schema # Logbook
                         /\ \E m \in DOMAIN schemas : schemas[m] = AlsoTables[n].schema})

(* resolve_explicit_tables: outside the locked schemas, in the logbook's   *)
(* or not there at all, an entry is dropped with a warning.                *)
ResolveExplicitTables ==
    /\ pc = "also"
    /\ \/ /\ alive \/ InScope = << >>
          /\ also' = Kept(InScope, {n \in DOMAIN InScope : InScope[n] \in server.relations})
          /\ pc' = "run" /\ UNCHANGED << session, watching, schemas, locked >>
       \/ InScope # << >> /\ Fail
    /\ UNCHANGED << configuration, alive >>

-----------------------------------------------------------------------------
ConnectionLost ==
    /\ alive /\ pc # "run" /\ pc # "failed"
    /\ alive' = FALSE
    /\ UNCHANGED << configuration, pc, session, resolved >>

Ended == pc \in {"run", "failed", "rejected"} /\ UNCHANGED vars

Next ==
    \/ Configure
    \/ Connect \/ SpawnWatcher \/ ResolveSchemas \/ AcquireLock \/ EnsureLogbook
    \/ SetMaintenanceWorkMem \/ SetVacuumCostDelay \/ SetVacuumCostLimit
    \/ SetVacuumBufferUsageLimit \/ SetMaxParallelMaintenanceWorkers \/ SetLockTimeout
    \/ ReadFreezeMaxAge \/ LogInitialReplicaLag \/ LogInitialXminHorizon
    \/ ResolveExplicitTables
    \/ ConnectionLost \/ Ended

Spec == Init /\ [][Next]_vars

-----------------------------------------------------------------------------
(* Properties.  Configuration has those of the arguments.                  *)

(* The value a source asks for, the highest source first.                  *)
Asked(f, preset) ==
    LET given  == {n \in 1..3 : Sources(f)[n] # None}
        gentle == \E n \in 1..2 : Sources("gentle")[n] = TRUE
    IN  IF given # {} THEN Sources(f)[CHOOSE n \in given : \A m \in given : n <= m]
        ELSE IF gentle THEN preset ELSE None

(* The run that begins is throttled as some source asked, --gentle filling *)
(* in for what no source gives, whatever SET failed on the way.            *)
ThrottleHonoured ==
    pc = "run" => /\ session["vacuum_cost_delay"] = Asked("vacuum_cost_delay_ms", 10)
                  /\ session["vacuum_cost_limit"] = Asked("vacuum_cost_limit", 200)

(* No table is waited for without end: the server's own lock_timeout, and  *)
(* a 0 from any source, never reach the run.                               *)
NeverWaitsForever ==
    pc = "run" => session["lock_timeout"] \in 1..MAX_LOCK_TIMEOUT_MS

(* Every explicit table is under the lock that is held, is there and is    *)
(* listed once, in the order it was written in.                            *)
AlsoTablesLocked ==
    pc = "run" =>
        /\ locked # << >>
        /\ \A n \in DOMAIN also :
              /\ \E m \in DOMAIN locked : locked[m] = also[n].schema
              /\ also[n].schema # Logbook /\ also[n] \in server.relations
        /\ \A n, m \in DOMAIN also :
              n < m => \E k, l \in DOMAIN args["also_tables"] :
                          /\ k < l /\ args["also_tables"][k] = also[n]
                          /\ args["also_tables"][l] = also[m] /\ also[n] # also[m]
=============================================================================
