------------------------------- MODULE Startup -------------------------------
(***************************************************************************)
(* Several pg-maintainer processes on one database: how each gets from its *)
(* connection to its first table (main.rs), the advisory lock that is      *)
(* meant to keep them apart, the creation of the logbook objects they all  *)
(* share (schema.rs), and what the server does with the session of a       *)
(* process that was killed.                                                *)
(*                                                                         *)
(* The run itself is reduced to single statements on tables of one schema  *)
(* at a time, each followed by its logbook row; module MaintenanceRun has  *)
(* the rest.                                                               *)
(***************************************************************************)
EXTENDS Sequences, Integers, Sublists

CONSTANTS
    Instances,     \* processes
    Lists,         \* schema lists, as given or discovered, in order
    Logbook,       \* maintainer_logbook
    LockKey,       \* hashtext of the joined list
    None           \* no schema, no owner, no key

Keys == {LockKey[l] : l \in DOMAIN LockKey}
Elements(l) == {l[n] : n \in DOMAIN l}

(* The logbook schema is never maintained, even if asked for.              *)
Resolve(l) == Kept(l, {n \in DOMAIN l : l[n] # Logbook})

ASSUME ListsAssumption == \A l \in Lists : Len(l) \in Nat /\ DOMAIN l = 1..Len(l)
ASSUME LockKeyAssumption == \A l \in Lists : Resolve(l) = << >> \/ Resolve(l) \in DOMAIN LockKey
ASSUME NoneAssumption == None \notin Instances /\ None \notin Keys

VARIABLES
    pc,            \* per instance: control point
    dry,           \* --dry-run
    schemas,       \* the resolved list
    process,       \* the program is alive
    session,       \* its backend is alive
    busy,          \* schema whose table the backend is working on
    sawSchema,     \* result of schema_exists
    setup,         \* outcome of ensure_logbook_schema
    owner,         \* advisory locks: key to instance
    schemaMade, tableMade,      \* logbook objects in the database
    lost           \* instances that had a logbook row dropped for want of a table

vars == << pc, dry, schemas, process, session, busy, sawSchema, setup, owner, schemaMade,
           tableMade, lost >>

Key(i) == LockKey[schemas[i]]

TypeOK ==
    /\ pc \in [Instances -> {"off", "lock", "exists", "create", "table", "work", "log", "exit"}]
    /\ dry \in [Instances -> BOOLEAN]
    /\ \A i \in Instances : pc[i] \notin {"off", "exit"} => schemas[i] \in DOMAIN LockKey
    /\ process \in [Instances -> BOOLEAN]
    /\ session \in [Instances -> BOOLEAN]
    /\ \A i \in Instances : busy[i] # None => busy[i] \in Elements(schemas[i]) /\ busy[i] # Logbook
    /\ sawSchema \in [Instances -> BOOLEAN]
    /\ setup \in [Instances -> {"none", "ok", "failed"}]
    /\ owner \in [Keys -> Instances \cup {None}]
    /\ schemaMade \in BOOLEAN /\ tableMade \in BOOLEAN
    /\ tableMade => schemaMade
    /\ lost \in SUBSET Instances

Init ==
    /\ pc = [i \in Instances |-> "off"]
    /\ dry \in [Instances -> BOOLEAN]
    /\ schemas = [i \in Instances |-> << >>]
    /\ process = [i \in Instances |-> FALSE]
    /\ session = [i \in Instances |-> FALSE]
    /\ busy = [i \in Instances |-> None]
    /\ sawSchema = [i \in Instances |-> FALSE]
    /\ setup = [i \in Instances |-> "none"]
    /\ owner = [k \in Keys |-> None]
    /\ schemaMade = FALSE /\ tableMade = FALSE
    /\ lost = {}

-----------------------------------------------------------------------------
(* One process, from the connection to its first table.                    *)

Go(i, to) == pc' = [pc EXCEPT ![i] = to]

(* The process ends; its socket closes and the server notices later.       *)
Leave(i) == Go(i, "exit") /\ process' = [process EXCEPT ![i] = FALSE]

(* Connected; the schemas come from --schema or from discovery.  A list    *)
(* with nothing left ends the run before the lock.                         *)
Connect(i) ==
    /\ pc[i] = "off"
    /\ \E l \in Lists :
          /\ schemas' = [schemas EXCEPT ![i] = Resolve(l)]
          /\ IF Resolve(l) = << >>
               THEN Go(i, "exit") /\ UNCHANGED process
               ELSE Go(i, "lock") /\ process' = [process EXCEPT ![i] = TRUE]
    /\ session' = [session EXCEPT ![i] = TRUE]
    /\ UNCHANGED << dry, busy, sawSchema, setup, owner, schemaMade, tableMade, lost >>

Alive(i) == process[i] /\ session[i]

(* Mutant: a lock held elsewhere is taken for a warning.                   *)
TryLockIgnored(i) ==
    /\ pc[i] = "lock" /\ Alive(i)
    /\ Go(i, "exists")
    /\ owner' = IF owner[Key(i)] = None THEN [owner EXCEPT ![Key(i)] = i] ELSE owner
    /\ UNCHANGED << dry, schemas, process, session, busy, sawSchema, setup, schemaMade,
                    tableMade, lost >>

(* try_acquire_schema_lock.                                                *)
TryLock(i) ==
    /\ pc[i] = "lock" /\ Alive(i)
    /\ IF owner[Key(i)] = None
         THEN owner' = [owner EXCEPT ![Key(i)] = i] /\ Go(i, "exists") /\ UNCHANGED process
         ELSE Leave(i) /\ UNCHANGED owner
    /\ UNCHANGED << dry, schemas, session, busy, sawSchema, setup, schemaMade, tableMade, lost >>

(* Mutant: the schema is taken to be there.                                *)
SchemaExistsAssumed(i) ==
    /\ pc[i] = "exists" /\ Alive(i)
    /\ sawSchema' = [sawSchema EXCEPT ![i] = TRUE]
    /\ Go(i, "table")
    /\ UNCHANGED << dry, schemas, process, session, busy, setup, owner, schemaMade,
                    tableMade, lost >>

(* ensure_logbook_schema, step by step: other processes run it as well.    *)
SchemaExists(i) ==
    /\ pc[i] = "exists" /\ Alive(i)
    /\ sawSchema' = [sawSchema EXCEPT ![i] = schemaMade]
    /\ Go(i, IF schemaMade THEN "table" ELSE "create")
    /\ UNCHANGED << dry, schemas, process, session, busy, setup, owner, schemaMade,
                    tableMade, lost >>

(* Mutant: a failed CREATE SCHEMA is taken for success.                    *)
DuplicateAccepted == "ok"

(* The error of CREATE SCHEMA when another process was faster.             *)
Duplicate == "failed"

CreateSchema(i) ==
    /\ pc[i] = "create" /\ Alive(i)
    /\ IF schemaMade
         THEN setup' = [setup EXCEPT ![i] = Duplicate] /\ Go(i, "work") /\ UNCHANGED schemaMade
         ELSE schemaMade' = TRUE /\ Go(i, "table") /\ UNCHANGED setup
    /\ UNCHANGED << dry, schemas, process, session, busy, sawSchema, owner, tableMade, lost >>

(* CREATE TABLE IF NOT EXISTS, the indexes and the comments.               *)
CreateTable(i) ==
    /\ pc[i] = "table" /\ Alive(i)
    /\ tableMade' = TRUE
    /\ setup' = [setup EXCEPT ![i] = "ok"]
    /\ Go(i, "work")
    /\ UNCHANGED << dry, schemas, process, session, busy, sawSchema, owner, schemaMade, lost >>

(* No privilege for any of it: the run goes on without its logbook.        *)
SetupDenied(i) ==
    /\ pc[i] \in {"exists", "create", "table"} /\ Alive(i)
    /\ setup' = [setup EXCEPT ![i] = "failed"]
    /\ Go(i, "work")
    /\ UNCHANGED << dry, schemas, process, session, busy, sawSchema, owner, schemaMade,
                    tableMade, lost >>

-----------------------------------------------------------------------------
(* The run.                                                                *)

Begin(i) ==
    /\ pc[i] = "work" /\ Alive(i) /\ busy[i] = None /\ ~dry[i]
    /\ \E s \in Elements(schemas[i]) : busy' = [busy EXCEPT ![i] = s]
    /\ UNCHANGED << pc, dry, schemas, process, session, sawSchema, setup, owner, schemaMade,
                    tableMade, lost >>

(* The backend finishes its statement even if nobody waits for it.         *)
End(i) ==
    /\ busy[i] # None /\ session[i]
    /\ busy' = [busy EXCEPT ![i] = None]
    /\ IF process[i] THEN Go(i, "log") ELSE UNCHANGED pc
    /\ UNCHANGED << dry, schemas, process, session, sawSchema, setup, owner, schemaMade,
                    tableMade, lost >>

(* log_maintenance_operation ignores a failed INSERT.                      *)
Log(i) ==
    /\ pc[i] = "log" /\ Alive(i)
    /\ lost' = IF tableMade THEN lost ELSE lost \cup {i}
    /\ Go(i, "work")
    /\ UNCHANGED << dry, schemas, process, session, busy, sawSchema, setup, owner,
                    schemaMade, tableMade >>

Finish(i) ==
    /\ pc[i] = "work" /\ Alive(i) /\ busy[i] = None
    /\ Leave(i)
    /\ UNCHANGED << dry, schemas, session, busy, sawSchema, setup, owner, schemaMade,
                    tableMade, lost >>

-----------------------------------------------------------------------------
(* Failures.                                                               *)

(* SIGKILL or a crash: the statement in progress goes on in the server.    *)
Crash(i) ==
    /\ process[i]
    /\ Leave(i)
    /\ UNCHANGED << dry, schemas, session, busy, sawSchema, setup, owner, schemaMade,
                    tableMade, lost >>

(* Mutant: the lock outlives its session.                                  *)
EndSessionKeepsLock(i) ==
    /\ session' = [session EXCEPT ![i] = FALSE]
    /\ busy' = [busy EXCEPT ![i] = None]
    /\ UNCHANGED owner

(* The end of a backend aborts its statement and frees its advisory locks. *)
EndSession(i) ==
    /\ session' = [session EXCEPT ![i] = FALSE]
    /\ busy' = [busy EXCEPT ![i] = None]
    /\ owner' = [k \in Keys |-> IF owner[k] = i THEN None ELSE owner[k]]

ServerNotices(i) ==
    /\ session[i] /\ ~process[i] /\ pc[i] # "off"
    /\ EndSession(i)
    /\ UNCHANGED << pc, dry, schemas, process, sawSchema, setup, schemaMade, tableMade, lost >>

(* pg_terminate_backend or a lost connection.                              *)
SessionKilled(i) ==
    /\ Alive(i)
    /\ EndSession(i)
    /\ UNCHANGED << pc, dry, schemas, process, sawSchema, setup, schemaMade, tableMade, lost >>

(* The next statement fails and the program ends.                          *)
FindLost(i) ==
    /\ process[i] /\ ~session[i]
    /\ Leave(i)
    /\ UNCHANGED << dry, schemas, session, busy, sawSchema, setup, owner, schemaMade,
                    tableMade, lost >>

-----------------------------------------------------------------------------
Step(i) ==
    \/ Connect(i) \/ TryLock(i)
    \/ SchemaExists(i) \/ CreateSchema(i) \/ CreateTable(i) \/ SetupDenied(i)
    \/ Begin(i) \/ End(i) \/ Log(i) \/ Finish(i)
    \/ Crash(i) \/ ServerNotices(i) \/ SessionKilled(i) \/ FindLost(i)

AllDone == (\A i \in Instances : pc[i] = "exit" /\ ~session[i]) /\ UNCHANGED vars

Next == (\E i \in Instances : Step(i)) \/ AllDone

Spec == Init /\ [][Next]_vars

-----------------------------------------------------------------------------
(* Properties.                                                             *)

(* A lock is owned by a live session under the key of its own list, so it  *)
(* cannot be left behind, and whoever works on tables owns its lock: also  *)
(* the surviving backend of a killed process.                              *)
LockFollowsSession ==
    /\ \A k \in Keys : owner[k] # None => session[owner[k]] /\ Key(owner[k]) = k
    /\ \A i \in Instances : busy[i] # None => owner[Key(i)] = i

(* Two backends never work under the same schema list at the same time,    *)
(* whatever crashes and restarts there were.                               *)
SameListExcluded ==
    \A i, j \in Instances :
       busy[i] # None /\ busy[j] # None /\ schemas[i] = schemas[j] => i = j

(* A run whose logbook setup succeeded never drops a row for want of the   *)
(* table, although the objects are created in a race.                      *)
SetupOkKeepsRows == \A i \in lost : setup[i] # "ok"

-----------------------------------------------------------------------------
(* A statement of the documentation that the code does not meet.           *)

(* try_acquire_schema_lock: Err if another instance is already running     *)
(* against these schemas.                                                  *)
SchemasExcluded ==
    \A i, j \in Instances : busy[i] # None /\ busy[i] = busy[j] => i = j
=============================================================================
