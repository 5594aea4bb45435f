---------------------------- MODULE StartupProofs ----------------------------
(***************************************************************************)
(* Proofs about Startup, for every number of processes, all schema lists   *)
(* and every hash of theirs.                                               *)
(***************************************************************************)
EXTENDS Startup, SublistTheorems

Resolved == {Resolve(l) : l \in Lists} \cup {<< >>}
Names == (UNION {Elements(l) : l \in Resolved}) \cup {None}
Points == {"off", "lock", "exists", "create", "table", "work", "log", "exit"}
PastLock == {"exists", "create", "table", "work", "log"}

Typed ==
    /\ pc \in [Instances -> Points]
    /\ schemas \in [Instances -> Resolved]
    /\ process \in [Instances -> BOOLEAN]
    /\ session \in [Instances -> BOOLEAN]
    /\ busy \in [Instances -> Names]
    /\ setup \in [Instances -> {"none", "ok", "failed"}]
    /\ owner \in [Keys -> Instances \cup {None}]
    /\ schemaMade \in BOOLEAN /\ tableMade \in BOOLEAN
    /\ lost \in SUBSET Instances

(* A process that has connected has a list with a key; before that it has  *)
(* no session, and after its end it does nothing.                          *)
Lifecycle ==
    \A i \in Instances :
        /\ pc[i] \notin {"off", "exit"} => schemas[i] \in DOMAIN LockKey
        /\ pc[i] = "off" => ~session[i] /\ busy[i] = None
        /\ process[i] => pc[i] \notin {"off", "exit"}

(* Whoever is past the lock with its session alive, or whose backend works *)
(* on a table, owns the lock of its list.                                  *)
Holders ==
    \A i \in Instances :
        /\ pc[i] \in PastLock /\ session[i] => owner[Key(i)] = i
        /\ busy[i] # None => /\ session[i] /\ pc[i] \in {"work", "exit"}
                             /\ schemas[i] \in DOMAIN LockKey /\ owner[Key(i)] = i

(* Whoever owns a lock is connected, and the lock is that of its list.     *)
Owners ==
    \A k \in Keys : owner[k] # None =>
        /\ session[owner[k]] /\ pc[owner[k]] # "off"
        /\ schemas[owner[k]] \in DOMAIN LockKey /\ Key(owner[k]) = k

LockInv == Typed /\ Lifecycle /\ Holders /\ Owners

(* A row is dropped only while the table is missing, a setup succeeds only *)
(* with the table made.                                                    *)
LogbookInv ==
    \A i \in Instances :
        /\ setup[i] = "ok" => tableMade
        /\ i \in lost => pc[i] \in {"work", "log", "exit"} /\ setup[i] # "ok"

-----------------------------------------------------------------------------
(* The key of a list that has one.                                         *)
LEMMA KeyKnown ==
  ASSUME NEW l, l \in DOMAIN LockKey
  PROVE  LockKey[l] \in Keys
  BY DEF Keys

(* The first state has no owner, no session and no lost row.               *)
LEMMA InitEstablishes == Init => LockInv /\ LogbookInv
<1> SUFFICES ASSUME Init PROVE LockInv /\ LogbookInv
  OBVIOUS
<1>1. None \in Names /\ << >> \in Resolved
  BY DEF Names, Resolved
<1>2. Typed
  BY <1>1 DEF Init, Typed, Points
<1>3. Lifecycle /\ Holders
  BY DEF Init, Lifecycle, Holders, PastLock
<1>4. Owners
  BY DEF Init, Owners
<1>5. LogbookInv
  BY DEF Init, LogbookInv
<1> QED
  BY <1>2, <1>3, <1>4, <1>5 DEF LockInv

(* The end of a backend takes its lock and its statement along.            *)
LEMMA EndSessionKeeps ==
  ASSUME LockInv, NEW i \in Instances, EndSession(i),
         UNCHANGED << pc, schemas, process, setup, schemaMade, tableMade, lost >>,
         pc[i] # "off"
  PROVE  LockInv'
<1> USE DEF LockInv
<1>0. None \in Names
  BY DEF Names
<1>1. Typed'
  BY <1>0 DEF Typed, EndSession
<1>2. Lifecycle'
  BY DEF Typed, Lifecycle, EndSession
<1>3. Holders'
  <2> SUFFICES ASSUME NEW j \in Instances
               PROVE  /\ pc[j] \in PastLock /\ session'[j] => owner'[Key(j)] = j
                      /\ busy'[j] # None => /\ session'[j] /\ pc[j] \in {"work", "exit"}
                                            /\ schemas[j] \in DOMAIN LockKey /\ owner'[Key(j)] = j
    BY DEF Holders, Key
  <2>1. CASE j = i
    BY <2>1 DEF Typed, EndSession
  <2>2. CASE j # i
    BY <2>2, KeyKnown DEF Typed, EndSession, Holders, Lifecycle, PastLock, Key
  <2> QED
    BY <2>1, <2>2
<1>4. Owners'
  <2> SUFFICES ASSUME NEW k \in Keys, owner'[k] # None
               PROVE  /\ session'[owner'[k]] /\ pc[owner'[k]] # "off"
                      /\ schemas[owner'[k]] \in DOMAIN LockKey /\ LockKey[schemas[owner'[k]]] = k
    BY DEF Owners, Key
  <2>1. owner'[k] = owner[k] /\ owner[k] # i /\ owner[k] \in Instances
    BY DEF Typed, EndSession
  <2> QED
    BY <2>1 DEF Typed, EndSession, Owners, Key
<1> QED
  BY <1>1, <1>2, <1>3, <1>4

(* A process never loses a lock to another one's step.                     *)
LEMMA LockStep == LockInv /\ [Next]_vars => LockInv'
<1> SUFFICES ASSUME LockInv, [Next]_vars PROVE LockInv'
  OBVIOUS
<1>1. ASSUME NEW i \in Instances, Step(i) PROVE LockInv'
  <2>1. CASE Connect(i)
    <3>1. PICK l \in Lists :
             /\ schemas' = [schemas EXCEPT ![i] = Resolve(l)]
             /\ IF Resolve(l) = << >>
                  THEN Go(i, "exit") /\ UNCHANGED process
                  ELSE Go(i, "lock") /\ process' = [process EXCEPT ![i] = TRUE]
      BY <2>1 DEF Connect
    <3>2. Resolve(l) \in Resolved /\ (Resolve(l) # << >> => Resolve(l) \in DOMAIN LockKey)
      BY LockKeyAssumption DEF Resolved
    <3>3. \A k \in Keys : owner[k] # i
      BY <2>1, NoneAssumption DEF Connect, LockInv, Owners
    <3>4. Typed'
      BY <2>1, <3>1, <3>2 DEF Connect, LockInv, Typed, Points, Go
    <3>5. Lifecycle'
      BY <2>1, <3>1, <3>2 DEF Connect, LockInv, Typed, Lifecycle, Go
    <3>6. Holders'
      BY <2>1, <3>1, <3>2 DEF Connect, LockInv, Typed, Lifecycle, Holders, PastLock, Go, Key
    <3>7. Owners'
      BY <2>1, <3>1, <3>2, <3>3 DEF Connect, LockInv, Typed, Owners, Go, Key
    <3> QED
      BY <3>4, <3>5, <3>6, <3>7 DEF LockInv
  <2>2. CASE TryLock(i)
    <3>1. schemas[i] \in DOMAIN LockKey /\ Key(i) \in Keys
      BY <2>2, KeyKnown DEF TryLock, LockInv, Lifecycle, Key
    <3>2. CASE owner[Key(i)] = None
      <4>1. /\ owner' = [owner EXCEPT ![Key(i)] = i]
            /\ pc' = [pc EXCEPT ![i] = "exists"] /\ process' = process
            /\ UNCHANGED << schemas, session, busy, setup, schemaMade, tableMade, lost >>
            /\ pc[i] = "lock" /\ session[i]
        BY <2>2, <3>2 DEF TryLock, Go, Alive
      <4>2. Typed'
        BY <3>1, <4>1 DEF LockInv, Typed, Points
      <4>3. Lifecycle'
        BY <4>1 DEF LockInv, Typed, Lifecycle
      <4>4. Holders'
        <5> SUFFICES ASSUME NEW j \in Instances
                     PROVE  /\ pc'[j] \in PastLock /\ session[j] => owner'[Key(j)] = j
                            /\ busy[j] # None =>
                                  /\ session[j] /\ pc'[j] \in {"work", "exit"}
                                  /\ schemas[j] \in DOMAIN LockKey /\ owner'[Key(j)] = j
          BY <4>1 DEF Holders, Key
        <5>1. CASE j = i
          BY <3>1, <4>1, <5>1 DEF LockInv, Typed, Holders
        <5>2. CASE j # i
          BY <3>1, <3>2, <4>1, <5>2, NoneAssumption, KeyKnown
             DEF LockInv, Typed, Holders, Lifecycle, PastLock, Key
        <5> QED
          BY <5>1, <5>2
      <4>5. Owners'
        BY <3>1, <4>1 DEF LockInv, Typed, Owners, Key
      <4> QED
        BY <4>2, <4>3, <4>4, <4>5 DEF LockInv
    <3>3. CASE owner[Key(i)] # None
      <4>1. /\ pc' = [pc EXCEPT ![i] = "exit"] /\ process' = [process EXCEPT ![i] = FALSE]
            /\ UNCHANGED << owner, schemas, session, busy, setup, schemaMade, tableMade, lost >>
            /\ pc[i] = "lock"
        BY <2>2, <3>3 DEF TryLock, Go, Leave
      <4> QED
        BY <4>1 DEF LockInv, Typed, Points, Lifecycle, Holders, Owners, PastLock, Key
    <3> QED
      BY <3>2, <3>3
  <2>3. CASE SchemaExists(i) \/ CreateSchema(i) \/ CreateTable(i) \/ SetupDenied(i)
    <3>1. /\ pc[i] \in {"exists", "create", "table"}
          /\ \E to \in {"create", "table", "work"} : pc' = [pc EXCEPT ![i] = to]
          /\ UNCHANGED << schemas, process, session, busy, owner, lost >>
          /\ setup' \in [Instances -> {"none", "ok", "failed"}]
          /\ schemaMade' \in BOOLEAN /\ tableMade' \in BOOLEAN
      BY <2>3 DEF SchemaExists, CreateSchema, CreateTable, SetupDenied, Go, LockInv, Typed,
                  Duplicate
    <3>2. PICK to \in {"create", "table", "work"} : pc' = [pc EXCEPT ![i] = to]
      BY <3>1
    <3>3. Typed'
      BY <3>1, <3>2 DEF LockInv, Typed, Points
    <3>4. Lifecycle'
      BY <3>1, <3>2 DEF LockInv, Typed, Lifecycle
    <3>5. Holders'
      BY <3>1, <3>2 DEF LockInv, Typed, Holders, PastLock, Key
    <3>6. Owners'
      BY <3>1, <3>2 DEF LockInv, Typed, Owners, Key
    <3> QED
      BY <3>3, <3>4, <3>5, <3>6 DEF LockInv
  <2>4. CASE Begin(i)
    <3>1. PICK s \in Elements(schemas[i]) : busy' = [busy EXCEPT ![i] = s]
      BY <2>4 DEF Begin
    <3>2. s \in Names
      BY <3>1 DEF LockInv, Typed, Names
    <3> QED
      BY <2>4, <3>1, <3>2 DEF Begin, Alive, LockInv, Typed, Lifecycle, Holders, Owners,
                              PastLock, Key
  <2>5. CASE End(i)
    <3>1. /\ busy[i] # None /\ session[i] /\ pc[i] \in {"work", "exit"}
          /\ process[i] => pc[i] = "work"
      BY <2>5 DEF End, LockInv, Holders, Lifecycle
    <3>2. /\ busy' = [busy EXCEPT ![i] = None]
          /\ pc' = pc \/ (pc' = [pc EXCEPT ![i] = "log"] /\ pc[i] = "work")
          /\ UNCHANGED << schemas, process, session, setup, owner, schemaMade, tableMade, lost >>
      BY <2>5, <3>1 DEF End, Go
    <3> QED
      BY <3>1, <3>2 DEF LockInv, Typed, Points, Names, Lifecycle, Holders, Owners, PastLock, Key
  <2>6. CASE Log(i)
    <3>1. /\ pc[i] = "log" /\ pc' = [pc EXCEPT ![i] = "work"]
          /\ lost' \in SUBSET Instances
          /\ UNCHANGED << schemas, process, session, busy, setup, owner, schemaMade, tableMade >>
      BY <2>6 DEF Log, Go, LockInv, Typed
    <3> QED
      BY <3>1 DEF LockInv, Typed, Points, Lifecycle, Holders, Owners, PastLock, Key
  <2>7. CASE Finish(i) \/ Crash(i) \/ FindLost(i)
    <3>1. /\ pc[i] \notin {"off", "exit"} /\ pc' = [pc EXCEPT ![i] = "exit"]
          /\ process' = [process EXCEPT ![i] = FALSE]
          /\ UNCHANGED << schemas, session, busy, setup, owner, schemaMade, tableMade, lost >>
      BY <2>7 DEF Finish, Crash, FindLost, Leave, Go, Alive, LockInv, Lifecycle
    <3> QED
      BY <3>1 DEF LockInv, Typed, Points, Lifecycle, Holders, Owners, PastLock, Key
  <2>8. CASE ServerNotices(i) \/ SessionKilled(i)
    BY <2>8, EndSessionKeeps DEF ServerNotices, SessionKilled, Alive, LockInv, Lifecycle
  <2> QED
    BY <1>1, <2>1, <2>2, <2>3, <2>4, <2>5, <2>6, <2>7, <2>8 DEF Step
<1>2. CASE UNCHANGED vars
  BY <1>2 DEF vars, LockInv, Typed, Lifecycle, Holders, Owners, Key
<1> QED
  BY <1>1, <1>2 DEF Next, AllDone

-----------------------------------------------------------------------------
(* What try_acquire_schema_lock gives: a lock is owned by a live session   *)
(* under the key of its own list, and whoever works on tables owns it.     *)
THEOREM LockHeld == Spec => []LockFollowsSession
<1>1. LockInv => LockFollowsSession
  BY DEF LockInv, Holders, Owners, LockFollowsSession
<1> QED
  BY <1>1, InitEstablishes, LockStep, PTL DEF Spec

(* Two backends never work under the same schema list at the same time,    *)
(* also when the process of one was killed while its statement goes on.    *)
THEOREM OnePerList == Spec => []SameListExcluded
<1>1. LockInv => SameListExcluded
  BY DEF LockInv, Holders, SameListExcluded, Key
<1> QED
  BY <1>1, InitEstablishes, LockStep, PTL DEF Spec

(* A lost row and a successful setup exclude each other in every step.     *)
LEMMA LogbookStep == LockInv /\ LogbookInv /\ [Next]_vars => LogbookInv'
<1> SUFFICES ASSUME LockInv, LogbookInv, [Next]_vars PROVE LogbookInv'
  OBVIOUS
<1> USE DEF LockInv, Typed, LogbookInv
<1>1. ASSUME NEW i \in Instances, Step(i) PROVE LogbookInv'
  <2>1. CASE Connect(i) \/ TryLock(i)
    BY <2>1 DEF Connect, TryLock, Go, Leave
  <2>2. CASE SchemaExists(i)
    BY <2>2 DEF SchemaExists, Go
  <2>3. CASE CreateSchema(i)
    BY <2>3 DEF CreateSchema, Go, Duplicate
  <2>4. CASE CreateTable(i)
    BY <2>4 DEF CreateTable, Go
  <2>5. CASE SetupDenied(i)
    BY <2>5 DEF SetupDenied, Go
  <2>6. CASE Begin(i) \/ ServerNotices(i) \/ SessionKilled(i)
    BY <2>6 DEF Begin, ServerNotices, SessionKilled
  <2>7. CASE End(i)
    BY <2>7 DEF End, Go, Holders
  <2>8. CASE Log(i)
    BY <2>8 DEF Log, Go
  <2>9. CASE Finish(i) \/ Crash(i) \/ FindLost(i)
    BY <2>9 DEF Finish, Crash, FindLost, Leave, Go
  <2> QED
    BY <1>1, <2>1, <2>2, <2>3, <2>4, <2>5, <2>6, <2>7, <2>8, <2>9 DEF Step
<1>2. CASE UNCHANGED vars
  BY <1>2 DEF vars
<1> QED
  BY <1>1, <1>2 DEF Next, AllDone

(* ensure_logbook_schema raced by other processes: a run whose setup       *)
(* succeeded drops no row for want of the table.                           *)
THEOREM SetupKeepsRows == Spec => []SetupOkKeepsRows
<1>1. LockInv /\ LogbookInv => SetupOkKeepsRows
  BY DEF LockInv, Typed, LogbookInv, SetupOkKeepsRows
<1> QED
  BY <1>1, InitEstablishes, LockStep, LogbookStep, PTL DEF Spec

-----------------------------------------------------------------------------
(* What is left of a list has no logbook schema.                           *)
LEMMA ResolvedNames ==
  ASSUME NEW l \in Resolved
  PROVE  Logbook \notin Elements(l)
<1>1. CASE l = << >>
  BY <1>1 DEF Elements
<1>2. CASE \E given \in Lists : l = Resolve(given)
  <2>1. PICK given \in Lists : l = Resolve(given)
    BY <1>2
  <2> DEFINE I == {n \in DOMAIN given : given[n] # Logbook}
  <2>2. Len(given) \in Nat /\ I \in SUBSET (1..Len(given)) /\ l = Kept(given, I)
    BY <2>1, ListsAssumption DEF Resolve
  <2>3. \A m \in I : given[m] # Logbook
    OBVIOUS
  <2> HIDE DEF I
  <2>4. IsFiniteSet(I) /\ I \in SUBSET Int
    BY <2>2, ChoiceIsFinite
  <2>5. /\ DOMAIN Kept(given, I) = 1..Cardinality(I)
        /\ \A k \in 1..Cardinality(I) :
              Positions(I)[k] \in I /\ Kept(given, I)[k] = given[Positions(I)[k]]
    BY <2>4, KeptElements
  <2>6. \A k \in DOMAIN l : l[k] # Logbook
    BY <2>2, <2>3, <2>5
  <2> QED
    BY <2>6 DEF Elements
<1> QED
  BY <1>1, <1>2 DEF Resolved

(* The logbook table is made in the logbook schema, and what is worked on  *)
(* is in the process's own list.                                           *)
ObjectsInv ==
    /\ dry \in [Instances -> BOOLEAN]
    /\ sawSchema \in [Instances -> BOOLEAN]
    /\ tableMade => schemaMade
    /\ \A i \in Instances :
          /\ pc[i] = "table" => schemaMade
          /\ busy[i] # None => busy[i] \in Elements(schemas[i])

(* Every step of a process keeps the logbook's objects, the resolved lists *)
(* and the schema in hand.                                                 *)
LEMMA ObjectsHold == Spec => []ObjectsInv
<1>1. Init => ObjectsInv
  BY DEF Init, ObjectsInv
<1>2. LockInv /\ ObjectsInv /\ [Next]_vars => ObjectsInv'
  <2> SUFFICES ASSUME LockInv, ObjectsInv, [Next]_vars PROVE ObjectsInv'
    OBVIOUS
  <2> USE DEF Typed
  <2>1. ASSUME NEW i \in Instances, Step(i) PROVE ObjectsInv'
    <3>1. Typed
      BY DEF LockInv
    <3>2. CASE Connect(i)
      <4>1. busy[i] = None
        BY <3>2 DEF Connect, LockInv, Lifecycle
      <4>2. \A j \in Instances \ {i} : schemas'[j] = schemas[j] /\ (pc'[j] = pc[j])
        BY <3>1, <3>2 DEF Connect, Go
      <4>3. pc'[i] # "table"
        BY <3>1, <3>2 DEF Connect, Go
      <4> QED
        BY <3>1, <3>2, <4>1, <4>2, <4>3 DEF Connect, ObjectsInv
    <3>3. CASE TryLock(i)
      BY <3>1, <3>3 DEF TryLock, Go, Leave, ObjectsInv
    <3>4. CASE SchemaExists(i)
      BY <3>1, <3>4 DEF SchemaExists, Go, ObjectsInv
    <3>5. CASE CreateSchema(i)
      BY <3>1, <3>5 DEF CreateSchema, Go, ObjectsInv
    <3>6. CASE CreateTable(i) \/ SetupDenied(i) \/ Log(i)
      BY <3>1, <3>6 DEF CreateTable, SetupDenied, Log, Go, ObjectsInv
    <3>7. CASE Begin(i)
      BY <3>1, <3>7 DEF Begin, ObjectsInv
    <3>8. CASE End(i)
      BY <3>1, <3>8 DEF End, Go, ObjectsInv
    <3>9. CASE Finish(i) \/ Crash(i) \/ FindLost(i)
      BY <3>1, <3>9 DEF Finish, Crash, FindLost, Leave, Go, ObjectsInv
    <3>10. CASE ServerNotices(i) \/ SessionKilled(i)
      BY <3>1, <3>10 DEF ServerNotices, SessionKilled, EndSession, ObjectsInv
    <3> QED
      BY <2>1, <3>2, <3>3, <3>4, <3>5, <3>6, <3>7, <3>8, <3>9, <3>10 DEF Step
  <2>2. CASE UNCHANGED vars
    BY <2>2 DEF vars, ObjectsInv
  <2> QED
    BY <2>1, <2>2 DEF Next, AllDone
<1> QED
  BY <1>1, <1>2, InitEstablishes, LockStep, PTL DEF Spec

(* Startup's TypeOK: past the connection the list has a key, the logbook's *)
(* table is never without its schema, and a backend works on a schema of   *)
(* its own list and never on the logbook's.                                *)
THEOREM TypeCorrect == Spec => []TypeOK
<1>1. LockInv /\ ObjectsInv => TypeOK
  <2> SUFFICES ASSUME LockInv, ObjectsInv PROVE TypeOK
    OBVIOUS
  <2>1. \A i \in Instances : busy[i] # None => busy[i] \in Elements(schemas[i]) /\ busy[i] # Logbook
    BY ResolvedNames DEF LockInv, Typed, ObjectsInv
  <2> QED
    BY <2>1 DEF LockInv, Typed, Lifecycle, ObjectsInv, TypeOK, Points
<1> QED
  BY <1>1, InitEstablishes, LockStep, ObjectsHold, PTL DEF Spec
=============================================================================
