----------------------------- MODULE NeedsVacuum -----------------------------
(***************************************************************************)
(* Phase 5, VACUUM of the tables that need it, in its data: the settings   *)
(* it reads and the stand-ins for the reads that fail, the two discovery   *)
(* queries, the merge under --order-by and --limit, and for every listed   *)
(* table the dead-tuple counts around its VACUUM.  Between any two steps   *)
(* other sessions write, clean, drop and replace tables, and n_dead_tup,   *)
(* which the statistics system updates on its own time, lags behind the    *)
(* dead rows there are.                                                    *)
(* What ends the loop early or leaves a table out of it (shutdown, lost    *)
(* session, lag gate, active vacuum, dry run, earlier phases) is in module *)
(* MaintenanceRun.                                                         *)
(***************************************************************************)
EXTENDS Integers, Sequences, FiniteSets, SequencesExt, Sublists

CONSTANTS
    Tables,
    Counts,          \* the numbers of dead rows of a table, 0 among them
    Setups,          \* the command lines and servers of an instance
    Catalogs,        \* what pg_class and the statistics say of each table
    Defaults,        \* DEFAULT_VACUUM_THRESHOLD and _SCALE_FACTOR
    DefaultCap,      \* DEFAULT_VACUUM_MAX_THRESHOLD_PRE18
    None,            \* what is absent or NULL
    MaxEvents        \* bound: failed statements and interferences of one run

Unlimited == Cardinality(Tables) + 1
Orders == {None, "size", "last"}

(* The thresholds of autovacuum: flat and by size, for dead rows and for   *)
(* inserted ones; a negative ins_threshold disables the latter.            *)
Server == [threshold : Nat, scale : Nat, ins_threshold : Int, ins_scale : Nat]
(* The same as reloptions of a table, with the cap, None where unset.      *)
Options == [threshold : Nat \cup {None}, scale : Nat \cup {None}, cap : Int \cup {None},
            ins_threshold : Int \cup {None}, ins_scale : Nat \cup {None}]

(* table: the tables that --table names, all of them without it; guc: the  *)
(* server's autovacuum_vacuum_max_threshold, unknown to servers before 18. *)
Setup == [order : Orders, limit : 1..Unlimited, table : SUBSET Tables,
          vacuum_threshold : Nat \cup {None}, server : Server,
          pg18 : BOOLEAN, guc : Int, min_bytes : Nat, max_bytes : Nat]
(* live: n_live_tup; tuples: reltuples, and unfrozen the share of them on  *)
(* pages that are not all-frozen; inserts: n_ins_since_vacuum; last: the   *)
(* time of the last vacuum, 0 for never.                                   *)
Entry == [live : Nat, tuples : Nat, unfrozen : Nat, inserts : Nat, size : Nat, last : Nat,
          options : Options]

ASSUME InputsAssumption ==
    /\ Setups \subseteq Setup
    /\ Catalogs \subseteq [Tables -> Entry]
    /\ 0 \in Counts /\ Counts \subseteq Nat
    /\ Defaults \in [threshold : Nat, scale : Nat]
    /\ DefaultCap \in Nat /\ MaxEvents \in Nat

(* A database has finitely many tables; what is absent is no outcome.      *)
ASSUME TablesAssumption == IsFiniteSet(Tables)
ASSUME NoneAssumption == None \notin {"succeeded", "failed", "skipped"}

VARIABLES
    setup, catalog,  \* the inputs, constant
    dead,            \* the dead rows of each table
    reported,        \* n_dead_tup, what the statistics say of them
    present,         \* the tables there are
    pc,              \* the point of the phase that is next
    effective,       \* the flat threshold and scale factor of the classic query
    version18,       \* server_version_num >= PG18_VERSION_NUM, as read
    cap,             \* max_threshold; negative for none
    classic, second, \* the rows of the two passes
    list, index,     \* the merged candidates and the loop's position
    before,          \* dead_before of the table in hand
    outcome, figure, \* what is recorded of each table
    events,
    (* History: rows that met a pass's condition, before LIMIT; tables whose *)
    (* statistic moved between the passes; the tables autovacuum itself      *)
    (* would act on at the second pass; the reads of the cap that failed;    *)
    (* whether the first count was up to date; tables others touched since   *)
    (* it; tables that went away since the first pass, of which a statement  *)
    (* failed, whose VACUUM ended; and what VACUUM removed.                  *)
    met, moved, due, blind, fresh, touched, lost, erred, vacuumed, removed

run == << pc, effective, version18, cap, classic, second, list, index, before,
          outcome, figure >>
history == << met, moved, due, blind, fresh, touched, lost, erred, vacuumed, removed >>
discovery == << effective, version18, cap, classic, second, list >>
vars == << setup, catalog, dead, reported, present, events, run, history >>

Points == {"settings", "classic", "version", "cap", "second", "merge",
           "before", "vacuum", "after", "end", "failed"}

Init ==
    /\ setup \in Setups
    /\ catalog \in Catalogs
    /\ setup.pg18 \/ \A t \in Tables : catalog[t].options.cap = None
    /\ dead \in [Tables -> Counts] /\ reported = dead
    /\ present = Tables
    /\ pc = "settings"
    /\ effective = Defaults
    /\ version18 = FALSE
    /\ cap = DefaultCap
    /\ classic = << >> /\ second = << >> /\ list = << >>
    /\ index = 1
    /\ before = 0
    /\ outcome = [t \in Tables |-> None]
    /\ figure = [t \in Tables |-> None]
    /\ events = 0
    /\ met = {} /\ moved = {} /\ due = {} /\ blind = FALSE
    /\ fresh = FALSE /\ touched = {} /\ lost = {} /\ erred = {} /\ vacuumed = {}
    /\ removed = [t \in Tables |-> 0]

-----------------------------------------------------------------------------
(* The data: thresholds, rows and their order.                             *)

Row(t) == [table |-> t, dead |-> reported[t], size |-> catalog[t].size, last |-> catalog[t].last]

(* The key a list is sorted by, the least first.                           *)
Key(order, row) ==
    CASE order = None   -> 0 - row.dead
      [] order = "size" -> 0 - row.size
      [] order = "last" -> row.last

InOrder(order, rows) ==
    \A i, j \in 1..Len(rows) : i < j => Key(order, rows[i]) <= Key(order, rows[j])

Truncated(rows, n) == SubSeq(rows, 1, IF n < Len(rows) THEN n ELSE Len(rows))

(* schemaname, relkind, the size band and --table: what both passes ask.   *)
Visible ==
    {t \in present \cap setup.table :
        catalog[t].size \in setup.min_bytes..setup.max_bytes}

(* n_dead_tup > vacuum_threshold + vacuum_scale_factor * n_live_tup        *)
ClassicRows ==
    {Row(t) : t \in {u \in Visible :
                        reported[u] > effective.threshold + effective.scale * catalog[u].live}}

Coalesce(value, otherwise) == IF value = None THEN otherwise ELSE value

(* LEAST(flat, most), where a negative cap is none.                        *)
Capped(flat, most) == IF most >= 0 /\ most < flat THEN most ELSE flat

(* Mutant: the second pass takes the command line's threshold for the server's.*)
VacThresholdOverridden(t, c) ==
    LET options == catalog[t].options
    IN  Capped(Coalesce(options.threshold, effective.threshold)
                 + Coalesce(options.scale, setup.server.scale) * catalog[t].tuples,
               Coalesce(options.cap, c))

(* vac_thr: the table's reloptions before the server's settings, never     *)
(* the threshold of the command line, and no more than the cap.            *)
VacThreshold(t, c) ==
    LET options == catalog[t].options
    IN  Capped(Coalesce(options.threshold, setup.server.threshold)
                 + Coalesce(options.scale, setup.server.scale) * catalog[t].tuples,
               Coalesce(options.cap, c))

(* ins_thr, and ins_thr_eff over the rows that counted: before version 18  *)
(* the query cannot leave the frozen ones out.                             *)
InsertTriggered(t) ==
    LET options == catalog[t].options
        flat    == Coalesce(options.ins_threshold, setup.server.ins_threshold)
        scale   == Coalesce(options.ins_scale, setup.server.ins_scale)
        counted == IF version18 THEN catalog[t].unfrozen ELSE catalog[t].tuples
    IN  flat >= 0 /\ catalog[t].inserts > flat + scale * counted

SecondRows ==
    {Row(t) : t \in {u \in Visible : reported[u] > VacThreshold(u, cap) \/ InsertTriggered(u)}}

(* What autovacuum does: it knows a cap, which it takes whole, and all-    *)
(* frozen pages since 18 only.                                             *)
AutovacuumActs(t) ==
    LET entry == catalog[t]
        Setting(option, value) == IF entry.options[option] = None THEN value ELSE entry.options[option]
        most  == Setting("cap", IF setup.pg18 THEN setup.guc ELSE 0 - 1)
        above == reported[t] > Setting("threshold", setup.server.threshold)
                                 + Setting("scale", setup.server.scale) * entry.tuples
        flat  == Setting("ins_threshold", setup.server.ins_threshold)
        grown == entry.inserts > flat + Setting("ins_scale", setup.server.ins_scale)
                                 * (IF setup.pg18 THEN entry.unfrozen ELSE entry.tuples)
    IN  above \/ (most >= 0 /\ reported[t] > most) \/ (flat >= 0 /\ grown)

(* derive_max_threshold: the GUC less 20%, -1 when it is disabled.         *)
derive_max_threshold(guc) == IF guc < 0 THEN 0 - 1 ELSE (guc * 4) \div 5

(* Mutant: the duplicates of the two passes are kept.                      *)
FirstOfEachKept(rows) == rows

(* merge_needs_vacuum_candidates: the first row of each table, sorted      *)
(* stably, and cut to the limit.                                           *)
FirstOfEach(rows) ==
    Kept(rows, {i \in 1..Len(rows) : \A j \in 1..(i - 1) : rows[j].table # rows[i].table})
Precedes(order, rows) ==
    {p \in (1..Len(rows)) \X (1..Len(rows)) :
        \/ Key(order, rows[p[1]]) < Key(order, rows[p[2]])
        \/ Key(order, rows[p[1]]) = Key(order, rows[p[2]]) /\ p[1] < p[2]}
StablySorted(order, rows) ==
    LET sorted == Arranged(1..Len(rows), Precedes(order, rows))
    IN  [n \in 1..Len(rows) |-> rows[sorted[n]]]

(* Mutant: the limit is applied before the merged list is sorted.          *)
MergeCutFirst(one, two) ==
    StablySorted(setup.order, Truncated(FirstOfEach(one \o two), setup.limit))

(* classic before second, so that its row of a table wins.                *)
merge_needs_vacuum_candidates(one, two) ==
    Truncated(StablySorted(setup.order, FirstOfEach(one \o two)), setup.limit)

(* estimate_dead_tuples_reduced                                            *)
estimate_dead_tuples_reduced(count_before, count_after) ==
    CASE count_before = count_after /\ count_before > 0 -> 0
      [] count_before > count_after -> count_before - count_after
      [] OTHER -> None

-----------------------------------------------------------------------------
(* The discovery.                                                          *)

Fails == events < MaxEvents /\ events' = events + 1
Goes(point) == pc' = point
Inputs == UNCHANGED << setup, catalog >>
Looks == Inputs /\ UNCHANGED << dead, reported, present >>

Takes(settings) ==
    effective' = [threshold |-> Coalesce(setup.vacuum_threshold, settings.threshold),
                  scale |-> settings.scale]

(* get_vacuum_settings; the command line's threshold goes before both the  *)
(* server's and the stand-in (as its scale factor does, left out here).    *)
ReadSettings ==
    /\ pc = "settings"
    /\ \/ UNCHANGED events /\ Takes(setup.server)
       \/ Fails /\ Takes(Defaults)
    /\ Goes("classic")
    /\ UNCHANGED << version18, cap, classic, second, list, index, before,
                    outcome, figure, history >>
    /\ Looks

(* find_needs_vacuum_candidates: rows with equal keys come in any order;   *)
(* with --table neither --order-by nor --limit reaches the query.          *)
FindClassic ==
    /\ pc = "classic"
    /\ \E rows \in SetToSeqs(ClassicRows) :
          IF setup.table # Tables
          THEN InOrder(None, rows) /\ classic' = rows
          ELSE InOrder(setup.order, rows) /\ classic' = Truncated(rows, setup.limit)
    /\ met' = ClassicRows
    /\ moved' = {} /\ lost' = {}
    /\ Goes("version")
    /\ UNCHANGED << effective, version18, cap, second, list, index, before,
                    outcome, figure, events, due, blind, fresh, touched, erred, vacuumed,
                    removed >>
    /\ Looks

(* An error of the classic query is the phase's error.                     *)
ClassicError ==
    /\ pc = "classic" /\ Fails
    /\ Goes("failed")
    /\ UNCHANGED << effective, version18, cap, classic, second, list, index,
                    before, outcome, figure, history >>
    /\ Looks

(* get_server_version_num; a failed read counts as a server before 18.     *)
ReadVersion ==
    /\ pc = "version"
    /\ \/ UNCHANGED << events, blind >> /\ version18' = setup.pg18
       \/ Fails /\ version18' = FALSE /\ blind' = TRUE
    /\ Goes("cap")
    /\ UNCHANGED << effective, cap, classic, second, list, index, before,
                    outcome, figure, met, moved, due, fresh, touched, lost, erred, vacuumed,
                    removed >>
    /\ Looks

(* get_vacuum_max_threshold; a failed read leaves the reduced default.     *)
ReadCap ==
    /\ pc = "cap"
    /\ \/ ~version18 /\ UNCHANGED << events, blind >> /\ cap' = DefaultCap
       \/ /\ version18 /\ UNCHANGED << events, blind >>
          /\ cap' = derive_max_threshold(setup.guc)
       \/ /\ version18 /\ Fails /\ blind' = TRUE
          /\ cap' = derive_max_threshold(DefaultCap)
    /\ Goes("second")
    /\ UNCHANGED << effective, version18, classic, second, list, index, before,
                    outcome, figure, met, moved, due, fresh, touched, lost, erred, vacuumed,
                    removed >>
    /\ Looks

(* find_needs_vacuum_max_threshold_candidates; its failure is an empty     *)
(* list.                                                                   *)
FindSecond ==
    /\ pc = "second"
    /\ \/ /\ \E rows \in SetToSeqs(SecondRows) : InOrder(None, rows) /\ second' = rows
          /\ met' = met \cup SecondRows
          /\ UNCHANGED << events, blind >>
       \/ Fails /\ second' = << >> /\ blind' = TRUE /\ UNCHANGED met
    /\ due' = {t \in Visible : AutovacuumActs(t)}
    /\ Goes("merge")
    /\ UNCHANGED << effective, version18, cap, classic, list, index, before, outcome, figure,
                    moved, fresh, touched, lost, erred, vacuumed, removed >>
    /\ Looks

Merge ==
    /\ pc = "merge"
    /\ list' = merge_needs_vacuum_candidates(classic, second)
    /\ Goes(IF list' = << >> THEN "end" ELSE "before")
    /\ UNCHANGED << effective, version18, cap, classic, second, index, before,
                    outcome, figure, events, history >>
    /\ Looks

-----------------------------------------------------------------------------
(* The loop of run_needs_vacuum over the list, and vacuum_table in it.     *)

table == list[index].table

Record(result, n) ==
    /\ outcome' = [outcome EXCEPT ![table] = result]
    /\ figure' = [figure EXCEPT ![table] = n]
    /\ index' = index + 1
    /\ Goes(IF index = Len(list) THEN "end" ELSE "before")

InHand == pc \in {"before", "vacuum", "after"}

(* Mutant: the first table that is gone ends the loop.                     *)
GoneEndsLoop ==
    /\ InHand /\ table \notin present
    /\ outcome' = [outcome EXCEPT ![table] = "failed"]
    /\ Goes("end")
    /\ UNCHANGED << discovery, index, figure, before, events, history >>
    /\ Looks

(* The count of a table that is gone has no row, its VACUUM no relation:   *)
(* the table failed and the loop goes on.                                  *)
Gone ==
    /\ InHand /\ table \notin present
    /\ Record("failed", None)
    /\ UNCHANGED << discovery, before, events, history >>
    /\ Looks

(* Any other error of one of the three statements, the table still there.  *)
Errs ==
    /\ InHand /\ table \in present /\ Fails
    /\ Record("failed", None)
    /\ erred' = erred \cup {table}
    /\ UNCHANGED << discovery, before, met, moved, due, blind, fresh, touched, lost, vacuumed,
                    removed >>
    /\ Looks

(* lock_timeout, with the retries used up.                                 *)
Locked ==
    /\ InHand /\ table \in present /\ Fails
    /\ Record("skipped", None)
    /\ erred' = erred \cup {table}
    /\ UNCHANGED << discovery, before, met, moved, due, blind, fresh, touched, lost, vacuumed,
                    removed >>
    /\ Looks

(* Mutant: the retry repeats the VACUUM and keeps the first attempt's count.*)
LockRetryKeepsCount ==
    /\ InHand /\ table \in present /\ Fails
    /\ Goes(IF pc = "before" THEN "before" ELSE "vacuum")
    /\ UNCHANGED << discovery, index, before, outcome, figure, history >>
    /\ Looks

(* lock_timeout with retries left: vacuum_table from its first count on.   *)
LockRetry ==
    /\ InHand /\ table \in present /\ Fails
    /\ Goes("before")
    /\ UNCHANGED << discovery, index, before, outcome, figure, history >>
    /\ Looks

CountBefore ==
    /\ pc = "before" /\ table \in present
    /\ before' = reported[table]
    /\ fresh' = (reported[table] = dead[table])
    /\ touched' = {}
    /\ Goes("vacuum")
    /\ UNCHANGED << discovery, index, outcome, figure, events, met, moved, due, blind, lost, erred,
                    vacuumed, removed >>
    /\ Looks

(* VACUUM removes the dead rows no horizon holds back, none of a locked    *)
(* table with SKIP_LOCKED, and its report may reach the statistics late.   *)
Vacuum ==
    /\ pc = "vacuum" /\ table \in present
    /\ \E kept \in {n \in Counts : n <= dead[table]} :
          /\ dead' = [dead EXCEPT ![table] = kept]
          /\ removed' = [removed EXCEPT ![table] = dead[table] - kept]
          /\ reported' \in {reported, [reported EXCEPT ![table] = kept]}
    /\ vacuumed' = vacuumed \cup {table}
    /\ Goes("after")
    /\ UNCHANGED << discovery, index, before, outcome, figure, events, present, met, moved, due,
                    blind, fresh, touched, lost, erred >>
    /\ Inputs

CountAfter ==
    /\ pc = "after" /\ table \in present
    /\ Record("succeeded", estimate_dead_tuples_reduced(before, reported[table]))
    /\ UNCHANGED << discovery, before, events, history >>
    /\ Looks

-----------------------------------------------------------------------------
(* The other sessions, autovacuum and the statistics system, while the     *)
(* phase is under way.                                                     *)

Underway == pc \notin {"settings", "end", "failed"}

Interferes(t) ==
    /\ Underway /\ t \in present /\ Fails
    /\ touched' = IF InHand THEN touched \cup {t} ELSE touched
    /\ UNCHANGED << run, met, due, blind, fresh, erred, vacuumed, removed >>
    /\ Inputs

Write(t) ==
    /\ Interferes(t)
    /\ \E n \in Counts : n > dead[t] /\ dead' = [dead EXCEPT ![t] = n]
    /\ UNCHANGED << reported, present, moved, lost >>

Autovacuum(t) ==
    /\ Interferes(t)
    /\ dead[t] > 0 /\ dead' = [dead EXCEPT ![t] = 0]
    /\ UNCHANGED << reported, present, moved, lost >>

(* DROP TABLE, or a swap that leaves a new table under the name.           *)
DropOrSwap(t) ==
    /\ Interferes(t)
    /\ present' \in {present, present \ {t}}
    /\ dead' = [dead EXCEPT ![t] = 0] /\ reported' = [reported EXCEPT ![t] = 0]
    /\ moved' = IF list = << >> THEN moved \cup {t} ELSE moved
    /\ lost' = IF t \in present' THEN lost ELSE lost \cup {t}

(* The statistics catch up, or an ANALYZE gives an estimate that is off.   *)
Report(t) ==
    /\ Underway /\ t \in present
    /\ \E n \in Counts :
          /\ reported' = [reported EXCEPT ![t] = n]
          /\ IF n = dead[t] THEN n # reported[t] /\ UNCHANGED events ELSE Fails
    /\ moved' = IF list = << >> THEN moved \cup {t} ELSE moved
    /\ UNCHANGED << dead, present, run, met, due, blind, fresh, touched, lost, erred,
                    vacuumed, removed >>
    /\ Inputs

Ended == pc \in {"end", "failed"} /\ UNCHANGED vars

Next ==
    \/ ReadSettings \/ FindClassic \/ ClassicError \/ ReadVersion \/ ReadCap
    \/ FindSecond \/ Merge
    \/ Gone \/ Errs \/ Locked \/ LockRetry \/ CountBefore \/ Vacuum \/ CountAfter
    \/ \E t \in Tables : Write(t) \/ Autovacuum(t) \/ DropOrSwap(t) \/ Report(t)
    \/ Ended

Spec == Init /\ [][Next]_vars

-----------------------------------------------------------------------------
(* Properties.                                                             *)

Listed == {list[i].table : i \in 1..Len(list)}
Merged == InHand \/ pc = "end"

(* The list has no table twice, whatever the two passes and the merge      *)
(* returned, and the loop's position is in it.                             *)
TypeOK ==
    /\ pc \in Points
    /\ dead \in [Tables -> Counts] /\ reported \in [Tables -> Counts]
    /\ present \subseteq Tables
    /\ cap \in Int /\ before \in Counts /\ events \in 0..MaxEvents
    /\ outcome \in [Tables -> {None, "succeeded", "failed", "skipped"}]
    /\ \A t \in Tables : figure[t] \in Nat \cup {None}
    /\ Cardinality(Listed) = Len(list)
    /\ InHand => index \in 1..Len(list)

(* --limit is applied twice, to the classic query and to the merged list:  *)
(* the list is as long as the tables that met either condition allow, in   *)
(* order, and a table left out, its statistic the same in both passes,     *)
(* would not have come before one that is kept.                            *)
LimitCutsLeast ==
    Merged =>
        LET found == {r.table : r \in met}
        IN  /\ Listed \subseteq found
            /\ setup.table = Tables =>
                  Len(list) = IF Cardinality(found) < setup.limit
                              THEN Cardinality(found) ELSE setup.limit
            /\ InOrder(setup.order, list)
            /\ \A r \in met : r.table \notin Listed \cup moved =>
                  \A i \in 1..Len(list) : Key(setup.order, list[i]) <= Key(setup.order, r)

(* "Mirrors autovacuum's real trigger": without a limit, every table that  *)
(* autovacuum itself would act on, by its reloptions, the cap and the      *)
(* insert threshold, is listed, whatever threshold the command line gives. *)
AutovacuumCovered ==
    Merged /\ ~blind /\ setup.limit >= Cardinality(Tables) => due \subseteq Listed

(* The figure is wrong for the reasons vacuum_output.rs names and for no   *)
(* other, however often the table was retried: it is what the last VACUUM  *)
(* removed unless the statistics were behind at one of the two counts or   *)
(* another session touched the table between them.                         *)
FigureIsOwnWork ==
    [][CountAfter /\ fresh /\ reported[table] = dead[table] /\ table \notin touched =>
          figure'[table] = IF before = 0 THEN None ELSE removed[table]]_vars

(* The list is worked on long after the queries: whatever befalls one      *)
(* table, every other is reached, a table that stayed and of which no      *)
(* statement failed succeeds, and success means its VACUUM ended.          *)
StaleListHandled ==
    pc = "end" =>
        \A t \in Tables :
            /\ t \in Listed <=> outcome[t] # None
            /\ t \in Listed \ (lost \cup erred) => outcome[t] = "succeeded"
            /\ outcome[t] = "succeeded" => t \in vacuumed
=============================================================================
