------------------------------- MODULE MCSetup -------------------------------
(***************************************************************************)
(* Instances of SessionSetup for TLC.  Each command line is a valid one    *)
(* with one group of settings varied over all its sources.                 *)
(***************************************************************************)
EXTENDS SessionSetup, TLC

CONSTANTS a, b, c

Empty == [f \in {} |-> None]
NoPgpass == [mode |-> "0600", entries |-> << >>]

Plain == [cli    |-> ("schema" :> << a, b >>) @@ ("mode" :> {"needs-vacuum"}),
          file   |-> None, env |-> Empty, pgpass |-> NoPgpass]
WithCli(values) == [Plain EXCEPT !.cli = values @@ @]
Both(values, file) == [WithCli(values) EXCEPT !.file = file]

(* A field given with each of the values, or not at all.                   *)
Optional(f, values) == {Empty} \cup {f :> v : v \in values}
Joined(S, T) == {x @@ y : x \in S, y \in T}

Throttles ==
    LET source == Joined(Joined(Optional("vacuum_cost_delay_ms", {0, 5}),
                                Optional("vacuum_cost_limit", {0, 300})),
                         Optional("gentle", {TRUE}))
    IN  {Both(x, y) : x \in source, y \in source}

FlagGroup ==
    LET source == Joined(Joined(Optional("force", {TRUE}),
                                Optional("skip_active_vacuum", {TRUE})),
                         Optional("dry_run", {TRUE}))
        off    == Joined(Optional("force", {FALSE}), Optional("dry_run", {FALSE}))
    IN  {Both(x, y) : x \in source, y \in source \cup off}

(* The default, 10, can be named too.                                      *)
Timeouts ==
    LET source == Optional("lock_timeout_ms", {0, 10, 500, 60001})
    IN  {Both(x, y) : x \in source, y \in source}

ParsedNames ==
    {Both(x, y) : x \in Optional("shutdown_mode", {"cancel", "finish"}),
                  y \in Joined(Optional("shutdown_mode", {Malformed, "wait", "cancel"}),
                               Optional("order_by", {Malformed, "size"}))}

Numbers ==
    LET source == UNION {Optional("limit", {0, 1}), Optional("vacuum_parallel", {2, 1025}),
                         Optional("maintenance_work_mem_gb", {0, 33}),
                         Optional("wraparound_pct", {75, 101}),
                         Optional("max_replica_lag_seconds", {0, -1}),
                         Optional("vacuum_threshold", {-1}),
                         Optional("shutdown_grace_seconds", {0}),
                         Optional("min_table_size_gb", {1}),
                         Joined(Optional("min_table_size_gb", {2}),
                                Optional("max_table_size_gb", {1, 3})),
                         Optional("skip_xmin_horizon_check", {TRUE}),
                         Joined({"mode" :> {"vacuum-overdue"}},
                                Optional("vacuum_older_than_days", {0, 7}))}
    IN  {WithCli(x) : x \in source} \cup {Both(Empty, x) : x \in source}

Entry(s, n) == [schema |-> s, table |-> n]
Lists ==
    LET source == Optional("also_tables",
                     {<< Entry(a, 1), Entry(c, 1), Entry(a, 1), Entry(b, 2) >>,
                      << Entry(b, 1), Entry(Logbook, 1), Entry(b, 2) >>,
                      << Entry(c, 1) >>, << Entry(a, 1), Malformed >>})
        scopes == {"schema" :> << Blank, b, Logbook >>, "schema" :> << Logbook >>,
                   "discover_all_schemas" :> TRUE, Empty}
    IN  {[Plain EXCEPT !.cli = x @@ y @@ ("mode" :> {"prevent-bloat"}),
                       !.file = z] :
            x \in source, y \in scopes, z \in Joined(source, Optional("schema", {<< a >>}))}

(* The endpoint and the password from the command line, the file, a        *)
(* connection string and the environment.                                  *)
Endpoints ==
    LET dsns == Optional("dsn", {Malformed, ("host" :> b) @@ ("password" :> "dsn"),
                                 ("sslmode" :> "require") @@ ("port" :> 6432)})
    IN  {[Both(x, z @@ ("password" :> Reference)) EXCEPT !.env = e] :
            x \in Joined(Optional("host", {a}), dsns),
            z \in Joined(Optional("host", {c}), Optional("sslmode", {"disable", "require"})),
            e \in Joined(Joined(Optional("variable", {"file"}), Optional("PG_HOST", {a})),
                         Joined(Optional("PG_PASSWORD", {"env"}), Optional("PG_PORT", {Malformed})))}
         \cup {[Plain EXCEPT !.file = Malformed],
               [Plain EXCEPT !.env = "PG_DSN" :> ("host" :> b),
                             !.cli = @ @@ ("ssl_client_key" :> "k") @@ ("sslmode" :> "require")]}

Line(h, p, u, w) ==
    [host |-> h, port |-> p, database |-> Wildcard, username |-> u, password |-> w]
Pgpass ==
    {[[WithCli(x) EXCEPT !.env = e]
        EXCEPT !.pgpass = [mode |-> m, entries |-> l]] :
        x \in Optional("host", {a, b}),
        e \in Joined(Optional("PG_HOST", {b}), Optional("PG_PASSWORD_FILE", {"secret"})),
        m \in {"0600", "0400"},
        l \in {<< Line(a, 5432, Wildcard, "first"), Line(Wildcard, Wildcard, "postgres", "any") >>,
               << Malformed, Line(b, 5432, "other", "other"), Line(b, Wildcard, Wildcard, "b"),
                  Line(Wildcard, Wildcard, Wildcard, "any") >>,
               << Line("localhost", 5432, Wildcard, "local"), Line(b, 6432, Wildcard, "port") >>}}

EveryCommand ==
    Throttles \cup FlagGroup \cup Timeouts \cup ParsedNames \cup Numbers \cup Lists
        \cup Endpoints \cup Pgpass

Server == [version |-> 18, standby |-> FALSE, free |-> TRUE, schemas |-> << a, b, c >>,
           workers |-> 8,
           relations |-> {Entry(s, n) : s \in {a, b, c, Logbook}, n \in {1}} \cup {Entry(b, 2)}]
SomeServers ==
    {Server, [Server EXCEPT !.version = 13], [Server EXCEPT !.standby = TRUE],
     [Server EXCEPT !.free = FALSE, !.version = 15], [Server EXCEPT !.schemas = << >>]}
=============================================================================
