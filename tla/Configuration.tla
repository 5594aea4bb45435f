---------------------------- MODULE Configuration ----------------------------
(***************************************************************************)
(* From the command line to a validated run: the TOML file is merged under *)
(* the arguments, the connection string under both, the whole is checked,  *)
(* and the endpoint and its password are completed from the environment    *)
(* and .pgpass (main.rs, dsn.rs, connection.rs, credentials.rs).           *)
(*                                                                         *)
(* A source is a function on the fields it gives.  A setting is a model of *)
(* its value: a number, a boolean, an enumeration's name, a sequence.      *)
(***************************************************************************)
EXTENDS Integers, Sequences, FiniteSets, Sublists

CONSTANTS
    Commands,     \* the inputs of an instance
    None,         \* absent
    Wildcard,     \* a wildcard or empty field of a .pgpass entry
    Malformed,    \* what does not parse
    Reference     \* "${VAR}" in the TOML file

(* struct Args.  Most fields are Option, a flag is false unless given.     *)
Flags == {"discover_all_schemas", "dry_run", "force", "skip_active_vacuum", "gentle",
          "skip_xmin_horizon_check", "silence_mode", "vacuum_disable_page_skipping",
          "vacuum_skip_locked"}
Options == {"dsn", "host", "port", "database", "username", "password", "schema", "table",
            "mode", "limit", "order_by", "vacuum_older_than_days",
            "analyze_older_than_days", "vacuum_threshold", "vacuum_scale_factor",
            "min_table_size_gb", "max_table_size_gb", "wraparound_pct",
            "vacuum_cost_delay_ms", "vacuum_cost_limit", "max_replica_lag_seconds",
            "also_tables", "ssl_ca_cert", "ssl_client_cert", "ssl_client_key",
            "vacuum_index_cleanup", "vacuum_parallel"}
Defaults ==
    [bloat_threshold_pct |-> 80, wraparound_min_age |-> 200000000,
     maintenance_work_mem_gb |-> 1, lock_timeout_ms |-> 10, lock_timeout_retries |-> 0,
     lock_timeout_retry_delay_ms |-> 50, shutdown_mode |-> "cancel",
     shutdown_grace_seconds |-> 10, max_replica_lag_wait_seconds |-> 300,
     xmin_horizon_warn_age |-> 1000000, sslmode |-> "disable",
     log_file |-> "maintainer.log", log_format |-> "text", log_rotation |-> "none",
     statement_timeout_seconds |-> 0, connect_timeout_seconds |-> 10,
     vacuum_truncate |-> TRUE]
Fields == Flags \cup Options \cup DOMAIN Defaults

(* The file's values that are parsed from text only after the merge.       *)
ParsedFields == {"order_by", "shutdown_mode", "sslmode", "log_format", "log_rotation"}
DsnFields == {"host", "port", "database", "username", "password", "sslmode", "ssl_ca_cert",
              "ssl_client_cert", "ssl_client_key", "connect_timeout_seconds"}
Modes == {"never-vacuumed", "never-analyzed", "prevent-wraparound", "prevent-bloat",
          "needs-vacuum", "vacuum-overdue", "analyze-overdue"}

(* file, dsn values, env: see LoadFile, ApplyDsn and FromArgs.             *)
ASSUME CommandsAssumption ==
    \A c \in Commands :
        /\ DOMAIN c = {"cli", "file", "env", "pgpass"}
        /\ DOMAIN c.cli \subseteq Fields
        /\ c.file \in {None, Malformed} \/ DOMAIN c.file \subseteq Fields

VARIABLES
    command,      \* the input, constant
    pc,           \* the step of run() that is next
    args,         \* the arguments, as completed so far
    conn          \* ConnectionConfig

ArgsDefault(f) ==
    CASE f \in Flags -> FALSE [] f \in Options -> None [] OTHER -> Defaults[f]

Given(source, f) == IF f \in DOMAIN source THEN source[f] ELSE None

(* What clap and serde let through to run(): a field that is given has a   *)
(* value of its type, a flag on the command line can only be switched on,  *)
(* and a text that does not parse is a connection string's or one of       *)
(* ParsedFields; what dsn::parse returns has parsed.                       *)
IsList(v) == Len(v) \in Nat /\ DOMAIN v = 1..Len(v)
WellTyped(source) ==
    /\ \A f \in DOMAIN source : source[f] # None /\ (f \in Flags => source[f] \in BOOLEAN)
    /\ "lock_timeout_ms" \in DOMAIN source => source["lock_timeout_ms"] \in Int
    /\ "also_tables" \in DOMAIN source => IsList(source["also_tables"])
FileOf(c) == IF c.file \in {None, Malformed} THEN << >> ELSE c.file
ConnectionStrings(c) ==
    {Given(c.cli, "dsn"), Given(c.env, "PG_DSN"),
     IF Given(FileOf(c), "dsn") = Reference THEN Given(c.env, "variable")
                                            ELSE Given(FileOf(c), "dsn")} \ {None, Malformed}

ASSUME NoneAssumption == None \notin Int \cup BOOLEAN
ASSUME ValuesAssumption ==
    \A c \in Commands :
        /\ WellTyped(c.cli) /\ WellTyped(FileOf(c))
        /\ \A f \in DOMAIN c.cli \cap Flags : c.cli[f] = TRUE
        /\ \A f \in DOMAIN c.cli \ {"dsn"} : c.cli[f] # Malformed
        /\ \A f \in DOMAIN FileOf(c) \ (ParsedFields \cup {"dsn"}) : FileOf(c)[f] # Malformed
        /\ Given(FileOf(c), "password") = Reference => Given(c.env, "variable") # Malformed
        /\ \A d \in ConnectionStrings(c) : \A f \in DsnFields : Given(d, f) # Malformed
        /\ IsList(c.pgpass.entries)

(* Args::parse                                                             *)
Parsed(cli) ==
    [f \in Fields |-> IF f \in DOMAIN cli THEN cli[f] ELSE ArgsDefault(f)]

-----------------------------------------------------------------------------
(* The sources.                                                            *)

resolve_env_interpolation(value) ==
    IF value = Reference THEN Given(command.env, "variable") ELSE value

(* The file, its password and dsn resolved.                                *)
Config ==
    [f \in DOMAIN command.file |->
        IF f \in {"password", "dsn"} THEN resolve_env_interpolation(command.file[f])
                                     ELSE command.file[f]]

(* Mutant: what the file gives is taken, whatever the command line says.   *)
FileWins(file, a) ==
    [f \in Fields |-> IF Given(file, f) \in {None, Malformed} THEN a[f] ELSE file[f]]

(* merge_config: a setting still at its default is taken from the file; a  *)
(* name of the file that does not parse is passed over.                    *)
merge_config(file, a) ==
    [f \in Fields |->
        IF a[f] # ArgsDefault(f) \/ Given(file, f) = None
           \/ (f \in ParsedFields /\ file[f] = Malformed)
        THEN a[f] ELSE file[f]]

(* resolve_dsn_source: --dsn or the file's, then a PG_DSN that is not      *)
(* blank.                                                                  *)
DsnSource == IF args["dsn"] # None THEN args["dsn"] ELSE Given(command.env, "PG_DSN")

(* What dsn::parse returned fills what is still at its default.            *)
FilledFromDsn(parsed) ==
    [f \in Fields |->
        IF f \in DsnFields /\ args[f] = ArgsDefault(f) /\ Given(parsed, f) # None
        THEN parsed[f] ELSE args[f]]

-----------------------------------------------------------------------------
(* The validations of run().                                               *)

Set(f) == args[f] # None
Outside(f, low, high) == Set(f) /\ ~(low <= args[f] /\ args[f] <= high)

(* ThrottleSettings::resolve: --gentle fills what was left unset.          *)
Throttle ==
    [cost_delay_ms |-> IF args["gentle"] /\ ~Set("vacuum_cost_delay_ms")
                       THEN 10 ELSE args["vacuum_cost_delay_ms"],
     cost_limit    |-> IF args["gentle"] /\ ~Set("vacuum_cost_limit")
                       THEN 200 ELSE args["vacuum_cost_limit"]]

(* ExplicitTable::parse_list: order kept, duplicates collapsed.            *)
Unrepeated(list) ==
    Kept(list, {n \in DOMAIN list : \A m \in 1..(n - 1) : list[m] # list[n]})
AlsoTables == IF Set("also_tables") THEN Unrepeated(args["also_tables"]) ELSE << >>

MaxInt == 2147483647
MAX_LOCK_TIMEOUT_MS == 60000

BadScope ==
    \/ ~Set("schema") /\ ~args["discover_all_schemas"]
    \/ ~Set("mode") \/ args["mode"] = {} \/ ~(args["mode"] \subseteq Modes)
    \/ "vacuum-overdue" \in args["mode"]
          /\ (~Set("vacuum_older_than_days") \/ Outside("vacuum_older_than_days", 1, MaxInt))
    \/ "analyze-overdue" \in args["mode"]
          /\ (~Set("analyze_older_than_days") \/ Outside("analyze_older_than_days", 1, MaxInt))
    \/ Outside("limit", 1, MaxInt)
    \/ Outside("min_table_size_gb", 0, MaxInt) \/ Outside("max_table_size_gb", 0, MaxInt)
    \/ Set("min_table_size_gb") /\ Outside("max_table_size_gb", args["min_table_size_gb"], MaxInt)
    \/ \E n \in DOMAIN AlsoTables : AlsoTables[n] = Malformed

BadThresholds ==
    \/ Outside("vacuum_threshold", 0, MaxInt) \/ Outside("vacuum_scale_factor", 0, MaxInt)
    \/ Outside("bloat_threshold_pct", 0, 100) \/ Outside("wraparound_pct", 0, 100)
    \/ Outside("xmin_horizon_warn_age", 0, MaxInt)
    \/ Outside("max_replica_lag_seconds", 0, MaxInt)

BadLimits ==
    \/ Outside("maintenance_work_mem_gb", 0, 32)
    \/ Throttle.cost_delay_ms # None /\ Throttle.cost_delay_ms \notin 0..100
    \/ Throttle.cost_limit # None /\ Throttle.cost_limit \notin 1..10000
    \/ Outside("vacuum_parallel", 0, 1024)
    \/ Outside("lock_timeout_ms", 1, MAX_LOCK_TIMEOUT_MS)
    \/ Outside("lock_timeout_retries", 0, 20)
    \/ Outside("lock_timeout_retry_delay_ms", 1, 60000)
    \/ Outside("shutdown_grace_seconds", 1, 300)

(* --force and --skip-active-vacuum, from whatever source.                 *)
Conflict == args["force"] /\ args["skip_active_vacuum"]

Invalid == BadScope \/ BadThresholds \/ BadLimits \/ Conflict

-----------------------------------------------------------------------------
(* The endpoint and its password.                                          *)

OrElse(value, otherwise) == IF value # None THEN value ELSE otherwise

Endpoint ==
    [host     |-> OrElse(OrElse(args["host"], Given(command.env, "PG_HOST")), "localhost"),
     port     |-> LET p == OrElse(args["port"], Given(command.env, "PG_PORT"))
                  IN  IF p \in {None, Malformed} THEN 5432 ELSE p,
     database |-> OrElse(OrElse(args["database"], Given(command.env, "PG_DATABASE")), "postgres"),
     username |-> OrElse(OrElse(args["username"], Given(command.env, "PG_USER")), "postgres")]

Matches(entry, endpoint) ==
    entry # Malformed /\ \A f \in DOMAIN endpoint : entry[f] \in {Wildcard, endpoint[f]}

(* Mutant: any later entry will do as well.                                *)
LastMatchingPassword(endpoint) ==
    LET entries  == command.pgpass.entries
        matching == {n \in DOMAIN entries : Matches(entries[n], endpoint)}
    IN  IF command.pgpass.mode # "0600" \/ matching = {} THEN None
        ELSE entries[CHOOSE n \in matching : \A m \in matching : m <= n].password

(* get_password_from_pgpass: the first entry that matches, of a file that  *)
(* has exactly the mode 0600.                                              *)
get_password_from_pgpass(endpoint) ==
    LET entries  == command.pgpass.entries
        matching == {n \in DOMAIN entries : Matches(entries[n], endpoint)}
    IN  IF command.pgpass.mode # "0600" \/ matching = {} THEN None
        ELSE entries[CHOOSE n \in matching : \A m \in matching : n <= m].password

(* PG_PASSWORD counts when it is not empty, PG_PASSWORD_FILE when it can   *)
(* be read: what env holds is None otherwise.                              *)
Password(endpoint) ==
    OrElse(args["password"],
      OrElse(Given(command.env, "PG_PASSWORD"),
        OrElse(Given(command.env, "PG_PASSWORD_FILE"), get_password_from_pgpass(endpoint))))

-----------------------------------------------------------------------------
(* The steps.                                                              *)

ConfigurationInit ==
    /\ command \in Commands
    /\ pc = "file"
    /\ args = Parsed(command.cli)
    /\ conn = None

(* An error that run() returns before it has done anything: exit code 1.   *)
Reject == pc' = "rejected" /\ UNCHANGED << args, conn >>

LoadFile ==
    /\ pc = "file"
    /\ IF command.file = Malformed THEN Reject
       ELSE /\ args' = IF command.file = None THEN args ELSE merge_config(Config, args)
            /\ pc' = "dsn" /\ UNCHANGED conn
    /\ UNCHANGED command

ApplyDsn ==
    /\ pc = "dsn"
    /\ IF DsnSource = Malformed THEN Reject
       ELSE /\ args' = IF DsnSource = None THEN args ELSE FilledFromDsn(DsnSource)
            /\ pc' = "validate" /\ UNCHANGED conn
    /\ UNCHANGED command

Validate ==
    /\ pc = "validate"
    /\ IF Invalid THEN Reject ELSE pc' = "endpoint" /\ UNCHANGED << args, conn >>
    /\ UNCHANGED command

FromArgs ==
    /\ pc = "endpoint"
    /\ conn' = [endpoint |-> Endpoint, password |-> Password(Endpoint)]
    /\ pc' = "connect"
    /\ UNCHANGED << command, args >>

ConfigurationNext == LoadFile \/ ApplyDsn \/ Validate \/ FromArgs

-----------------------------------------------------------------------------
(* Properties.                                                             *)

Completed == pc \notin {"file", "dsn", "rejected"}

(* The sources of a setting, the highest first.                            *)
Sources(f) ==
    LET file == IF command.file = None THEN None ELSE Given(Config, f)
        dsn  == IF f \in DsnFields /\ DsnSource # None THEN Given(DsnSource, f) ELSE None
    IN  << Given(command.cli, f), file, dsn >>

(* CLI arguments, then the TOML file, then the connection string, then the *)
(* default: a flag or an option has the value of the highest source that   *)
(* gives one, whatever that value is.  For the settings of Defaults only,  *)
(* which are plain fields of Args, a source that gives the default counts  *)
(* as silent (merge_config and FilledFromDsn compare with the default):    *)
(* what that does to the order is CommandLineWins.                         *)
PrecedenceKept ==
    Completed =>
        \A f \in Fields :
            LET given == {n \in 1..3 : Sources(f)[n] \notin {None, Malformed}}
                heard == IF f \in DOMAIN Defaults
                         THEN {n \in given : Sources(f)[n] # Defaults[f]} ELSE given
            IN  IF heard = {} THEN args[f] = ArgsDefault(f)
                ELSE \E n \in heard : /\ args[f] = Sources(f)[n]
                                      /\ \A m \in heard : n <= m

(* "CLI args always win (only fill in unset fields)": a setting that the   *)
(* command line gives has that value when the run starts.                  *)
CommandLineWins ==
    conn # None => \A f \in DOMAIN command.cli : args[f] = command.cli[f]

(* The password that is sent was meant for the endpoint it is sent to:     *)
(* given outright, or by the first .pgpass entry that fits the endpoint as *)
(* completed from every source; and none is withheld.                      *)
PasswordMatchesEndpoint ==
    conn # None =>
        LET sources  == << args["password"], Given(command.env, "PG_PASSWORD"),
                           Given(command.env, "PG_PASSWORD_FILE") >>
            outright == {n \in 1..3 : sources[n] # None}
            entries  == IF command.pgpass.mode = "0600" THEN command.pgpass.entries ELSE << >>
            fits(n)  == entries[n] # Malformed
                        /\ \A f \in DOMAIN conn.endpoint : entries[n][f] \in {Wildcard, conn.endpoint[f]}
        IN  IF outright # {}
            THEN \E n \in outright : /\ conn.password = sources[n]
                                     /\ \A m \in outright : n <= m
            ELSE \/ conn.password = None /\ \A n \in DOMAIN entries : ~fits(n)
                 \/ \E n \in DOMAIN entries :
                       /\ fits(n) /\ conn.password = entries[n].password
                       /\ \A m \in 1..(n - 1) : ~fits(m)
=============================================================================
