------------------------------ MODULE Startup ------------------------------
(***************************************************************************)
(* Loading, validating and publishing the configuration:                   *)
(* src/config/mod.rs, src/config/validation.rs and init in src/lib.rs.     *)
(*                                                                         *)
(* A path is one of the cases the validation tells apart: "directory"      *)
(* (writable), "readonly", "file", "absent" (can be created), "orphan"     *)
(* (the parent does not exist), "inaccessible" or "empty".                 *)
(***************************************************************************)
EXTENDS Integers, Sequences, FiniteSets

CONSTANTS
    ConfigFiles,    \* what the configuration file may be: a record with a
                    \* kind, "missing", "unreadable", "unparsable" or
                    \* "parsed", and the config if it was parsed
    Names,          \* names of levels
    Environments,   \* CJ_LOGGING_LEVEL: "unset", "bad" or a log level
    AgeLimit,       \* stands for 2^63: ages from here are negative as i64
    Features,       \* compression algorithms compiled in
    DefaultPath     \* what ./data is on this machine

LogLevels == {"off", "error", "warn", "info", "debug", "trace"}

(* Config and TimeLevel: every number is unsigned. *)
TimeLevel ==
    [name : Names, duration : Nat, items : Nat, age : Nat,
     content : {"ChildHashes", "NetPatches", "ChildHashesAndNetPatches"}]

Paths == {"directory", "readonly", "file", "absent", "orphan", "inaccessible", "empty"}

Algorithms == {"Zstd", "Lz4", "Snappy", "None"}

StorageKinds == {"Memory", "File"}

StorageConfig == [kind : StorageKinds, path : Paths, openFiles : Nat]

CompressionConfig == [enabled : BOOLEAN, algorithm : Algorithms, level : Nat]

LoggingConfig == [level : LogLevels, file : BOOLEAN, path : Paths]

MetricsConfig ==
    [enabled : BOOLEAN, interval : Nat, endpoint : {"none", "url", "malformed"}]

RetentionConfig == [enabled : BOOLEAN, period : Nat, cleanup : Nat]

Config ==
    [levels : Seq(TimeLevel), storage : StorageConfig,
     compression : CompressionConfig, logging : LoggingConfig,
     metrics : MetricsConfig, retention : RetentionConfig]

ASSUME StartupAssumption ==
    /\ \A file \in ConfigFiles :
         /\ file.kind \in {"missing", "unreadable", "unparsable", "parsed"}
         /\ file.kind = "parsed" => file.config \in Config
    /\ Environments \subseteq LogLevels \cup {"unset", "bad"}
    /\ AgeLimit \in Nat \ {0}
    /\ DefaultPath \in Paths
    /\ {"day", "week", "month", "year"} \subseteq Names

VARIABLES
    conf,       \* the static CONFIG: <<>> or one configuration
    logger      \* the global logger: "none", "application" or a level

startupVars == <<conf, logger>>

----------------------------------------------------------------------------
(* validate_config: each section on its own. *)

(* Mutant: equal durations pass. *)
LongerOrEqual(levels, i) == i > 1 => levels[i].duration >= levels[i - 1].duration

LongerThanPrevious(levels, i) ==
    i > 1 => levels[i].duration > levels[i - 1].duration

HierarchyAccepted(levels) ==
    /\ levels # <<>>
    /\ \A i \in DOMAIN levels :
         /\ \A j \in 1 .. i - 1 : levels[j].name # levels[i].name
         /\ levels[i].duration # 0
         /\ LongerThanPrevious(levels, i)
         /\ levels[i].items # 0
         /\ levels[i].age < AgeLimit

StorageAccepted(storageConf) ==
    /\ storageConf.kind = "File" => storageConf.path \in {"directory", "absent"}
    /\ storageConf.openFiles >= 10

CompressionAccepted(compression) ==
    compression.enabled =>
        /\ compression.algorithm = "Zstd" => compression.level \in 1 .. 22
        /\ compression.algorithm = "Lz4" => compression.level \in 1 .. 12

(* The path of the log file is that of its directory. *)
LoggingAccepted(logging) == logging.file => logging.path = "directory"

MetricsAccepted(metrics) ==
    metrics.enabled => metrics.interval > 0 /\ metrics.endpoint # "malformed"

(* A period of 0 keeps everything. *)
RetentionAccepted(retention) ==
    retention.enabled =>
        /\ retention.cleanup > 0
        /\ retention.period > 0 => retention.period >= retention.cleanup

(* Also when compression is disabled. *)
SectionsAgree(config) ==
    config.storage.kind = "File" =>
        config.compression.algorithm \in Features \cup {"None"}

ConfigAccepted(config) ==
    /\ HierarchyAccepted(config.levels)
    /\ StorageAccepted(config.storage)
    /\ CompressionAccepted(config.compression)
    /\ LoggingAccepted(config.logging)
    /\ MetricsAccepted(config.metrics)
    /\ RetentionAccepted(config.retention)
    /\ SectionsAgree(config)

----------------------------------------------------------------------------
(* Config::default, which is never validated. *)

Day == 24 * 60 * 60

DefaultLevel(name, duration, content) ==
    [name |-> name, duration |-> duration, items |-> 1000, age |-> 0,
     content |-> content]

DefaultStorage == [kind |-> "File", path |-> DefaultPath, openFiles |-> 100]

DefaultCompression == [enabled |-> TRUE, algorithm |-> "Zstd", level |-> 3]

(* The log file would be in the working directory. *)
DefaultLogging == [level |-> "info", file |-> FALSE, path |-> "directory"]

DefaultMetrics == [enabled |-> TRUE, interval |-> 60, endpoint |-> "none"]

DefaultRetention == [enabled |-> FALSE, period |-> 0, cleanup |-> 3600]

DefaultConfig ==
    [levels |-> <<DefaultLevel("day", Day, "ChildHashes"),
                  DefaultLevel("week", 7 * Day, "ChildHashesAndNetPatches"),
                  DefaultLevel("month", 30 * Day, "ChildHashesAndNetPatches"),
                  DefaultLevel("year", 365 * Day, "NetPatches")>>,
     storage |-> DefaultStorage, compression |-> DefaultCompression,
     logging |-> DefaultLogging, metrics |-> DefaultMetrics,
     retention |-> DefaultRetention]

(* apply_env_vars, for a variable that parses. *)
WithEnvironment(config, env) ==
    IF env \in {"unset", "bad"} THEN config
    ELSE [config EXCEPT !.logging.level = env]

(* Config::load: no result is an error. *)
Loaded(file, env) ==
    IF env = "bad" \/ file.kind \in {"unreadable", "unparsable"} THEN {}
    ELSE IF file.kind = "missing" THEN {WithEnvironment(DefaultConfig, env)}
    ELSE {c \in {WithEnvironment(file.config, env)} : ConfigAccepted(c)}

(* init falls back on the defaults whatever the error was. *)
Chosen(file, env) ==
    IF Loaded(file, env) # {} THEN CHOOSE c \in Loaded(file, env) : TRUE
    ELSE WithEnvironment(DefaultConfig, env)

----------------------------------------------------------------------------
StartupInit ==
    /\ conf = <<>>
    /\ logger \in {"none", "application"}

(***************************************************************************)
(* init: with a logger in place it returns an error before CONFIG is set;  *)
(* CONFIG is set once.                                                     *)
(***************************************************************************)
InitLibrary ==
    /\ logger = "none"
    /\ \E file \in ConfigFiles, env \in Environments :
         LET config == Chosen(file, env)
         IN /\ logger' = config.logging.level
            /\ conf' = IF conf = <<>> THEN <<config>> ELSE conf

StartupSpec == StartupInit /\ [][InitLibrary]_startupVars

----------------------------------------------------------------------------
(* What TimeManager needs of a hierarchy (Pages!ConfigAssumption). *)
SoundHierarchy(levels) ==
    LET top == Len(levels) - 1
        duration == [l \in 0 .. top |-> levels[l + 1].duration]
    IN /\ top \in Nat
       /\ duration \in [0 .. top -> Nat \ {0}]
       /\ \A l \in (0 .. top) \ {0} : duration[l - 1] < duration[l]
       /\ [l \in 0 .. top |-> levels[l + 1].items] \in [0 .. top -> Nat \ {0}]
       /\ [l \in 0 .. top |-> levels[l + 1].age] \in [0 .. top -> Nat]

(***************************************************************************)
(* Whatever the file and the environment hold and however often init is    *)
(* called, the published configuration has a hierarchy the manager can     *)
(* work with, it is the default one or an accepted file, and the logger    *)
(* was set up from it.                                                     *)
(***************************************************************************)
ConfigInForce ==
    \A i \in DOMAIN conf :
        /\ SoundHierarchy(conf[i].levels)
        /\ \/ ConfigAccepted(conf[i])
           \/ \E env \in Environments : conf[i] = WithEnvironment(DefaultConfig, env)
        /\ logger = conf[i].logging.level
=============================================================================
