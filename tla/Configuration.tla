---------------------------- MODULE Configuration ---------------------------
(* octo_init: how octo and rocto find their settings when they start.  The  *)
(* command line is read twice: before the files, because it may name the    *)
(* only file to be read, and after them, because it overrides them.         *)
(* A file, like the merged settings, is the function of what it sets: one   *)
(* that is missing sets nothing.  Values are strings, as libconfig's texts. *)
EXTENDS Integers, SequencesExt

CONSTANTS
    CommandLines,   \* sequences of options [opt, arg]
    Files,          \* what the files at the four places may hold
    Environments,   \* functions: the variables that are set, and to what
    Defaults        \* octo.conf.default

VARIABLES
    step,
    flags, files, given,    \* the command line, the files, the environment
    environ,                \* the environment with what is added to it
    todo,                   \* the files still to be read
    merged,                 \* config_file, the settings read so far
    config                  \* the OctoConfig

sources == <<flags, files, given>>
startup == <<step, sources, environ, todo, merged, config>>

Broken == "syntax error" :> ""  \* a file that libconfig cannot parse
Wrong == "?"                    \* a value of a type the setting cannot have
Gone == "gone"                  \* a directory that does not exist

LevelName == <<"TRACE", "INFO", "DEBUG", "WARNING", "ERROR", "FATAL">>
FATAL == 5
Levels == 0..FATAL

\* The lookup of verbosity: the name of a level, or its number.
LevelOf(v) == {n \in Levels : v = LevelName[n + 1] \/ v = ToString(n)}

\* atoi, of texts of one digit: a text that does not begin with a number is 0.
Atoi(v) ==
    LET n == {d \in 0..9 : v = ToString(d)} IN IF n = {} THEN 0 ELSE CHOOSE d \in n : TRUE

Required == {"routine_cache", "octo_global_prefix", "auto_clean_tables", "rocto.port"}
YottaDB == [ydb_gbldir |-> "yottadb.ydb_gbldir", ydb_ci |-> "yottadb.ydb_ci"]

-----------------------------------------------------------------------------
\* parse_startup_flags: an option that is not known, or a level that is not
\* one, ends it; what earlier options did stays.
ParseFlag(c, f) ==
    CASE ~c.ok -> c
      [] f.opt = "verbose" ->
            IF Atoi(f.arg) \notin Levels THEN [c EXCEPT !.ok = FALSE]
            ELSE [c EXCEPT !.level = FATAL - Atoi(f.arg)]
      [] f.opt = "v" -> [c EXCEPT !.level = IF @ > 0 THEN @ - 1 ELSE @]
      [] f.opt = "c" -> [c EXCEPT !.file = f.arg]
      [] f.opt = "k" -> [c EXCEPT !.clean = "false"]
      [] OTHER -> [c EXCEPT !.ok = FALSE]

ParseStartupFlags(c) == FoldLeft(ParseFlag, c, flags)

\* The memory of a new process, all zero.
Zeroed == [level |-> 0, file |-> "", clean |-> "false", ok |-> TRUE,
           cache |-> "", prefix |-> "", port |-> "", directory |-> ""]

\* The places that are searched, in this order.
SearchPath ==
    SelectSeq(<<"dist", "home", "here">>,
              LAMBDA p : /\ p = "dist" => "ydb_dist" \in DOMAIN given
                         /\ p = "home" => "HOME" \in DOMAIN given)

StartupInit ==
    /\ step = "flags"
    /\ flags \in CommandLines /\ files \in Files
    /\ given \in Environments /\ environ = given
    /\ todo = <<>> /\ merged = <<>> /\ config = Zeroed

\* The first reading of the command line; then the defaults that are
\* compiled in.
ParseFlags ==
    /\ step = "flags"
    /\ LET c == ParseStartupFlags(config) IN
        /\ config' = c
        /\ step' = IF c.ok THEN "merge" ELSE "failed"
        /\ merged' = IF c.ok THEN Defaults ELSE merged
        /\ todo' = IF ~c.ok THEN todo
                   ELSE IF c.file # "" THEN <<c.file>> ELSE SearchPath
    /\ UNCHANGED <<sources, environ>>

\* Mutant: a file that is read later does not replace a setting.
MergeKeeps(a, b) == a @@ b

\* merge_config_file_helper, group by group.
MergeConfigFileHelper(a, b) == b @@ a

MergeConfigFile ==
    /\ step = "merge" /\ todo # <<>>
    /\ todo' = Tail(todo)
    /\ IF files[Head(todo)] = Broken
       THEN step' = "fatal" /\ UNCHANGED merged
       ELSE merged' = MergeConfigFileHelper(merged, files[Head(todo)]) /\ UNCHANGED step
    /\ UNCHANGED <<sources, environ, config>>

LookupSettings ==
    /\ step = "merge" /\ todo = <<>>
    /\ IF LevelOf(merged["verbosity"]) = {} \/ \E s \in Required : merged[s] = Wrong
       THEN step' = "fatal" /\ UNCHANGED config
       ELSE /\ step' = "environment"
            /\ config' = [config EXCEPT !.cache = merged["routine_cache"],
                                        !.prefix = merged["octo_global_prefix"],
                                        !.clean = merged["auto_clean_tables"],
                                        !.port = merged["rocto.port"]]
    /\ UNCHANGED <<sources, environ, todo, merged>>

\* The settings of YottaDB become environment variables, unless these are
\* set; then octo_global_directory, which takes one of them if it must.
SetEnvironment ==
    /\ step = "environment"
    /\ LET new == {n \in DOMAIN YottaDB : YottaDB[n] \in DOMAIN merged} IN
        environ' = environ @@ [n \in new |-> merged[YottaDB[n]]]
    /\ step' = "directory"
    /\ UNCHANGED <<sources, todo, merged, config>>

FindGlobalDirectory ==
    /\ step = "directory"
    /\ LET Use(d) == step' = "again" /\ config' = [config EXCEPT !.directory = d] IN
        IF "octo_global_directory" \in DOMAIN merged THEN Use(merged["octo_global_directory"])
        ELSE IF "ydb_gbldir" \in DOMAIN environ THEN Use(environ["ydb_gbldir"])
        ELSE IF "gtmgbldir" \in DOMAIN environ THEN Use(environ["gtmgbldir"])
        ELSE step' = "fatal" /\ UNCHANGED config
    /\ UNCHANGED <<sources, environ, todo, merged>>

\* The second reading, over the level that the files give.
ParseFlagsAgain ==
    /\ step = "again"
    /\ config' = ParseStartupFlags(
                    [config EXCEPT !.level = CHOOSE n \in LevelOf(merged["verbosity"]) : TRUE])
    /\ step' = IF config'.ok THEN "cache" ELSE "failed"
    /\ UNCHANGED <<sources, environ, todo, merged>>

OpenCache ==
    /\ step = "cache"
    /\ step' = IF config.cache = Gone THEN "fatal" ELSE "ready"
    /\ UNCHANGED <<sources, environ, todo, merged, config>>

StartupNext ==
    \/ ParseFlags \/ MergeConfigFile \/ LookupSettings \/ SetEnvironment
    \/ FindGlobalDirectory \/ ParseFlagsAgain \/ OpenCache

-----------------------------------------------------------------------------
\* What doc/config.rst:8-15 and :27 promise, told from the sources alone.

Options(o) == {i \in DOMAIN flags : flags[i].opt = o}
Latest(S) == CHOOSE i \in S : \A j \in S : j <= i

\* The files that count, the strongest last.
Sources ==
    <<Defaults>> \o
    IF Options("c") # {} THEN <<files[flags[Latest(Options("c"))].arg]>>
    ELSE [i \in 1..Len(SearchPath) |-> files[SearchPath[i]]]

Setters(s) == {i \in DOMAIN Sources : s \in DOMAIN Sources[i]}
Prevailing(s) == Sources[Latest(Setters(s))][s]

\* The level: that of the last --verbose={number} (doc/intro.rst:130), or else of the
\* files, less one for every -v that follows.
LevelAsked ==
    LET set == Options("verbose")
        base == IF set # {} THEN FATAL - Atoi(flags[Latest(set)].arg)
                ELSE CHOOSE n \in LevelOf(Prevailing("verbosity")) : TRUE
        less == Cardinality({i \in Options("v") : set # {} => i > Latest(set)})
    IN IF base > less THEN base - less ELSE 0

\* Where a global directory may come from, the strongest first.
DirectoriesAsked ==
    LET Set(s) == IF Setters(s) = {} THEN <<>> ELSE <<Prevailing(s)>>
        Env(n) == IF n \in DOMAIN given THEN <<given[n]>> ELSE <<>>
    IN Set("octo_global_directory") \o Env("ydb_gbldir")
       \o Set("yottadb.ydb_gbldir") \o Env("gtmgbldir")

\* Nothing in the sources stops a program from starting.
Usable ==
    /\ \A i \in DOMAIN Sources : Sources[i] # Broken
    /\ LevelOf(Prevailing("verbosity")) # {}
    /\ \A s \in Required : Prevailing(s) \notin {Wrong, Gone}
    /\ DirectoriesAsked # <<>>

\* A program that octo_init lets start runs with the settings of the
\* strongest source: the command line, then a variable of the environment,
\* then the last of the files in which a setting appears, and then the
\* defaults; the file that -c names is read instead of the others.  It stops
\* with a fatal error exactly when one of these sources is not usable.
Precedence ==
    /\ step = "ready" =>
        /\ Usable
        /\ config.level = LevelAsked
        /\ config.clean = IF Options("k") # {} THEN "false" ELSE Prevailing("auto_clean_tables")
        /\ config.port = Prevailing("rocto.port")
        /\ config.prefix = Prevailing("octo_global_prefix")
        /\ config.directory = Head(DirectoriesAsked)
        /\ \A n \in DOMAIN environ :
            environ[n] = IF n \in DOMAIN given THEN given[n] ELSE Prevailing(YottaDB[n])
        /\ \A n \in DOMAIN YottaDB : Setters(YottaDB[n]) # {} => n \in DOMAIN environ
    /\ step = "fatal" => ~Usable
=============================================================================
