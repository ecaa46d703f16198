--------------------------- MODULE MCSchemaStore ---------------------------
(* Instances of SchemaStore and of Configuration.                          *)
EXTENDS SchemaStore, Configuration, TLC

CONSTANTS p1, p2, t1, a, b, Source, Delim, PrimaryKey, Integer, Varchar

Key == [keyword |-> PrimaryKey, v |-> NoStatement]
ColumnDelim == [keyword |-> Delim, v |-> <<b, a>>]
ColumnA == [name |-> <<a>>, keywords |-> <<Key, ColumnDelim>>, type |-> Integer]
ColumnAB == [name |-> <<a, b>>, keywords |-> <<Key>>, type |-> Integer]
ColumnB == [name |-> <<b>>, keywords |-> <<ColumnDelim, Key>>, type |-> Varchar]

\* The two table keywords are in one list, which source and delim enter at
\* different places.
S == [keyword |-> Source, v |-> <<b>>]
D == [keyword |-> Delim, v |-> <<a>>]
Definition(c) == [name |-> <<a>>, source |-> <<S, D>>, columns |-> c, delim |-> <<D, S>>]

\* Of 70, 79 and 95 cells: two parts filled exactly, and three that are not.
Definitions == {Definition(<<ColumnAB>>), Definition(<<ColumnA>>),
                Definition(<<ColumnAB, ColumnB>>)}

Processes == Permutations(Proc)

QuietOrNot == {{}, {"overlap", "death"}}

-----------------------------------------------------------------------------
\* The start of a program, and programs that have started: no process is
\* in both, so a behaviour is of one or of the other.

all == <<vars, startup>>

\* Files that set a level, a place to find tables, or what no program can use.
Silent == "verbosity" :> "FATAL" @@ "rocto.port" :> "1"
Loud == "verbosity" :> "1" @@ "auto_clean_tables" :> "false"
Here == "octo_global_directory" :> "here.gld" @@ "octo_global_prefix" :> "%other"
ForYottaDB == "yottadb.ydb_gbldir" :> "conf.gld" @@ "yottadb.ydb_ci" :> "conf.ci"
BadLevel == "verbosity" :> "LOUD"
BadPort == "rocto.port" :> Wrong
NoCache == "routine_cache" :> Gone
SomeContents == {<<>>, Silent, Loud, Here, ForYottaDB, BadLevel, BadPort, NoCache, Broken}

\* Any three files, the last of which may be given by name instead.
SomeFiles ==
    {[dist |-> d, home |-> h, here |-> l, given |-> l] : d, h \in SomeContents \ {NoCache},
                                                       l \in SomeContents}

ConfDefaults ==
    [verbosity |-> "WARNING", routine_cache |-> "./", octo_global_prefix |-> "%ydbocto",
     auto_clean_tables |-> "true"] @@ "rocto.port" :> "1337"

Flag(o, x) == [opt |-> o, arg |-> x]
SomeCommandLines ==
    {<<>>, <<Flag("v", "")>>, <<Flag("verbose", "4"), Flag("v", ""), Flag("v", "")>>,
     <<Flag("v", ""), Flag("k", ""), Flag("c", "given")>>, <<Flag("verbose", "9")>>, <<Flag("verbose", "INFO")>>,
     <<Flag("c", "home"), Flag("x", "")>>}
SomeEnvironments ==
    {[HOME |-> "h"], [HOME |-> "h", ydb_dist |-> "d", gtmgbldir |-> "gtm.gld"],
     [HOME |-> "h", ydb_dist |-> "d", ydb_gbldir |-> "ydb.gld", ydb_ci |-> "env.ci"],
     [ydb_dist |-> "d"]}

AllInit ==
    \/ StartupInit /\ Init /\ may = {}
    \/ Init /\ step = "started" /\ flags = <<>> /\ files = <<>> /\ given = <<>>
       /\ environ = <<>> /\ todo = <<>> /\ merged = <<>> /\ config = Zeroed

AllNext ==
    \/ StartupNext /\ UNCHANGED vars
    \/ step = "started" /\ Next /\ UNCHANGED startup

AllSpec == AllInit /\ [][AllNext]_all
=============================================================================
