# A TLA+ verification of Octo

Octo answers SQL queries on data kept in YottaDB globals. This directory holds
TLA+ models of its parts, TLC configurations that check them on small instances,
and TLAPS proofs for every instance. Paths below are relative to the repository.

## The system

Two programs share all of the code below `src/`, and find their settings in the same way
when they start (`octo_init.c`, `parse_startup_flags.c`):

* `octo` reads SQL from a terminal or a file (`octo.c`, `readline_get_more.c`) and
  prints results (`print_temporary_table.c`);
* `rocto` (`rocto.c`) speaks the PostgreSQL wire protocol. It forks one process per
  connection; a helper thread (`rocto_helper_waitpid.c`) reaps the children; each child
  authenticates its client and then runs `rocto_main_loop`, which dispatches messages to
  the handlers in `rocto/`.

A statement goes through `run_query`: it is parsed (`parse_line.c`, `parser.y`,
`parser/*.y`, `lexer.l`), qualified against the table definitions (`find_table.c`,
`qualify_*.c`), and a SELECT is then compiled. The canonical form is hashed
(`hash_canonical_query.c`, `generate_routine_name.c`) to the name of an M routine; if
the routine does not exist it is generated: a logical plan is built
(`optimization_transforms/`), rewritten (joins, cross references, disjunctive normal form,
keys fixed to constants), turned into a physical plan (`physical/`) and printed by the
templates in `m_templates/`. The routine is then run and its output read from a
temporary table in the cursor global.

Processes share the database and the file system, and nothing else:

| shared state | written by | read by |
|---|---|---|
| plan routines `_ydboctoP<hash>.m` in the routine cache | the first process that needs one | all |
| cross reference routines `_ydboctoX<hash>.m` | every process that generates a plan using one | all, triggers |
| `^%ydboctoocto("plan_metadata",file,...)` | the generating process | all |
| `^%ydboctoxref(table,column,...)`, `xref_status` | generated routines, triggers | generated routines |
| `^%ydboctoschema(table,...)` | CREATE and DROP TABLE | `find_table` |
| `^%ydboctocursor(id,...)` | generated routines | the process that owns the cursor |
| `^%ydboctosession(id,...)` | one rocto child | the same child |

## Modules

### `PlanCache`: the cache of generated routines

State: the content of each plan file, of its temporary file and of each cross
reference routine (`planFile`, `tmpFile`, `xrefFile`: the set of blocks written, or
`NoFile`), the plan whose text each block of a cross reference routine is (`xrefText`), the
metadata nodes (`keySet`, `nodes`), the file locks, and per process a
program counter and the locals of `run_query`, `emit_physical_plan`,
`emit_select_statement` and `get_plan_row_description`.

Each action is one system call, database call or loop step of that code: `StartQuery`
(parse and hash), `Access`, `Lock`, `LockTimeout` (the 5 second wait; its result is
ignored), `Recheck`, `EmitRejected` (`lp_verify_structure` fails), `OpenXref`,
`CloseXref`, `OpenTmp`, `WriteBlock`, `RenamePlan`, `SetMetadata`, `Unlock`, `RunPlan`,
and the readers `CountColumns`, `ReadColumn`, `DescriptionDone`, `ReadOutputKey`.
`Crash` kills a process at any step: the database releases its locks and the kernel
closes its file. A file that is open when another process renames over it keeps being
written under its new name, or under none (`FdAfterRename`).

Abstractions: a file is a set of blocks, which is enough for a plan file because two processes
that generate the same plan write the same bytes (`parse_line` resets `config->plan_id`). Two
plans that use one cross reference write different texts to its routine, since the names of
keys contain the unique ids they have in the plan (`tmpl_key.ctemplate:36`); whether a `Mixed` routine
can be run is left open, and texts of two plans are taken to have the same number of blocks. Plan generation itself is one step that fails for `BadPlans` only; building a cross
reference while a plan runs is one step (`Xref` has its steps).

`RoutineStore` is what the cache promises: a routine is made at most once, appears whole and
stays, and a client uses it only when it is there. `PlanCache` implements it
(`Implements`): `StoreView` takes a visible file with all blocks for a whole routine, and
`ClientView` takes a process for a client that asks, uses or is gone.

### `Xref`: building and maintaining a cross reference

State: the indexed column of a table, the nodes of `^%ydboctoxref` (`entry`, `count`,
`total`), `xref_status`, the trigger, the lock, and the builders. The build actions are the
M commands of `tmpl_physical_plan.ctemplate` in order; a row is read twice, once for
the entry and once for the count. `SetRow` and `KillRow` are updates by applications,
with `handleSet` run in the same transaction, as YottaDB does.

The variable `may`, chosen in `Init` from `Settings` and never changed, says what may
disturb a behaviour: empty column values, a LOCK that runs out, updates that overlap the
build, the death of a builder. One run covers the quiet case and each disturbance, and
a property says in its condition which disturbances it excludes: `BuildsOnce` a LOCK that
runs out, `RowCounts` empty values, and so on. `AlwaysFound` excludes none, and fails.

### `InputText` and `RoctoSession`: one connection

`InputText` is how `parse_line`, the lexer and the grammar take one statement from
`input_buffer_combined`: where the parse ends for each kind of statement, the character
read ahead, and the step back over it. A text is a sequence of blanks, semicolons and
statements of two elements, so that losing a character is visible.

`RoctoSession` is a rocto process after authentication. The client sends messages without
waiting for answers and may close at any time. `Poll`, `SendReady`, `ReadMessage` and
`ReadFails` are `rocto_main_loop`; each handler is an action, and the loop over the
statements of a text is one step per statement (`QueryStatement`, `ExecuteStatement`,
`DescribeStatement`), because the handlers share the input buffer, its index and `eof_hit`.
Answers are names of messages, kept apart for each statement. The text of a message that can be
read always fits the input buffer; a text made by Bind may be as long as the buffer (`long`), and
`handle_execute` then refuses it. A message that is longer, or whose length is negative, is
`Unreadable`: `read_bytes` refuses it and the loop is left (`ReadRefused`).

### `RoctoServer`: accepting connections

The listening process, the helper thread that waits for children, and one child per
connection from the fork to the start of `rocto_main_loop`: SSL request, start-up message,
password, session id, session variables, ParameterStatus. Reads whose results the code
ignores leave what the buffer held before (`got`). A child in the main loop just stays
there until it exits; `RoctoSession` is what it does.

### `SchemaStore` and `StoredTable`: table definitions

`SchemaStore` has several processes creating, dropping and looking up tables, one action
per database call: the parts of a definition are separate nodes, counted and read in two
loops, and cached in the process. It extends `StoredTable`, the conversion of a definition
with pointers to cells with distances and back (`compress_statement`,
`decompress_statement`) and its cut into parts, so that what one process stores is what
another puts together. As in `Xref`, `may` says whether statements of several processes
overlap and whether a process may die. A CREATE takes an oid and stores a row for the table
in `pg_class` and one for each of its columns in `pg_attribute`; the switch over the type of a
column has no FATAL case here, because the grammar produces integers and strings only
(`parser.y:1473`).

### `Configuration`: the start

`octo_init`: the command line is read (`ParseFlags`), the files are merged one by one
(`MergeConfigFile`), the settings are taken from the result (`LookupSettings`), variables of
the environment that are not set are set (`SetEnvironment`), the global directory is chosen
(`FindGlobalDirectory`) and the command line is read again (`ParseFlagsAgain`). A file is a
function from settings to values; the sources of a behaviour never change.

### `WireBytes`, `WireMessages`, `ServerMessages`, `BindParameters`: bytes

`WireMessages` has the readers in `rocto/read_*.c` on bytes, against the formats of the
PostgreSQL protocol (`Encode`). Counts and lengths are signed 16 and 32 bit numbers.
`ServerMessages` has the writers `rocto/make_*.c`, which compute a length and fill a buffer, and
`send_bytes`, which hands it to a connection that takes some of the bytes at a time
(`SendBytes`) or goes away (`SendFails`); the other side cuts the stream by the lengths and
reads it with the client's half of `read_*.c`. `BindParameters` puts the parameters of a Bind
message into the text of a statement (`handle_bind.c`, `copy_bind_parameter.c`,
`deserialize.c`). `MCWireMessages` runs the three side by side, one per behaviour.

### `SelectStatement`: from the parser to the plan's file

A SELECT is reduced clause by clause, the innermost query first (`parser/select.y`); the other
modules are the passes over it:

* `NameResolution`: `qualify_query`, `qualify_expression`, `qualify_column_name`,
  `match_column_in_table`. The heap of table aliases stands for the pointers of the parse
  tree. `JoinLists` has the circular list of joins, the splice that makes the outer query's
  tables visible to an inner query, and its undoing.
* `DataTypes`: `populate_data_type`, which types the resolved expressions and refuses
  operands that do not match.
* `QueryHash`: `hash_canonical_query` and `generate_routine_name`. A hash is the sequence of
  what is ingested: two different sequences have different hashes.

### `WhereClause`: conditions

The parser's reductions build a clause; `GenerateWhere`, `ApplyNot`, `NormalForm` and
`Optimize` turn it into one conjunction per plan. `VerifyStructure` (`lp_verify_structure`) is
asked twice: a clause it refuses as generated is `Rejected`, and one that it refuses as
rewritten is a `BadPlan`, a FATAL error. `Emitted` is what the printed M
expression evaluates to. `Holds` is what the clause means. A value is a pair of its place
in the order of strings and the number M takes it for. `Covered` names the clauses for
which the code keeps this meaning; the others are listed under *Known deviations*.

### `KeyPlan`: joins

`JoinTables` adds the keys of one table to the list, `KeyUniqueIdArray` notes the last key of each
table, and `FirstKey` is the search for a key; `FixKey`, `GenerateXrefKeys` and
`NotOptimized` are what `lp_optimize_where_multi_equal_ands` does with one equality;
`SetFixedKey`, `Advance` and `Project` run the nested loops that the template prints for
the resulting keys. The constant `Queries` gives the kinds of queries a run looks at, and the
variable `query` the one of a behaviour; `QueriesAssumption` says that keys tell the rows of a
table apart and that conditions compare columns that exist. Tables of a parent query have no keys in the plan, and their loops are
at some row. No value is the empty string, although tables may hold it (`names.zwr` of the tests
does): `JoinRows` says nothing about such rows. The values of a cross reference are those of the table, as `Xref` shows.

### `SetPlan` and `OuterJoin`: plans and the cursor

`SetPlan` compiles a statement with set operations, DISTINCT, ORDER BY, LIMIT and derived
tables to the chain of plans that `generate_physical_plan` makes, and runs their routines
row by row on the cursor: the rows of each output key, the rows waiting to be ordered, and
one index of values that all plans of a statement share. What a FROM and WHERE clause
yield is a sequence of values here. `OuterJoin` is the rewriting of LEFT, RIGHT and FULL
joins to set operations, and extends `SetPlan`, which runs them. The constant `Grammars`
gives the kinds of statements a run looks at.

How the modules fit together: a child of `RoctoServer` becomes a `RoctoSession`; it takes
statements from `InputText`; a statement's tables come from `SchemaStore` (and
`StoredTable`), its routine's name from `SelectStatement` and the routine from `PlanCache`,
which takes a plan for its hash. Its messages come and go as `WireMessages` and
`ServerMessages` say; a text that Bind has made is `BindParameters`'. What the routine does is `WhereClause` (which
plans and conditions), `KeyPlan` (loops of one plan), `SetPlan` and `OuterJoin` (several
plans), and `Xref` (the index it may use).

## Runs

| run | instance | shows |
|---|---|---|
| `plan_cache_crash` | 2 processes, a good and a rejected plan, 2 statements each, 1 death, fairness | visible plan files are whole and never change; every statement ends; the abstract `RoutineStore` is implemented |
| `plan_cache_timeout` | 3 processes, 2 plans sharing a cross reference, waits run out | concurrent writers always complete a plan file, and a cross reference routine that one plan writes; metadata is on its way |
| `xref_maintained` | 2 builders, 2 rows, 2 values, 2 updates, each disturbance of `may`, fairness | one build, then exact entries and counts; a double build loses no row; every caller returns |
| `session` | 2 messages after any earlier Parse and Bind; texts with accepted, rejected and failing statements; portals with a text too long to run; unreadable messages; fairness | a text is run once and in order, each failure is told in the answer to its statement unless `Overlooked` names it, ReadyForQuery comes unless a message could not be read or an Execute is last, the process ends after its client |
| `server` | 2 clients, TLS, 2 descriptors, fairness | only authenticated clients get a session, each its own; children are reaped, connections accepted |
| `schema` | 2 processes, definitions of 2 and 3 parts, 2 CREATEs, 1 death; the start with any three files of nine contents, six command lines, four environments | rows of `pg_class` and `pg_attribute` have their own oids, and columns lead to their table; a table is found as it was created; a program that starts has the settings of the strongest source |
| `wire` | every message of up to 13 bytes of 0 and 1 and of up to 8 of 0, 1 and 255; formatted messages; 2 messages of the server in any split; texts of up to 3 pieces with bound parameters | what follows the formats of the protocol is understood, and what is accepted follows them, except parameters with a negative length (NULL) and bytes after a Bind; what is sent is what is read, however it is split; parameters end up where they belong |
| `where` | 3 conditions of every kind, 2 NOTs; statements with joins, a subquery, a derived table, a subquery in a subquery | plans are well formed conjunctions and select the rows of the clause, each once; names that are not abbreviated mean what SQL's scopes say; statements that share a plan file are the same, unless a table is joined with itself |
| `sets` | one operation, results of up to 3 rows; chains of 4 queries; nested UNIONs of 3; options and a derived table; outer joins of up to 3 rows | the right rows as often as they should, for operations in an order that `InOrder` allows; LIMIT takes the first rows and ORDER BY sorts them; the index has exactly the rows until an INTERSECT; each unmatched row once |
| `keys` | 3 tables of 2 columns; a table of two keys after one of one key in a subquery; 2 equalities | the right rows, keys in an order that works, no key lost |
| `xref_update_race` | violation: 2 rows, 2 updates during the build | an update during the build loses other rows from the index, against `README.md:109` |
| `outer_join_no_keys` | violation: left joins of 2 rows without the key in the list | an unmatched row disappears, against `doc/grammar.rst:214` |

The two violation runs check what a document of the repository says, and TLC shows a
behaviour of the code that contradicts it; `PROJECT.json` has the lines.

### Known deviations

Modelling met more places where the code does not do what a comment, a document or a test
says. The passing properties exclude them by name, in a condition or in the instance's
statements:

| the code | against |
|---|---|
| `tmpl_physical_plan.ctemplate:51`: `$TEST` is ignored, so the cross reference is built twice and counts double when the LOCK runs out (`BuildsOnce`) | `tmpl_physical_plan.ctemplate:42` |
| `tmpl_physical_plan.ctemplate:346`: empty values are counted by the build and not by the trigger (`RowCounts`) | `doc/config.rst:113` |
| `find_table.c:92`: more parts are copied than were counted if a CREATE comes in between (`FoundAsCreated`) | `find_table.c:80` |
| `find_table.c:43`: a process goes on using a table that another one has dropped | `doc/grammar.rst:120` |
| `parser.y:179`: a query that names an unknown column takes the next statement with it (`RunsInOrder`) | `doc/errors.rst:26` |
| `parser/update.y:14`: UPDATE by Execute is answered like an empty query (`Overlooked`) | `doc/grammar.rst:18` |
| `emit_physical_plan.c:104`: processes that generate two plans with one cross reference write different texts into one routine, which may stay a mixture (`OnlyOf`) | `run_query.c:99` |
| `emit_select_statement.c:58`: a SELECT whose plan is refused is a warning, and `run_query` returns as for one that ran, so that by Query or Execute the client is not told unless warnings are sent; likewise BEGIN and COMMIT (`Overlooked`) | `doc/errors.rst:180` |
| `read_bytes.c:37`: a message that is too long ends the session with a warning, without ErrorResponse or ReadyForQuery (`ReadyComes`) | `doc/errors.rst:210` |
| `read_bind.c:198`: a negative length of a parameter, -1 for NULL among them, moves the reader back into bytes it has read (`HasNull`) | `handle_bind.c:79` |
| `handle_query_response.c:146`: Execute drops the rows beyond its limit | `handle_execute.c:108` |
| `handle_query.c:86`: CREATE by Query is answered by ReadyForQuery alone | `handle_query.c:85` |
| `handle_query_response.c:138`: a SELECT without rows does not free its chunks | `run_query.c:124` |
| `handle_describe.c:76`: Describe of an unknown name ends the process (`ReadyComes` allows it) | `handle_describe.c:71` |
| `lp_make_normal_disjunctive_form.c:74`: NOT over OR or AND with a pattern comes to `assert(FALSE)` (`Covered`) | `lp_make_normal_disjunctive_form.c:72` |
| `lp_make_normal_disjunctive_form.c:34`: NOT (NOT LIKE) is NOT LIKE (`Covered`) | `lp_make_normal_disjunctive_form.c:23` |
| `tmpl_print_expression.ctemplate:165`: `<=` and `>=` compare strings as numbers (`Covered`) | `tmpl_print_expression.ctemplate:115` |
| `tmpl_print_expression.ctemplate:240`: the value after ELSE is not used (`Covered`) | `doc/grammar.rst:336` |
| `parser.y:266`: in `column OR condition` a column that is 0 counts as true (`Covered`) | `parser.y:252` |
| `lp_optimize_where_multi_equals_ands.c:153`: `k = l` in one table fixes k before l is set (`BothKeys` of `MCKeyPlan`, `KeysApart` of the proofs) | `lp_optimize_where_multi_equals_ands.c:83` |
| `lp_optimize_where_multi_equals_ands.c:254`: a cross reference of a table with two keys loses one if another table follows (the table is last in `MCKeyPlan`, `KeysLinked` in the proofs) | `doc/grammar.rst:111` |
| `lp_optimize_where_multi_equals_ands.c:80`: the array is one entry short for the plan of a cross reference | `lp_optimize_where_multi_equals_ands.c:75` |
| `tmpl_physical_plan.ctemplate:295`: INTERSECT ALL does not take the minimum (not in `Before`, like the following) | `tests/test_set_operations.bats.in:52` |
| `tmpl_physical_plan.ctemplate:268`: a second INTERSECT keeps every row | `doc/grammar.rst:305` |
| `generate_physical_plan.c:73`: UNION after UNION ALL keeps duplicates of the middle query | `tests/test_set_operations.bats.in:22` |
| `tmpl_physical_plan.ctemplate:192`: EXCEPT leaves `index(value)`, and a later UNION does not add the value again (`Before`) | `doc/grammar.rst:289` |
| `tmpl_physical_plan.ctemplate:88`: LIMIT is tested in loops only, so LIMIT 0 with all keys fixed returns a row (`LimitIgnored`) | `doc/grammar.rst:156` |
| `tmpl_physical_plan.ctemplate:105`: LIMIT is applied before ORDER BY (`Limited`) | `doc/grammar.rst:156` |
| `generate_physical_plan.c:42`: EXCEPT ALL in parentheses removes rows outside them | `doc/grammar.rst:321` |
| `tmpl_physical_plan.ctemplate:285`: ORDER BY of the second query overwrites rows of the first | `doc/grammar.rst:291` |
| `tmpl_physical_plan.ctemplate:139`: DISTINCT from a DISTINCT derived table returns nothing | `doc/grammar.rst:141` |
| `lp_verify_structure.c:178`: `>` is listed twice and `>=` never, so a condition with `>=` is refused (`Rejected`) and NOT (a < 1), which becomes one, ends in FATAL "Bad plan!" (`BadPlan`) | `doc/grammar.rst:397` |
| `qualify_column_name.c:93`: an unknown name in a select list is resolved to its own place in the list, and `populate_data_type` then calls itself without end (`Meant`) | `doc/errors.rst:246` |
| `qualify_column_name.c:100`: a name that is the beginning of a name in the select list is taken for it (`Abbreviated`) | `doc/errors.rst:246` |
| `hash_canonical_query.c:220`: the alias of a column is not hashed, so statements on two aliases of one table that differ in which of them they name share a plan file (`SelfJoined`) | `hash_canonical_query.c:33` |
| `deserialize.c:83`: negative binary integers of 2 and 4 bytes are decoded as unsigned (`Supported`) | `deserialize.c:81`, which returns a signed number |
| `populate_data_type.c:148`: the result of `\|\|` has the type of a number | `populate_data_type.c:147` |
| `natural_join_condition.c:48`: NATURAL JOIN compares the first column of a table only (not modelled) | `natural_join_condition.c:54` |
| `octo_init.c:49`: an error in a file is told from the settings merged so far | `octo_init.c:52` |
| `generate_logical_plan.c:122`: an outer join with WHERE right.key IS NULL returns matched rows | `generate_logical_plan.c:66` |

Some behaviours contradict no text and still surprise; the models have them:

* Placeholders are numbered from `$0`, and a `$` without digits, in a literal too, is `$0`
  (`handle_bind.c:70`).
* `read_error_response` counts the terminator of the message as one more argument (`AsRead`).
* `send_bytes` takes a short count of `gtm_tls_send` for success (`send_bytes.c:34`).
* Names in a derived table see the tables beside it (`Lateral`). The names of a select list are
  matched by prefix, in WHERE too, and after the tables' columns in ORDER BY. An ambiguous name is
  only warned about, and the first match taken (`qualify_column_name.c:80`).
* The value after ELSE is neither resolved nor typed; errors in a function's parameters are
  not looked at.
* NOT (NOT x) is refused by `lp_verify_structure`.
* `octo.c:45` and `rocto.c:75` go on when `octo_init` returns an error, after a bad option.
* A number for `verbosity` in a file is used as it is, one after `--verbose` is inverted and
  must be in range; a name after `--verbose` counts as 0. `--keep-temporary` needs an argument, which `-k` does not.
* `parser.y:986`, `emit_physical_plan.c:94` and `store_table_in_pg_class.c:91` (the row of a column
  is stored with the length of its table's row) take the length of one string for another.
* A process that dies between the parts of a CREATE leaves parts of two definitions
  (`run_query.c:175`); `rocto.c` never closes its copy of a connection (`FdLimit`); Execute of an
  unknown portal ends the process (`handle_execute.c:56`).

### Bounds

* `PlanCache`: two blocks per file distinguish empty, partial and whole files; one writer
  that truncates, one that has renamed and one that reads are three processes.
* `Xref`: two rows let a value have two rows, one and none; with two values a row changes,
  and two updates are one that disturbs and one that meets the result.
* `RoctoSession`: prepared statements and portals may exist from the start, so two messages
  are one that leaves the shared input buffer behind and one that meets it.
* `RoctoServer`: two children are enough to collide in the session id; when a file takes one of
  the two descriptors, the second connection is beyond the limit.
* `SchemaStore`: definitions of 70, 79 and 95 cells in parts of 35: filled exactly or not, and
  a shorter one stored over a longer one leaves a part behind.
* `Configuration`: a setting of each way of being looked up; files that set it, set it wrongly,
  cannot be parsed or are missing.
* `WireMessages`: the shortest Bind with a format and a parameter has 13 bytes.
* `ServerMessages`: each kind of message, empty lists and lists of two; two messages in every
  split, so that a wrong length shifts the second.
* `BindParameters`: three pieces are a placeholder between two others; a number of two digits;
  binary values of each length, positive and negative.
* `SelectStatement`: two tables that share one of their names; names known inside, outside, in
  both and nowhere; three levels of queries, so that a list is spliced behind a spliced one.
* `WhereClause`: three conditions give every association of AND and OR; two NOTs give both
  parities and a NOT below another.
* `KeyPlan`: two equalities are one that changes the keys and one that meets the change;
  with three tables a key is fixed to a table next to it and to one further away.
* `SetPlan`: three rows of two values give no, one and several duplicates; four queries are
  an operation after two others.

### Fairness

Liveness runs assume weak fairness of each process's own steps: a process that can run does
run. New statements, messages, connections, updates and deaths are never forced. The lock is
assumed to be granted when free; the code's timeouts only make waits shorter.
In `RoctoServer` the listening process and the helper thread are fair, and children are
not assumed to exit.

### Deadlock

Runs stop when the bounds are used up, so most configurations do not check for deadlock;
the liveness properties say that what must go on does.

## Proofs

The modules named `...Proofs` prove, for all constants allowed by the modules' assumptions:

* `TypeCorrect`: the type invariant of `PlanCache`.
* `PlanFilesWhole`, `PlanFilesImmutable` (if lock waits do not run out). The invariant `Excl`
  says that a process in the critical section holds the lock, that the file is invisible
  while it generates, and that the temporary file holds exactly the blocks before its
  position. A process that died leaves a partial temporary file, which the next `fopen`
  truncates; that is why the claim is about the writer's own prefix and not about every
  temporary file.
* `PlanFilesHealed` and `XrefFilesHealed` (if no process dies). With timeouts the lock excludes nobody. The invariant
  `Heal` says that each block missing from any file, under any name, has a writer whose
  position is not past it; truncation keeps this because the truncating process starts
  at block 1, and a rename because the writers follow the file. For a cross reference routine the
  theorem adds whose text it is: if what the file holds and what is being written to it is one
  plan's, the writer of a missing block generates this plan.
* `MetadataOnItsWay` (if no process dies): a visible file has its metadata or a process
  in the metadata loop.
* `BuiltOnce` (if the LOCK does not run out): building implies holding the lock and not done.
* `IndexAlwaysExact` and `CountsAreRows` (if the build is undisturbed; the latter if the column is
  also never empty), for a table of any size and any number of updates. The invariant
  `ExactInv` says, for each step of the key loop, up to which row the entries, the total and the
  counts are stored; that nothing is stored before the loop; and that afterwards all rows are.
  `handleSet` kills a value node when its count reaches 0, so no entry is lost only because
  the count is the number of rows with the value (`PrunedExact`). With empty values the total is
  a mere bound on the rows with a value, and that is enough: a KILL that brings it to 0, and
  wipes the cross reference, removes the last such row.
* `RowsAlwaysFound` (if no update overlaps a build and no builder dies), for any number of builders at
  once. The same invariant, with bounds in place of equalities if a LOCK may run out: each builder
  counts every row, so that a count is never below the number of rows, and a count that is too
  high only delays the KILL of a value node.
* `PlanCacheImplements` (if lock waits do not run out): `PlanCache` implements `RoutineStore`.
  The steps before the rename are steps of a client that asks, or stutter; the rename is the
  one step that makes the routine. `Excl` says that it is whole then and was absent before.
* `SessionNeedsPassword`, `SessionsNeverShared`, `SessionVariablesOwn` of `RoctoServer`, for any
  finite number of clients. The invariant follows a child through its three loops: for each
  variable, what the session holds and what was reported is told by the loop and by the
  variables still to do. That no other child writes into the session needs distinct
  numbers, and these need that no number above `lastId` is in use. The number of open sessions
  is `lastId`, so there is a node for each (`RoomForSession`).
* `TextsRunInOrder` and `FailuresAlwaysReported` of `RoctoSession`, for any texts, messages and log
  level. A text is any sequence in which a statement has its two elements and statements
  are separated (`IsText`). `SessionInv` says that a handler's loop always starts a statement
  after a semicolon or at the start of the text, and has run exactly the statements before it;
  what an earlier message left in the shared buffer does not matter because each handler
  sets index and `eof_hit` anew. `Reporting` says of each statement done that its own answer
  tells what happened to it, so that an answer too many for one does not hide one that is missing for
  another.
* `RowsNeverReplaced` of `SchemaStore`, for any processes, tables and columns. An oid that is taken
  and not stored under belongs to one process and is not above the last oid, and no row is stored above it;
  a process that stores columns has stored its table's row, under the oid the columns name
  (`TableFirst`).
* `KeysAlwaysComplete`, `AlwaysRightSequence` and `RowsAlwaysJoined` of `KeyPlan`, for any number of
  tables, columns, rows and equalities. Two hypotheses leave out queries with a known deviation:
  `KeysLinked` (no cross reference for a table of several keys that others follow) and, for
  the last two, `KeysApart` (no equality of two keys of one table). The instances of `keys` satisfy both.
  `KeysInv` says that the list has the keys table by table in the order of the FROM clause, each
  once, that a key is fixed to the other side of a conjunct, and that `key_unique_id_array`
  orders tables like the FROM clause; from this a key is only fixed to an earlier table.
  `RowsAlwaysJoined` is `JoinRows`: `RunInv` says at each point of the nested loops that exactly the
  right combinations that the loops have passed are put out, in the order of the
  keys (`Passed`); that the values the loops are at belong to rows (`Reached`); and that a fixed
  key has the value of every right combination that agrees with the loops outside (`Forced`).
  Advancing a loop skips only values that no row has under the outer keys, and a fixed key
  that finds no data skips only combinations that the WHERE clause refuses. That a row is
  put out once needs that the key columns of all tables are loops, which is `KeysComplete`.
* `SpliceKeepsRings` and `SpliceUndone` of `JoinLists`, for any two joins of any lists whose links
  are each other's inverse: the splice gives such lists again, and `ResetLists` gives back
  the original ones.

TLC also finds the inductive invariants of `RoctoServerProofs`, `SchemaStoreProofs` and `XrefProofs`
to hold on the instances of `server`, `schema` and (undisturbed) `xref_maintained`.

Only model-checked: the liveness properties (fairness and ENABLED are out of reach of the
prover); the modules with recursive operators (`WhereClause`, `SetPlan`, `OuterJoin`,
`WireMessages`, `ServerMessages`, `BindParameters`, `NameResolution`, `DataTypes`, `QueryHash`,
`SelectStatement`); and `StoredTable` and `Configuration`, whose properties are about what a
conversion of sequences computes, by induction over data that the prover does not do.

## Not modelled

* Input from the terminal (`readline_get_more.c`, `octo.c`): `InputText` starts from a full
  buffer.
* NATURAL JOIN, set operations in the resolution of names, functions and arithmetic inside
  conditions, derived tables inside joins.
* START, END and ADVANCE of columns, whose M expressions are written by the user, and the
  layout of generated routines.
* TLS settings and the handshake, beyond their outcome in `RoctoServer`.
* Memory: `memory_chunk.c`, `copy_sql_statement.c` and the lifetime of what they allocate.
* The text form of plans (`physical/pparser.c`), which the two programs do not use.
* The M routines in `aux/`, which only administer users.

## Plan

1. Input from the terminal and from files, as the source of `InputText`'s buffer.
2. NATURAL JOIN and set operations in `NameResolution`.
3. Proofs: the several plans of a statement (`SetPlan`), once its recursion is over numbers.
