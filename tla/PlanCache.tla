----------------------------- MODULE PlanCache -----------------------------
(***************************************************************************)
(* The cache of generated M routines that every octo and rocto process     *)
(* shares.  A SELECT is hashed to a plan file name; the first process that *)
(* does not find the file generates it, and all of them then run it.       *)
(*                                                                         *)
(* Source: run_query.c and rocto/handle_describe.c (the lookup under a     *)
(* YottaDB lock), emit_select_statement.c (file first, metadata second),   *)
(* physical/emit_physical_plan.c (cross reference files written in place,  *)
(* plan file written under a temporary name and renamed), and the readers  *)
(* print_temporary_table.c, rocto/handle_query_response.c and              *)
(* rocto/get_plan_row_description.c.                                       *)
(*                                                                         *)
(* What a file holds is the set of its blocks that have been written.  Two *)
(* processes that generate the same plan write the same bytes, since       *)
(* parse_line resets config->plan_id for every statement.  Two plans that  *)
(* use one cross reference write different texts to its routine: the names *)
(* of its keys contain the unique ids they have in the plan.               *)
(***************************************************************************)
EXTENDS Integers, Sequences, FiniteSets

CONSTANTS
  Proc,         \* octo processes and rocto session children
  Plan,         \* hashes of canonical queries, one plan file each
  Xref,         \* (table, column) pairs, one cross reference routine each
  XrefSeq,      \* the cross references a plan generates, in plan order
  BadPlans,     \* plans that lp_verify_structure rejects
  NumBlocks,    \* blocks in a generated file
  NumColumns,   \* columns of a plan's output
  NumFields,    \* metadata nodes per column (7 in the code)
  LockExpires,  \* may the 5 second wait for the file lock run out?
  MaxQueries,   \* bound: SELECTs started by one process
  MaxCrashes,   \* bound: processes killed at an arbitrary step
  NoProc

ASSUME PlanCacheAssumption ==
  /\ XrefSeq \in [Plan -> Seq(Xref)]
  /\ BadPlans \subseteq Plan
  /\ NumBlocks \in Nat \ {0}
  /\ NumColumns \in Nat \ {0}
  /\ NumFields \in Nat \ {0}
  /\ LockExpires \in BOOLEAN
  /\ MaxQueries \in Nat
  /\ MaxCrashes \in Nat
  /\ NoProc \notin Proc

Block == 1 .. NumBlocks

\* The file does not exist.  Blocks are numbered from 1, so no content is {0}
NoFile == {0}
NumNodes == NumColumns * NumFields
FileState == (SUBSET Block) \cup {NoFile}
NoPlan == "no plan"

VARIABLES
  planFile,   \* [Plan -> FileState]: <tmp_dir>/_ydboctoP<hash>.m
  tmpFile,    \* [Plan -> FileState]: the same name with a final 't'
  xrefFile,   \* [Xref -> FileState]: <tmp_dir>/_ydboctoX<hash>.m
  xrefText,   \* [Xref -> [Block -> Plan or NoPlan]]: whose text a block of it holds
  keySet,     \* plans whose plan_metadata(...,"output_key") is set
  nodes,      \* [Plan -> 0..NumNodes]: plan_metadata(...,"output_columns") nodes set
  xrefDone,   \* cross references whose xref_status node exists
  lock,       \* [Plan -> Proc or NoProc]: ^%ydboctoocto("files",filename)
  pc, plan, kind,
  fd,         \* the name under which the file a process writes is linked
  xi,         \* next element of XrefSeq to generate
  pos,        \* next block, metadata node or column
  seen,       \* columns counted by the first pass over the metadata
  queries, crashes

files == <<planFile, tmpFile, xrefFile, xrefText>>
metadata == <<keySet, nodes>>
caller == <<plan, kind, queries>>
vars == <<files, metadata, xrefDone, lock, pc, caller, fd, xi, pos, seen, crashes>>

\* print_temporary_table, handle_query_response and handle_describe
Kind == {"octo", "rocto", "describe"}

\* "gone": the file was replaced by a later rename and has no name any more
FdState == {"none", "xref", "tmp", "plan", "gone"}

PC == {"idle", "access", "lock", "recheck", "emit", "write", "meta",
       "unlock", "run", "count", "read", "key", "fatal"}

TypeOK ==
  /\ planFile \in [Plan -> FileState]
  /\ tmpFile \in [Plan -> FileState]
  /\ xrefFile \in [Xref -> FileState]
  /\ xrefText \in [Xref -> [Block -> Plan \cup {NoPlan}]]
  /\ keySet \subseteq Plan
  /\ nodes \in [Plan -> 0 .. NumNodes]
  /\ xrefDone \subseteq Xref
  /\ lock \in [Plan -> Proc \cup {NoProc}]
  /\ pc \in [Proc -> PC]
  /\ plan \in [Proc -> Plan]
  /\ kind \in [Proc -> Kind]
  /\ fd \in [Proc -> FdState]
  /\ xi \in [Proc -> Nat \ {0}]
  /\ pos \in [Proc -> Nat]
  /\ seen \in [Proc -> Nat]
  /\ queries \in [Proc -> 0 .. MaxQueries]
  /\ crashes \in 0 .. MaxCrashes

Init ==
  /\ planFile = [f \in Plan |-> NoFile]
  /\ tmpFile = [f \in Plan |-> NoFile]
  /\ xrefFile = [x \in Xref |-> NoFile]
  /\ xrefText = [x \in Xref |-> [b \in Block |-> NoPlan]]
  /\ keySet = {}
  /\ nodes = [f \in Plan |-> 0]
  /\ xrefDone = {}
  /\ lock = [f \in Plan |-> NoProc]
  /\ pc = [p \in Proc |-> "idle"]
  /\ plan \in [Proc -> Plan]
  /\ kind \in [Proc -> Kind]
  /\ fd = [p \in Proc |-> "none"]
  /\ xi = [p \in Proc |-> 1]
  /\ pos = [p \in Proc |-> 0]
  /\ seen = [p \in Proc |-> 0]
  /\ queries = [p \in Proc |-> 0]
  /\ crashes = 0

Goto(p, label) == pc' = [pc EXCEPT ![p] = label]

\* ydb_lock_decr_s of a lock the process does not hold has no effect
Release(p) ==
  lock' = [lock EXCEPT ![plan[p]] = IF @ = p THEN NoProc ELSE @]

\* Where a caller goes once the plan file exists
AfterCache(k) == IF k = "describe" THEN "count" ELSE "run"
AfterRun(k) == IF k = "rocto" THEN "count" ELSE "key"
AfterDescription(k) == IF k = "rocto" THEN "key" ELSE "idle"

----------------------------------------------------------------------------
(* Faulty variants of operations below; each breaks a property of the runs *)

\* The column loop of emit_select_statement runs once too often
SetMetadataTooFar(p) ==
  /\ pc[p] = "meta"
  /\ keySet' = keySet \cup {plan[p]}
  /\ nodes' = [nodes EXCEPT ![plan[p]] = IF pos[p] > @ THEN pos[p] ELSE @]
  /\ pos' = [pos EXCEPT ![p] = @ + 1]
  /\ Goto(p, IF pos[p] = NumNodes + 1 THEN "unlock" ELSE "meta")
  /\ UNCHANGED <<files, xrefDone, lock, caller, fd, xi, seen, crashes>>

\* The column loop stops before the last node
SetMetadataShort(p) ==
  /\ pc[p] = "meta"
  /\ keySet' = keySet \cup {plan[p]}
  /\ nodes' = [nodes EXCEPT ![plan[p]] = IF pos[p] > @ THEN pos[p] ELSE @]
  /\ pos' = [pos EXCEPT ![p] = @ + 1]
  /\ Goto(p, IF pos[p] = NumNodes - 1 THEN "unlock" ELSE "meta")
  /\ UNCHANGED <<files, xrefDone, lock, caller, fd, xi, seen, crashes>>

\* rename before the last buffer is flushed
RenameBeforeFlush(p) ==
  /\ pc[p] = "write"
  /\ fd[p] = "tmp"
  /\ tmpFile[plan[p]] # NoFile
  /\ planFile' = [planFile EXCEPT ![plan[p]] = tmpFile[plan[p]]]
  /\ tmpFile' = [tmpFile EXCEPT ![plan[p]] = NoFile]
  /\ fd' = [fd EXCEPT ![p] = "none"]
  /\ pos' = [pos EXCEPT ![p] = 0]
  /\ Goto(p, "meta")
  /\ UNCHANGED <<xrefFile, xrefText, metadata, xrefDone, lock, caller, xi, seen, crashes>>

\* No second access() under the lock
RecheckDropped(p) ==
  /\ pc[p] = "recheck"
  /\ Goto(p, "emit")
  /\ xi' = [xi EXCEPT ![p] = 1]
  /\ UNCHANGED <<files, metadata, xrefDone, lock, caller, fd, pos, seen, crashes>>

\* fclose before the last block of a cross reference routine
CloseXrefEarly(p) ==
  /\ pc[p] = "write"
  /\ fd[p] = "xref"
  /\ pos[p] >= NumBlocks
  /\ fd' = [fd EXCEPT ![p] = "none"]
  /\ xi' = [xi EXCEPT ![p] = @ + 1]
  /\ Goto(p, "emit")
  /\ UNCHANGED <<files, metadata, xrefDone, lock, caller, pos, seen, crashes>>

\* The lock is not given back when emit_select_statement returns NULL
EmitRejectedLocked(p) ==
  /\ pc[p] = "emit"
  /\ plan[p] \in BadPlans
  /\ Goto(p, "idle")
  /\ UNCHANGED <<files, metadata, xrefDone, lock, caller, fd, xi, pos, seen, crashes>>

\* access() is asked about the temporary name as well
AccessTmp(p) ==
  /\ pc[p] = "access"
  /\ Goto(p, IF planFile[plan[p]] = NoFile /\ tmpFile[plan[p]] = NoFile
             THEN "lock" ELSE AfterCache(kind[p]))
  /\ UNCHANGED <<files, metadata, xrefDone, lock, caller, fd, xi, pos, seen, crashes>>

----------------------------------------------------------------------------
(* The lookup: access, lock, access again *)

\* A SELECT is parsed and hashed to a plan file name
StartQuery(p) ==
  /\ pc[p] = "idle"
  /\ queries[p] < MaxQueries
  /\ \E f \in Plan, k \in Kind :
       /\ plan' = [plan EXCEPT ![p] = f]
       /\ kind' = [kind EXCEPT ![p] = k]
  /\ queries' = [queries EXCEPT ![p] = @ + 1]
  /\ Goto(p, "access")
  /\ UNCHANGED <<files, metadata, xrefDone, lock, fd, xi, pos, seen, crashes>>

\* access(filename, F_OK) before the lock
Access(p) ==
  /\ pc[p] = "access"
  /\ Goto(p, IF planFile[plan[p]] = NoFile THEN "lock" ELSE AfterCache(kind[p]))
  /\ UNCHANGED <<files, metadata, xrefDone, lock, caller, fd, xi, pos, seen, crashes>>

\* ydb_lock_incr_s succeeds
Lock(p) ==
  /\ pc[p] = "lock"
  /\ lock[plan[p]] = NoProc
  /\ lock' = [lock EXCEPT ![plan[p]] = p]
  /\ Goto(p, "recheck")
  /\ UNCHANGED <<files, metadata, xrefDone, caller, fd, xi, pos, seen, crashes>>

\* ydb_lock_incr_s times out; its return value is not looked at
LockTimeout(p) ==
  /\ LockExpires
  /\ pc[p] = "lock"
  /\ lock[plan[p]] # NoProc
  /\ Goto(p, "recheck")
  /\ UNCHANGED <<files, metadata, xrefDone, lock, caller, fd, xi, pos, seen, crashes>>

\* access(filename, F_OK) after the lock
Recheck(p) ==
  /\ pc[p] = "recheck"
  /\ Goto(p, IF planFile[plan[p]] = NoFile THEN "emit" ELSE "unlock")
  /\ xi' = [xi EXCEPT ![p] = 1]
  /\ UNCHANGED <<files, metadata, xrefDone, lock, caller, fd, pos, seen, crashes>>

----------------------------------------------------------------------------
(* emit_select_statement: generate the routines, then their metadata *)

\* emit_select_statement returns NULL; the caller unlocks and gives up
EmitRejected(p) ==
  /\ pc[p] = "emit"
  /\ plan[p] \in BadPlans
  /\ Release(p)
  /\ Goto(p, "idle")
  /\ UNCHANGED <<files, metadata, xrefDone, caller, fd, xi, pos, seen, crashes>>

\* fopen(filename, "w") of a cross reference routine, under its final name
OpenXref(p) ==
  /\ pc[p] = "emit"
  /\ plan[p] \notin BadPlans
  /\ xi[p] <= Len(XrefSeq[plan[p]])
  /\ xrefFile' = [xrefFile EXCEPT ![XrefSeq[plan[p]][xi[p]]] = {}]
  /\ xrefText' = [xrefText EXCEPT ![XrefSeq[plan[p]][xi[p]]] = [b \in Block |-> NoPlan]]
  /\ fd' = [fd EXCEPT ![p] = "xref"]
  /\ pos' = [pos EXCEPT ![p] = 1]
  /\ Goto(p, "write")
  /\ UNCHANGED <<planFile, tmpFile, metadata, xrefDone, lock, caller, xi, seen, crashes>>

\* fopen(tmp_plan_filename, "w") truncates a file another process left or is writing
OpenTmp(p) ==
  /\ pc[p] = "emit"
  /\ plan[p] \notin BadPlans
  /\ xi[p] > Len(XrefSeq[plan[p]])
  /\ tmpFile' = [tmpFile EXCEPT ![plan[p]] = {}]
  /\ fd' = [fd EXCEPT ![p] = "tmp"]
  /\ pos' = [pos EXCEPT ![p] = 1]
  /\ Goto(p, "write")
  /\ UNCHANGED <<planFile, xrefFile, xrefText, metadata, xrefDone, lock, caller, xi, seen, crashes>>

\* A flush of the stdio buffer: the next block, at this process's own offset
WriteBlock(p) ==
  /\ pc[p] = "write"
  /\ pos[p] <= NumBlocks
  /\ LET f == plan[p]
         b == {pos[p]}
     IN  /\ planFile' = IF fd[p] = "plan" THEN [planFile EXCEPT ![f] = @ \cup b] ELSE planFile
         /\ tmpFile' = IF fd[p] = "tmp" THEN [tmpFile EXCEPT ![f] = @ \cup b] ELSE tmpFile
         /\ xrefFile' = IF fd[p] = "xref"
                        THEN [xrefFile EXCEPT ![XrefSeq[f][xi[p]]] = @ \cup b]
                        ELSE xrefFile
         /\ xrefText' = IF fd[p] = "xref"
                        THEN [xrefText EXCEPT ![XrefSeq[f][xi[p]]][pos[p]] = f]
                        ELSE xrefText
  /\ pos' = [pos EXCEPT ![p] = @ + 1]
  /\ UNCHANGED <<metadata, xrefDone, lock, pc, caller, fd, xi, seen, crashes>>

\* fclose of a cross reference routine; on to the next generated file
CloseXref(p) ==
  /\ pc[p] = "write"
  /\ fd[p] = "xref"
  /\ pos[p] > NumBlocks
  /\ fd' = [fd EXCEPT ![p] = "none"]
  /\ xi' = [xi EXCEPT ![p] = @ + 1]
  /\ Goto(p, "emit")
  /\ UNCHANGED <<files, metadata, xrefDone, lock, caller, pos, seen, crashes>>

\* How rename(tmp, final) of plan f changes the name behind q's open file
FdAfterRename(q, p, f) ==
  CASE q = p -> "none"
    [] q # p /\ plan[q] = f /\ fd[q] = "tmp" -> "plan"
    [] q # p /\ plan[q] = f /\ fd[q] = "plan" -> "gone"
    [] OTHER -> fd[q]

\* fclose and rename; a rename without a temporary file fails unnoticed
RenamePlan(p) ==
  /\ pc[p] = "write"
  /\ fd[p] \in {"tmp", "plan", "gone"}
  /\ pos[p] > NumBlocks
  /\ LET f == plan[p] IN
       IF tmpFile[f] = NoFile
       THEN /\ fd' = [fd EXCEPT ![p] = "none"]
            /\ UNCHANGED files
       ELSE /\ planFile' = [planFile EXCEPT ![f] = tmpFile[f]]
            /\ tmpFile' = [tmpFile EXCEPT ![f] = NoFile]
            /\ fd' = [q \in Proc |-> FdAfterRename(q, p, f)]
            /\ UNCHANGED <<xrefFile, xrefText>>
  /\ pos' = [pos EXCEPT ![p] = 0]
  /\ Goto(p, "meta")
  /\ UNCHANGED <<metadata, xrefDone, lock, caller, xi, seen, crashes>>

\* set(output_key, ...) first, then NumFields nodes for each column in turn
SetMetadata(p) ==
  /\ pc[p] = "meta"
  /\ LET f == plan[p] IN
       IF pos[p] = 0
       THEN keySet' = keySet \cup {f} /\ UNCHANGED nodes
       ELSE /\ nodes' = [nodes EXCEPT ![f] = IF pos[p] > @ THEN pos[p] ELSE @]
            /\ UNCHANGED keySet
  /\ pos' = [pos EXCEPT ![p] = @ + 1]
  /\ Goto(p, IF pos[p] = NumNodes THEN "unlock" ELSE "meta")
  /\ UNCHANGED <<files, xrefDone, lock, caller, fd, xi, seen, crashes>>

Unlock(p) ==
  /\ pc[p] = "unlock"
  /\ Release(p)
  /\ Goto(p, AfterCache(kind[p]))
  /\ UNCHANGED <<files, metadata, xrefDone, caller, fd, xi, pos, seen, crashes>>

----------------------------------------------------------------------------
(* Using the plan: run it, describe its columns, read its output *)

XrefsOf(f) == {XrefSeq[f][i] : i \in 1 .. Len(XrefSeq[f])}

\* Every routine the run links is whole: the plan, and each cross reference
\* routine it calls because the cross reference is not built yet
Runnable(f) ==
  /\ planFile[f] = Block
  /\ \A x \in XrefsOf(f) \ xrefDone : xrefFile[x] = Block

\* Some cross reference routine it links holds the texts of two plans
Mixed(f) == \E x \in XrefsOf(f) \ xrefDone, b, c \in Block : xrefText[x][b] # xrefText[x][c]

\* ydb_ci("_ydboctoselect", ...); an error status is FATAL.  A mixture of two texts
\* may be a routine or not.
RunPlan(p) ==
  /\ pc[p] = "run"
  /\ \/ /\ Runnable(plan[p])
        /\ xrefDone' = xrefDone \cup XrefsOf(plan[p])
        /\ Goto(p, AfterRun(kind[p]))
     \/ /\ ~Runnable(plan[p]) \/ Mixed(plan[p])
        /\ UNCHANGED xrefDone
        /\ Goto(p, "fatal")
  /\ UNCHANGED <<files, metadata, lock, caller, fd, xi, pos, seen, crashes>>

\* Columns for which at least one metadata node exists
VisibleColumns(f) == (nodes[f] + NumFields - 1) \div NumFields

\* get_plan_row_description, first pass: how many columns to allocate
CountColumns(p) ==
  /\ pc[p] = "count"
  /\ seen' = [seen EXCEPT ![p] = VisibleColumns(plan[p])]
  /\ pos' = [pos EXCEPT ![p] = 1]
  /\ Goto(p, "read")
  /\ UNCHANGED <<files, metadata, xrefDone, lock, caller, fd, xi, crashes>>

\* Second pass, one column: a missing node is FATAL; a column beyond the
\* counted ones is stored past the end of the array (either outcome)
ReadColumn(p) ==
  /\ pc[p] = "read"
  /\ pos[p] <= VisibleColumns(plan[p])
  /\ IF nodes[plan[p]] < pos[p] * NumFields
     THEN Goto(p, "fatal")
     ELSE \/ UNCHANGED pc
          \/ pos[p] > seen[p] /\ Goto(p, "fatal")
  /\ pos' = [pos EXCEPT ![p] = @ + 1]
  /\ UNCHANGED <<files, metadata, xrefDone, lock, caller, fd, xi, seen, crashes>>

\* The row description is sent
DescriptionDone(p) ==
  /\ pc[p] = "read"
  /\ pos[p] > VisibleColumns(plan[p])
  /\ Goto(p, AfterDescription(kind[p]))
  /\ UNCHANGED <<files, metadata, xrefDone, lock, caller, fd, xi, pos, seen, crashes>>

\* get(...,"output_key"): NULL is FATAL(ERR_DATABASE_FILES_OOS)
ReadOutputKey(p) ==
  /\ pc[p] = "key"
  /\ Goto(p, IF plan[p] \in keySet THEN "idle" ELSE "fatal")
  /\ UNCHANGED <<files, metadata, xrefDone, lock, caller, fd, xi, pos, seen, crashes>>

----------------------------------------------------------------------------
(* Process death (kill, FATAL) frees the locks of the process *)

Crash(p) ==
  /\ crashes < MaxCrashes
  /\ pc[p] \notin {"idle", "fatal"}
  /\ crashes' = crashes + 1
  /\ Release(p)
  /\ fd' = [fd EXCEPT ![p] = "none"]
  /\ Goto(p, "fatal")
  /\ UNCHANGED <<files, metadata, xrefDone, caller, xi, pos, seen>>

\* The user starts octo again, or the client reconnects
Restart(p) ==
  /\ pc[p] = "fatal"
  /\ queries[p] < MaxQueries
  /\ Goto(p, "idle")
  /\ UNCHANGED <<files, metadata, xrefDone, lock, caller, fd, xi, pos, seen, crashes>>

Step(p) ==
  \/ Access(p) \/ Lock(p) \/ LockTimeout(p) \/ Recheck(p)
  \/ EmitRejected(p) \/ OpenXref(p) \/ OpenTmp(p) \/ WriteBlock(p)
  \/ CloseXref(p) \/ RenamePlan(p) \/ SetMetadata(p) \/ Unlock(p)
  \/ RunPlan(p) \/ CountColumns(p) \/ ReadColumn(p) \/ DescriptionDone(p)
  \/ ReadOutputKey(p)

Next == \E p \in Proc : StartQuery(p) \/ Step(p) \/ Crash(p) \/ Restart(p)

Spec == Init /\ [][Next]_vars

\* A started statement keeps being executed; new ones and deaths are not forced
FairSpec == Spec /\ \A p \in Proc : WF_vars(Step(p))

----------------------------------------------------------------------------
(* Properties *)

\* The critical section of run_query.c and handle_describe.c
Emitting(p) == pc[p] \in {"recheck", "emit", "write", "meta", "unlock"}

\* p is still going to write block b of the file named n for plan f
WillWritePlan(p, n, f, b) ==
  pc[p] = "write" /\ plan[p] = f /\ fd[p] = n /\ pos[p] <= b

WillWriteXref(p, x, b) ==
  /\ pc[p] = "write" /\ fd[p] = "xref" /\ pos[p] <= b
  /\ XrefSeq[plan[p]][xi[p]] = x

\* While the lock wait never runs out, a plan file that access() can see is
\* whole, whatever processes died while generating it: the temporary file is
\* renamed only by the one process that truncated it and wrote all of it.
PlanFileComplete == \A f \in Plan : planFile[f] \in {NoFile, Block}

\* While the lock wait never runs out, a plan file is never modified, replaced
\* or generated again once it is visible: the second access() under the lock
\* is enough.
PlanFileImmutable ==
  [][\A f \in Plan : planFile[f] # NoFile =>
       planFile'[f] = planFile[f] /\ tmpFile'[f] = tmpFile[f]]_<<planFile, tmpFile>>

\* Even if lock waits run out and several processes write one file, a block
\* missing from a visible plan file is still to be written by a live process
\* (no process dies): no interleaving of the truncating fopen, the writes
\* and the renames leaves a file that stays incomplete.
PlanFileHealed ==
  \A f \in Plan : planFile[f] # NoFile =>
    \A b \in Block \ planFile[f] : \E p \in Proc : WillWritePlan(p, "plan", f, b)

\* The routine of x holds, and is being given, the text of plan f and no other
OnlyOf(x, f) ==
  /\ \A b \in xrefFile[x] : xrefText[x][b] = f
  /\ \A p \in Proc :
       pc[p] = "write" /\ fd[p] = "xref" /\ XrefSeq[plan[p]][xi[p]] = x => plan[p] = f

\* The same for cross reference routines, which are written in place: while one
\* plan only writes such a routine, any number of processes that truncate it and
\* write it at their own offsets leave the text of that plan, to the last block.
\* (Two plans that use the cross reference write it under different locks, and may
\* leave a mixture of their texts for good.)
XrefFileHealed ==
  \A x \in Xref, f \in Plan : xrefFile[x] # NoFile /\ OnlyOf(x, f) =>
    \A b \in Block \ xrefFile[x] : \E p \in Proc : plan[p] = f /\ WillWriteXref(p, x, b)

\* A visible plan file without its metadata has a live process that is
\* writing it (no process dies).  The file is renamed before
\* emit_select_statement stores "output_key" and "output_columns", so this is
\* all a reader that skips the lock may rely on.
MetadataPending ==
  \A f \in Plan : planFile[f] # NoFile =>
    \/ f \in keySet /\ nodes[f] = NumNodes
    \/ \E p \in Proc : pc[p] = "meta" /\ plan[p] = f

\* Every statement ends, in an answer or in FATAL: every path out of the
\* lookup, the rejected plan included, gives the file lock back.
StatementEnds == \A p \in Proc : pc[p] # "idle" ~> pc[p] \in {"idle", "fatal"}
----------------------------------------------------------------------------
(* The promise of the cache, and how its state shows it *)

StoreView == [f \in Plan |->
  CASE planFile[f] = NoFile -> "absent"
    [] planFile[f] = Block -> "whole"
    [] OTHER -> "torn"]

ClientView == [p \in Proc |->
  CASE pc[p] = "idle" -> "idle"
    [] pc[p] = "fatal" -> "dead"
    [] pc[p] \in {"access", "lock", "recheck", "emit", "write"} -> "asking"
    [] OTHER -> "using"]

RS == INSTANCE RoutineStore WITH
  Client <- Proc, Routine <- Plan, Rejected <- BadPlans,
  store <- StoreView, want <- plan, client <- ClientView

\* While the lock wait never runs out, run_query and handle_describe with
\* emit_physical_plan implement RoutineStore: each routine is made once, by
\* one atomic step (the rename), by a client that still asks for it, and no
\* client goes on to use a routine that is not whole, whatever dies.
Implements == RS!Spec
=============================================================================
