-------------------------------- MODULE Xref --------------------------------
(***************************************************************************)
(* One cross reference ^%ydboctoxref(table,column): the routine generated  *)
(* by m_templates/tmpl_physical_plan.ctemplate builds it when the first    *)
(* query needs it, and the trigger the routine installs (label handleSet)  *)
(* keeps it up to date while applications SET and KILL rows of the table.  *)
(*                                                                         *)
(* The database runs a trigger in the transaction of the update that fired *)
(* it, so an update and its handleSet are one step.  The builder is an     *)
(* ordinary routine: it evaluates a row, stores the entry and increments   *)
(* the two counts in separate steps.                                       *)
(***************************************************************************)
EXTENDS Integers, FiniteSets

CONSTANTS
  Proc,           \* processes that run queries using the cross reference
  NumRows,        \* keys of the table are 1..NumRows, in $ORDER
  Value,          \* non-empty column values
  Empty,          \* the empty string
  NoRow,          \* no row at a key
  NoProc,
  Settings,       \* what may happen in a behaviour: subsets of Event
  MaxUpdates,     \* bound: row updates
  MaxCrashes      \* bound: processes killed

\* "empty": the column may be empty.  "expires": the 10 second LOCK may run out.
\* "overlap": rows may be updated while the cross reference is built.  "death":
\* processes may be killed.
Event == {"empty", "expires", "overlap", "death"}

ASSUME XrefAssumption ==
  /\ NumRows \in Nat
  /\ Empty \notin Value /\ NoRow \notin Value \cup {Empty}
  /\ NoProc \notin Proc
  /\ Settings \subseteq SUBSET Event
  /\ MaxUpdates \in Nat /\ MaxCrashes \in Nat

Key == 1 .. NumRows
Index == Value \cup {Empty}   \* subscripts of the cross reference

VARIABLES
  table,      \* [Key -> Index or NoRow]
  entry,      \* nodes ^xref(table,column,value,key)
  count,      \* [Index -> Int]: ^xref(table,column,value), 0 when undefined
  total,      \* ^xref(table,column), 0 when undefined
  done,       \* xref_status is "done"
  trigger,    \* the trigger is installed
  lock,       \* holder of the lock on ^xref(table,column)
  pc, key,    \* per process: step and position of the key loop
  val,        \* per process: the value an expression evaluated to
  updates, crashes,
  may         \* the setting of this behaviour; never changes

\* The values the column takes
Column == IF "empty" \in may THEN Value \cup {Empty} ELSE Value

xref == <<entry, count, total>>
vars == <<table, xref, done, trigger, lock, pc, key, val, updates, crashes, may>>

PC == {"idle", "lock", "check", "trigger", "advance", "evaluate", "entry",
       "total", "reevaluate", "count"}

Init ==
  /\ may \in Settings
  /\ table \in [Key -> Column \cup {NoRow}]
  /\ entry = {}
  /\ count = [v \in Index |-> 0]
  /\ total = 0
  /\ done = FALSE /\ trigger = FALSE
  /\ lock = NoProc
  /\ pc = [p \in Proc |-> "idle"]
  /\ key = [p \in Proc |-> 0]
  /\ val = [p \in Proc |-> Empty]
  /\ updates = 0 /\ crashes = 0

Goto(p, label) == pc' = [pc EXCEPT ![p] = label]

\* LOCK - of a lock the process does not hold has no effect
Release(p) == lock' = IF lock = p THEN NoProc ELSE lock

\* $PIECE($GET(row),delim,piece)
ColumnOf(k) == IF table[k] = NoRow THEN Empty ELSE table[k]

Building(p) == pc[p] \in {"trigger", "advance", "evaluate", "entry", "total",
                          "reevaluate", "count"}

----------------------------------------------------------------------------
(* Faulty variants of operations below; each breaks a property of the runs *)

\* No status check under the lock
CheckDropped(p) ==
  /\ pc[p] = "check"
  /\ Goto(p, "trigger")
  /\ UNCHANGED <<table, xref, done, trigger, lock, key, val, updates, crashes, may>>

\* The end of the loop keeps the lock
FinishKeepsLock(p) ==
  /\ pc[p] = "advance"
  /\ \A k \in Key : k > key[p] => table[k] = NoRow
  /\ done' = TRUE
  /\ Goto(p, "idle")
  /\ UNCHANGED <<table, xref, trigger, lock, key, val, updates, crashes, may>>

\* The build starts with a KILL of what is there
KillFirst(p) ==
  /\ pc[p] = "trigger"
  /\ trigger' = TRUE
  /\ entry' = {} /\ count' = [v \in Index |-> 0] /\ total' = 0
  /\ key' = [key EXCEPT ![p] = 0]
  /\ Goto(p, "advance")
  /\ UNCHANGED <<table, done, lock, val, updates, crashes, may>>

\* Only the count of the value is incremented
TotalForgotten(p) ==
  /\ pc[p] = "total"
  /\ Goto(p, "reevaluate")
  /\ UNCHANGED <<table, xref, done, trigger, lock, key, val, updates, crashes, may>>

\* handleSet leaves the entry of the old value
StillIndexed(k, old) == entry

----------------------------------------------------------------------------
(* The generated routine *)

\* A plan calls the routine only while xref_status has no value
CallBuilder(p) ==
  /\ pc[p] = "idle"
  /\ ~done
  /\ Goto(p, "lock")
  /\ UNCHANGED <<table, xref, done, trigger, lock, key, val, updates, crashes, may>>

\* LOCK +^xref(table,column):10
Lock(p) ==
  /\ pc[p] = "lock"
  /\ lock = NoProc
  /\ lock' = p
  /\ Goto(p, "check")
  /\ UNCHANGED <<table, xref, done, trigger, key, val, updates, crashes, may>>

\* The LOCK runs out; $TEST is not looked at
LockTimeout(p) ==
  /\ "expires" \in may
  /\ pc[p] = "lock"
  /\ lock # NoProc
  /\ Goto(p, "check")
  /\ UNCHANGED <<table, xref, done, trigger, lock, key, val, updates, crashes, may>>

\* Quit if another process has finished the cross reference meanwhile
CheckStatus(p) ==
  /\ pc[p] = "check"
  /\ IF done THEN Release(p) /\ Goto(p, "idle")
             ELSE Goto(p, "trigger") /\ UNCHANGED lock
  /\ UNCHANGED <<table, xref, done, trigger, key, val, updates, crashes, may>>

\* $ZTRIGGER("item",...) and the start of the key loop
InstallTrigger(p) ==
  /\ pc[p] = "trigger"
  /\ trigger' = TRUE
  /\ key' = [key EXCEPT ![p] = 0]
  /\ Goto(p, "advance")
  /\ UNCHANGED <<table, xref, done, lock, val, updates, crashes, may>>

RowsAfter(k) == {j \in Key : j > k /\ table[j] # NoRow}

\* key=$ORDER(row(key))
Advance(p) ==
  /\ pc[p] = "advance"
  /\ \E k \in RowsAfter(key[p]) :
       /\ \A j \in RowsAfter(key[p]) : k <= j
       /\ key' = [key EXCEPT ![p] = k]
  /\ Goto(p, "evaluate")
  /\ UNCHANGED <<table, xref, done, trigger, lock, val, updates, crashes, may>>

\* The subscripts of the entry
Evaluate(p) ==
  /\ pc[p] = "evaluate"
  /\ val' = [val EXCEPT ![p] = ColumnOf(key[p])]
  /\ Goto(p, "entry")
  /\ UNCHANGED <<table, xref, done, trigger, lock, key, updates, crashes, may>>

\* SET ^xref(table,column,value,key)=""
SetEntry(p) ==
  /\ pc[p] = "entry"
  /\ entry' = entry \cup {<<val[p], key[p]>>}
  /\ Goto(p, "total")
  /\ UNCHANGED <<table, count, total, done, trigger, lock, key, val, updates, crashes, may>>

\* IF $INCREMENT(^xref(table,column)), : a result of 0 ends the IF
IncrementTotal(p) ==
  /\ pc[p] = "total"
  /\ total' = total + 1
  /\ Goto(p, IF total + 1 = 0 THEN "advance" ELSE "reevaluate")
  /\ UNCHANGED <<table, entry, count, done, trigger, lock, key, val, updates, crashes, may>>

\* The row is read again for the subscript of the second $INCREMENT
Reevaluate(p) ==
  /\ pc[p] = "reevaluate"
  /\ val' = [val EXCEPT ![p] = ColumnOf(key[p])]
  /\ Goto(p, "count")
  /\ UNCHANGED <<table, xref, done, trigger, lock, key, updates, crashes, may>>

\* $INCREMENT(^xref(table,column,value))
IncrementCount(p) ==
  /\ pc[p] = "count"
  /\ count' = [count EXCEPT ![val[p]] = @ + 1]
  /\ Goto(p, "advance")
  /\ UNCHANGED <<table, entry, total, done, trigger, lock, key, val, updates, crashes, may>>

\* The loop ends: xref_status is set and the lock given back
Finish(p) ==
  /\ pc[p] = "advance"
  /\ RowsAfter(key[p]) = {}
  /\ done' = TRUE
  /\ Release(p)
  /\ Goto(p, "idle")
  /\ UNCHANGED <<table, xref, trigger, key, val, updates, crashes, may>>

----------------------------------------------------------------------------
(* handleSet *)

\* What is left of the entries and counts when the counts of vs become c
\* and value nodes whose count reaches 0 are killed
Pruned(e, c, vs) == {n \in e : ~(n[1] \in vs /\ c[n[1]] = 0)}

\* oldValue'="": kill the entry, decrement both counts, kill an empty value
Unindexed(k, old) == entry \ {<<old, k>>}
CountAfterSet(old, new) ==
  [v \in Index |-> count[v] + (IF v # Empty /\ v = new THEN 1 ELSE 0)
                            - (IF v # Empty /\ v = old THEN 1 ELSE 0)]

\* SET of a row whose column changes from old to new
TriggerSet(k, old, new) ==
  LET less == [count EXCEPT ![old] = @ - 1]
      kept == IF old = Empty THEN entry ELSE Pruned(Unindexed(k, old), less, {old})
  IN  /\ entry' = IF new = Empty THEN kept ELSE kept \cup {<<new, k>>}
      /\ count' = CountAfterSet(old, new)
      /\ total' = total + (IF new = Empty THEN 0 ELSE 1) - (IF old = Empty THEN 0 ELSE 1)

\* KILL of a row: every non-empty value with an entry for the key; the whole
\* cross reference goes when the total reaches 0 on the way
TriggerKill(k) ==
  LET vs == {v \in Value : <<v, k>> \in entry}
      less == [v \in Index |-> IF v \in vs THEN count[v] - 1 ELSE count[v]]
  IN  IF total \in 1 .. Cardinality(vs)
      THEN /\ entry' = {}
           /\ count' = [v \in Index |-> 0]
           /\ total' = 0
      ELSE /\ entry' = Pruned(entry \ (vs \X {k}), less, vs)
           /\ count' = less
           /\ total' = total - Cardinality(vs)

MayUpdate ==
  /\ updates < MaxUpdates
  /\ "overlap" \in may \/ \A p \in Proc : ~Building(p)

\* An application SETs a row; the trigger fires when its piece changes
SetRow(k, v) ==
  /\ MayUpdate
  /\ table[k] # v
  /\ table' = [table EXCEPT ![k] = v]
  /\ IF trigger /\ ColumnOf(k) # v THEN TriggerSet(k, ColumnOf(k), v) ELSE UNCHANGED xref
  /\ updates' = updates + 1
  /\ UNCHANGED <<done, trigger, lock, pc, key, val, crashes, may>>

\* An application KILLs a row
KillRow(k) ==
  /\ MayUpdate
  /\ table[k] # NoRow
  /\ table' = [table EXCEPT ![k] = NoRow]
  /\ IF trigger THEN TriggerKill(k) ELSE UNCHANGED xref
  /\ updates' = updates + 1
  /\ UNCHANGED <<done, trigger, lock, pc, key, val, crashes, may>>

\* A process dies; the database releases its lock
Crash(p) ==
  /\ "death" \in may
  /\ crashes < MaxCrashes
  /\ pc[p] # "idle"
  /\ crashes' = crashes + 1
  /\ Release(p)
  /\ Goto(p, "idle")
  /\ UNCHANGED <<table, xref, done, trigger, key, val, updates, may>>

Step(p) ==
  \/ Lock(p) \/ LockTimeout(p) \/ CheckStatus(p) \/ InstallTrigger(p)
  \/ Advance(p) \/ Evaluate(p) \/ SetEntry(p) \/ IncrementTotal(p)
  \/ Reevaluate(p) \/ IncrementCount(p) \/ Finish(p)

Next ==
  \/ \E p \in Proc : CallBuilder(p) \/ Step(p) \/ Crash(p)
  \/ \E k \in Key : KillRow(k) \/ \E v \in Column : SetRow(k, v)

Spec == Init /\ [][Next]_vars
FairSpec == Spec /\ \A p \in Proc : WF_vars(Step(p))

----------------------------------------------------------------------------
(* Properties *)

\* The routine's guard against building twice, while the LOCK does not run out:
\* at most one process is between the status check and the end of the build,
\* and no one is once xref_status is "done".
BuildsOnce ==
  "expires" \notin may =>
    \A p \in Proc : Building(p) => ~done /\ \A q \in Proc : Building(q) => q = p

RowsWith(v) == {k \in Key : table[k] = v}

\* Once xref_status is "done" after an undisturbed build, a query that looks up
\* a non-empty value gets exactly the keys of the rows that have it, and the
\* count that makes handleSet kill a value node is the number of those rows:
\* the trigger keeps up with every later update.
IndexExact ==
  done /\ may \subseteq {"empty"} => \A v \in Value :
    /\ {k \in Key : <<v, k>> \in entry} = RowsWith(v)
    /\ count[v] = Cardinality(RowsWith(v))

\* Once xref_status is "done", a query finds every row that has the value it
\* looks up, even if lock waits ran out and several processes built the cross
\* reference at once.  Updates do not overlap a build.
RowsFound ==
  done /\ may \cap {"overlap", "death"} = {} =>
    \A v \in Value : \A k \in RowsWith(v) : <<v, k>> \in entry

\* While the column is never empty, the counts kept in the cross reference are
\* row counts once the build is done: of the table, and of every value.
RowCounts ==
  done /\ may = {} =>
    /\ total = Cardinality({k \in Key : table[k] # NoRow})
    /\ \A v \in Index : count[v] = Cardinality(RowsWith(v))

\* Every process that calls the routine returns from it, whoever builds, is
\* killed or updates rows meanwhile: both ways out give the lock back.
BuilderReturns == \A p \in Proc : pc[p] # "idle" ~> pc[p] = "idle"

\* What README.md promises of cross references: once one is built, queries find
\* every row by it, whatever was updated while it was built.
AlwaysFound ==
  done => \A v \in Value : \A k \in RowsWith(v) : <<v, k>> \in entry
=============================================================================
