---------------------------- MODULE SchemaStore ----------------------------
(***************************************************************************)
(* Table definitions: the global ^%ydboctoschema, written by CREATE TABLE  *)
(* and DROP TABLE (run_query.c, store_table_in_pg_class.c) and read by     *)
(* find_table, which keeps what it has read in the process.  A definition  *)
(* is stored in parts, each a node of its own, in the form that the module *)
(* StoredTable gives it.  Every action is one database call, with the      *)
(* local work around it.                                                   *)
(***************************************************************************)
EXTENDS StoredTable

CONSTANTS
    Proc, Table,
    Def,          \* definitions: [name, source, columns, delim]
    NoDef,        \* no definition
    NoPart,       \* a node that does not exist
    MaxParts,     \* bound: parts of a definition
    Settings,     \* what may happen in a behaviour: subsets of Event
    MaxDdl,       \* bound: CREATE statements
    MaxCrash      \* bound: processes that die

\* "overlap": statements of other processes may run during a CREATE or DROP.
\* "death": processes may die.
Event == {"overlap", "death"}

\* The parts of a definition, numbered from 0.
Parts(d) == Split(CompressStatement(d))
NumParts(d) == Len(Parts(d))
PartNo == 0..(MaxParts - 1)

ASSUME SchemaAssumption ==
    /\ \A d \in Def : NumParts(d) \in 1..MaxParts
    /\ NoDef \notin Def
    /\ Settings \subseteq SUBSET Event
    /\ MaxDdl \in Nat /\ MaxCrash \in Nat

VARIABLES
    part,       \* ^schema(table,"b",i)
    current,    \* the definition of the last CREATE, none after a DROP
    oid,        \* ^octo("oid")
    catalog,    \* by oid: the rows of pg_class and pg_attribute stored under it, in turn
    loaded,     \* %ydboctoloadedschemas: the buffer the process has in memory
    pc, table, def, pos, buff,    \* locals of the statement
    myOid, relOid,                \* the last oid it took, and the one of its table
    ddls, crashes,
    may         \* the setting of this behaviour; never changes

store == <<part, current, oid, catalog>>
oids == <<myOid, relOid>>
locals == <<pc, table, def, pos, buff, oids>>
vars == <<store, loaded, locals, ddls, crashes, may>>

Init ==
    /\ part = [t \in Table |-> [i \in PartNo |-> NoPart]]
    /\ current = [t \in Table |-> NoDef]
    /\ oid = 0 /\ catalog = <<>>
    /\ loaded = [p \in Proc |-> [t \in Table |-> <<>>]]
    /\ pc = [p \in Proc |-> "idle"]
    /\ table \in [Proc -> Table] /\ def = [p \in Proc |-> NoDef]
    /\ pos = [p \in Proc |-> -1]
    /\ buff = [p \in Proc |-> <<>>]
    /\ myOid = [p \in Proc |-> 0] /\ relOid = [p \in Proc |-> 0]
    /\ ddls = 0 /\ crashes = 0
    /\ may \in Settings

Goto(p, l) == pc' = [pc EXCEPT ![p] = l]

Querying == {"count", "read", "get", "use"}
Creating == {"set", "length", "oid", "row", "attoid", "attrow"}

Quiet(p, pcs) == "overlap" \in may \/ \A q \in Proc \ {p} : pc[q] \notin pcs

-----------------------------------------------------------------------------
(* find_table.  A name with a schema that is not found is looked up once   *)
(* more without it, which is another FindTable.                            *)

FindTable(p, t) ==
    /\ pc[p] = "idle" /\ Quiet(p, Creating)
    /\ table' = [table EXCEPT ![p] = t]
    /\ IF loaded[p][t] # <<>>
       THEN Goto(p, "use") /\ UNCHANGED pos
       ELSE /\ Goto(p, "count")
            /\ pos' = [pos EXCEPT ![p] = -1]
    /\ UNCHANGED <<store, loaded, def, buff, oids, ddls, crashes, may>>

Later(p) == {i \in PartNo : i > pos[p] /\ part[table[p]][i] # NoPart}
First(S) == CHOOSE i \in S : \A j \in S : i <= j

\* The first loop counts the parts; there is no table if there is none.
CountPart(p) ==
    /\ pc[p] = "count"
    /\ \/ /\ Later(p) # {}
          /\ pos' = [pos EXCEPT ![p] = First(Later(p))]
          /\ UNCHANGED <<pc, buff>>
       \/ /\ Later(p) = {}
          /\ pos' = [pos EXCEPT ![p] = -1]
          /\ buff' = [buff EXCEPT ![p] = <<>>]
          /\ Goto(p, IF pos[p] = -1 THEN "idle" ELSE "read")
    /\ UNCHANGED <<store, loaded, table, def, oids, ddls, crashes, may>>

\* The second loop: ydb_subscript_next_s, then ydb_get_s.  At the end the buffer
\* is decompressed and remembered.
NextPart(p) ==
    /\ pc[p] = "read"
    /\ \/ /\ Later(p) # {}
          /\ pos' = [pos EXCEPT ![p] = First(Later(p))]
          /\ Goto(p, "get")
          /\ UNCHANGED loaded
       \/ /\ Later(p) = {}
          /\ loaded' = [loaded EXCEPT ![p][table[p]] = buff[p]]
          /\ Goto(p, "use")
          /\ UNCHANGED pos
    /\ UNCHANGED <<store, table, def, buff, oids, ddls, crashes, may>>

\* A node that is gone is a FATAL error.
GetPart(p) ==
    /\ pc[p] = "get"
    /\ LET node == part[table[p]][pos[p]] IN
       IF node = NoPart
       THEN Goto(p, "dead") /\ UNCHANGED buff
       ELSE Goto(p, "read") /\ buff' = [buff EXCEPT ![p] = @ \o Padded(node)]
    /\ UNCHANGED <<store, loaded, table, def, pos, oids, ddls, crashes, may>>

\* The rest of the statement.
UseTable(p) ==
    /\ pc[p] = "use"
    /\ Goto(p, "idle")
    /\ UNCHANGED <<store, loaded, table, def, pos, buff, oids, ddls, crashes, may>>

-----------------------------------------------------------------------------
(* CREATE TABLE and DROP TABLE.                                            *)

\* The node for the text of the statement is set first; nothing reads it.
CreateTable(p, t, d) ==
    /\ pc[p] = "idle" /\ Quiet(p, Creating \cup Querying)
    /\ ddls < MaxDdl /\ ddls' = ddls + 1
    /\ table' = [table EXCEPT ![p] = t] /\ def' = [def EXCEPT ![p] = d]
    /\ pos' = [pos EXCEPT ![p] = 0]
    /\ Goto(p, "set")
    /\ UNCHANGED <<store, loaded, buff, oids, crashes, may>>

\* Parts of an older definition beyond the new ones are not deleted.
SetPart(p) ==
    /\ pc[p] = "set"
    /\ part' = [part EXCEPT ![table[p]][pos[p]] = Parts(def[p])[pos[p] + 1]]
    /\ pos' = [pos EXCEPT ![p] = @ + 1]
    /\ Goto(p, IF pos'[p] < NumParts(def[p]) THEN "set" ELSE "length")
    /\ UNCHANGED <<current, oid, catalog, loaded, table, def, buff, oids, ddls, crashes, may>>

SetLength(p) ==
    /\ pc[p] = "length"
    /\ current' = [current EXCEPT ![table[p]] = def[p]]
    /\ Goto(p, "oid")
    /\ UNCHANGED <<part, oid, catalog, loaded, table, def, pos, buff, oids, ddls, crashes, may>>

\* Mutant: the oid is taken when the row is stored.
NewOidLate(p) ==
    /\ pc[p] \in {"oid", "attoid"}
    /\ myOid' = [myOid EXCEPT ![p] = oid + 1]
    /\ oid' = oid
    /\ Goto(p, IF pc[p] = "oid" THEN "row" ELSE "attrow")
    /\ UNCHANGED <<part, current, catalog, loaded, table, def, pos, buff, relOid, ddls, crashes, may>>

\* store_table_in_pg_class: ydb_incr_s, for the table and for each of its columns.
NewOid(p) ==
    /\ pc[p] \in {"oid", "attoid"}
    /\ oid' = oid + 1
    /\ myOid' = [myOid EXCEPT ![p] = oid']
    /\ Goto(p, IF pc[p] = "oid" THEN "row" ELSE "attrow")
    /\ UNCHANGED <<part, current, catalog, loaded, table, def, pos, buff, relOid, ddls, crashes, may>>

\* ydb_set_s of a row under an oid.
SetRow(o, row) ==
    catalog' = [n \in DOMAIN catalog \cup {o} |->
                   IF n \notin DOMAIN catalog THEN <<row>>
                   ELSE IF n = o THEN Append(catalog[n], row) ELSE catalog[n]]

\* A row of pg_class ends with its own oid, a row of pg_attribute starts with that of
\* the table.
ClassRow(t, o) == [relation |-> "pg_class", table |-> t, of |-> o, column |-> 0]
AttributeRow(t, o, n) == [relation |-> "pg_attribute", table |-> t, of |-> o, column |-> n]

\* The row of pg_class; then the columns, from the first one.
StoreRow(p) ==
    /\ pc[p] = "row"
    /\ SetRow(myOid[p], ClassRow(table[p], myOid[p]))
    /\ relOid' = [relOid EXCEPT ![p] = myOid[p]]
    /\ pos' = [pos EXCEPT ![p] = 1]
    /\ Goto(p, "attoid")
    /\ UNCHANGED <<part, current, oid, loaded, table, def, buff, myOid, ddls, crashes, may>>

\* The row of pg_attribute for a column, until the list is at its start again.  The
\* parser gives a column one of the two types that have a number in pg_attribute.
StoreColumn(p) ==
    /\ pc[p] = "attrow"
    /\ SetRow(myOid[p], AttributeRow(table[p], relOid[p], pos[p]))
    /\ pos' = [pos EXCEPT ![p] = @ + 1]
    /\ Goto(p, IF pos[p] < Len(def[p].columns) THEN "attoid" ELSE "idle")
    /\ UNCHANGED <<part, current, oid, loaded, table, def, buff, oids, ddls, crashes, may>>

\* The nodes of the table are deleted with one call, then the process's own copy;
\* rows of the catalog stay.
DropTable(p, t) ==
    /\ pc[p] = "idle" /\ Quiet(p, Creating \cup Querying)
    /\ part' = [part EXCEPT ![t] = [i \in PartNo |-> NoPart]]
    /\ current' = [current EXCEPT ![t] = NoDef]
    /\ loaded' = [loaded EXCEPT ![p][t] = <<>>]
    /\ UNCHANGED <<oid, catalog, locals, ddls, crashes, may>>

\* The process dies.
Crash(p) ==
    /\ "death" \in may
    /\ crashes < MaxCrash /\ crashes' = crashes + 1
    /\ pc[p] # "dead"
    /\ Goto(p, "dead")
    /\ UNCHANGED <<store, loaded, table, def, pos, buff, oids, ddls, may>>

-----------------------------------------------------------------------------
Query(p) == CountPart(p) \/ NextPart(p) \/ GetPart(p) \/ UseTable(p)
Create(p) == SetPart(p) \/ SetLength(p) \/ NewOid(p) \/ StoreRow(p) \/ StoreColumn(p)

Next ==
    \E p \in Proc :
        \/ Query(p) \/ Create(p) \/ Crash(p)
        \/ \E t \in Table :
              \/ FindTable(p, t) \/ DropTable(p, t)
              \/ \E d \in Def : CreateTable(p, t, d)

Spec == Init /\ [][Next]_vars

-----------------------------------------------------------------------------
\* What find_table loads is the table as the last CREATE TABLE was given it, if
\* no statement overlaps a CREATE or DROP and no process dies: every pointer of
\* the flattened structure leads to what it led to, wherever the buffer was cut
\* into parts and whatever an older, longer definition left behind.
FoundAsCreated ==
    [][\A p \in Proc, t \in Table :
          may = {} /\ loaded'[p][t] \notin {<<>>, loaded[p][t]}
              => DecompressStatement(loaded'[p][t]) = current[t]]_vars

\* CREATE TABLE statements of any processes store their rows of pg_class and
\* pg_attribute, one for each column, under oids of their own: no row replaces
\* another, and the oid by which a column names its table leads to the row of this
\* table, whatever overlaps and dies.
RowsApart ==
    \A o \in DOMAIN catalog :
        /\ Len(catalog[o]) = 1
        /\ LET row == catalog[o][1] IN
              row.of \in DOMAIN catalog /\ catalog[row.of] = <<ClassRow(row.table, row.of)>>
=============================================================================
