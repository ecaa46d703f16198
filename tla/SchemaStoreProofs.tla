-------------------------- MODULE SchemaStoreProofs --------------------------
(* Rows of the catalog: for any number of processes, tables, columns and    *)
(* CREATE statements, running and dying in any order, no row of pg_class or *)
(* pg_attribute takes the place of another, and every row of pg_attribute   *)
(* leads to the row of its table.                                           *)
EXTENDS SchemaStore, TLAPS

Storing == {"row", "attrow"}
InColumns == {"attoid", "attrow"}

Types ==
    /\ pc \in [Proc -> Querying \cup Creating \cup {"idle", "dead"}]
    /\ table \in [Proc -> Table]
    /\ oid \in Nat
    /\ myOid \in [Proc -> Nat]
    /\ relOid \in [Proc -> Nat]

\* Rows are under oids that were taken.
Taken == \A o \in DOMAIN catalog : o \in 1..oid

\* An oid that is taken and not stored under belongs to one process.
Reserved ==
    /\ \A p \in Proc : pc[p] \in Storing => myOid[p] \in 1..oid /\ myOid[p] \notin DOMAIN catalog
    /\ \A p, q \in Proc : p # q /\ pc[p] \in Storing /\ pc[q] \in Storing => myOid[p] # myOid[q]

\* The row of table t is under oid o of catalog c.
HasClass(c, t, o) == o \in DOMAIN c /\ c[o] = <<ClassRow(t, o)>>

\* A process that stores columns has stored the row of their table.
TableFirst == \A p \in Proc : pc[p] \in InColumns => HasClass(catalog, table[p], relOid[p])

IInv == Types /\ Taken /\ Reserved /\ TableFirst /\ RowsApart

-----------------------------------------------------------------------------
\* A step that neither takes an oid nor stores a row.
Other(p) ==
    /\ oid' = oid /\ catalog' = catalog /\ myOid' = myOid /\ relOid' = relOid
    /\ table' \in [Proc -> Table]
    /\ pc' \in [Proc -> Querying \cup Creating \cup {"idle", "dead"}]
    /\ \A q \in Proc \ {p} : pc'[q] = pc[q] /\ table'[q] = table[q]
    /\ pc'[p] \notin Storing \cup InColumns

\* Such a step keeps what is known of oids.
LEMMA OtherKeeps ==
    ASSUME IInv, NEW p \in Proc, Other(p)
    PROVE  IInv'
<1>1. Types'
  BY Zenon DEF IInv, Types, Other
<1>2. Taken'
  BY Zenon DEF IInv, Taken, Other
<1>3. Reserved'
  BY ZenonT(60) DEF IInv, Reserved, Other
<1>4. TableFirst'
  BY ZenonT(60) DEF IInv, TableFirst, HasClass, Other
<1>5. RowsApart'
  BY Zenon DEF IInv, RowsApart, Other
<1> QED
  BY <1>1, <1>2, <1>3, <1>4, <1>5, Zenon DEF IInv

\* find_table, DROP TABLE, the parts of a definition and death are such steps.
LEMMA OtherActions ==
    ASSUME IInv, NEW p \in Proc,
           \/ Query(p) \/ Crash(p) \/ SetPart(p) \/ SetLength(p)
           \/ \E t \in Table : \/ FindTable(p, t)
                               \/ \E d \in Def : CreateTable(p, t, d)
    PROVE  Other(p)
<1> USE DEF IInv, Types, Other, Goto, Querying, Creating, Storing, InColumns, store, oids
<1>1. CASE CountPart(p)
  BY <1>1, Zenon DEF CountPart
<1>2. CASE NextPart(p)
  BY <1>2, Zenon DEF NextPart
<1>3. CASE GetPart(p)
  BY <1>3, Zenon DEF GetPart
<1>4. CASE UseTable(p)
  BY <1>4, Zenon DEF UseTable
<1>5. CASE Crash(p)
  BY <1>5, Zenon DEF Crash
<1>6. CASE SetPart(p)
  BY <1>6, Zenon DEF SetPart
<1>7. CASE SetLength(p)
  BY <1>7, Zenon DEF SetLength
<1>8. ASSUME NEW t \in Table, FindTable(p, t) PROVE Other(p)
  BY <1>8, Zenon DEF FindTable
<1>9. ASSUME NEW t \in Table, NEW d \in Def, CreateTable(p, t, d) PROVE Other(p)
  BY <1>9, Zenon DEF CreateTable
<1> QED
  BY <1>1, <1>2, <1>3, <1>4, <1>5, <1>6, <1>7, <1>8, <1>9, Zenon DEF Query

\* DROP TABLE leaves the catalog and what other statements hold.
LEMMA DropTableKeeps ==
    ASSUME IInv, NEW p \in Proc, NEW t \in Table, DropTable(p, t)
    PROVE  IInv'
<1>1. /\ oid' = oid /\ catalog' = catalog /\ myOid' = myOid /\ relOid' = relOid
      /\ pc' = pc /\ table' = table
  BY Zenon DEF DropTable, locals, oids
<1> QED
  BY <1>1, Zenon DEF IInv, Types, Taken, Reserved, TableFirst, HasClass, RowsApart

-----------------------------------------------------------------------------
\* Counting up once.
LEMMA Next1 ==
    ASSUME NEW n \in Nat
    PROVE  n + 1 \in Nat /\ n + 1 \in 1..(n + 1) /\ n + 1 \notin 1..n
           /\ \A o \in 1..n : o \in 1..(n + 1) /\ o # n + 1
OBVIOUS

\* ydb_incr_s gives an oid that no other process has, and under which there is
\* no row.
LEMMA NewOidKeeps ==
    ASSUME IInv, NEW p \in Proc, NewOid(p)
    PROVE  IInv'
<1>1. /\ oid' = oid + 1 /\ myOid' = [myOid EXCEPT ![p] = oid + 1]
      /\ \/ pc[p] = "oid" /\ pc' = [pc EXCEPT ![p] = "row"]
         \/ pc[p] = "attoid" /\ pc' = [pc EXCEPT ![p] = "attrow"]
      /\ table' = table /\ catalog' = catalog /\ relOid' = relOid
  BY Zenon DEF NewOid, Goto
<1>2. /\ oid + 1 \in Nat /\ oid + 1 \in 1..(oid + 1) /\ oid + 1 \notin 1..oid
      /\ \A o \in 1..oid : o \in 1..(oid + 1) /\ o # oid + 1
  BY Next1, Zenon DEF IInv, Types
<1>3. Types'
  BY <1>1, <1>2, Zenon DEF IInv, Types, Creating
<1>4. Taken'
  BY <1>1, <1>2, Zenon DEF IInv, Taken
<1>5. /\ myOid'[p] = oid + 1 /\ oid + 1 \notin DOMAIN catalog
      /\ \A q \in Proc \ {p} : pc'[q] \in Storing =>
            pc[q] \in Storing /\ myOid'[q] = myOid[q] /\ myOid[q] \in 1..oid
  BY <1>1, <1>2, Zenon DEF IInv, Types, Taken, Reserved
<1>6. Reserved'
  <2>1. ASSUME NEW q \in Proc, pc'[q] \in Storing
        PROVE  myOid'[q] \in 1..oid' /\ myOid'[q] \notin DOMAIN catalog'
    <3>1. CASE q = p
      BY <1>1, <1>2, <1>5, <3>1, Zenon
    <3>2. CASE q # p
      BY <1>1, <1>2, <1>5, <2>1, <3>2, Zenon DEF IInv, Reserved
    <3> QED
      BY <3>1, <3>2, Zenon
  <2>2. ASSUME NEW q \in Proc, NEW r \in Proc, q # r, pc'[q] \in Storing, pc'[r] \in Storing
        PROVE  myOid'[q] # myOid'[r]
    <3>1. CASE q = p \/ r = p
      BY <1>2, <1>5, <2>2, <3>1, Zenon
    <3>2. CASE q # p /\ r # p
      BY <1>5, <2>2, <3>2, Zenon DEF IInv, Reserved
    <3> QED
      BY <3>1, <3>2, Zenon
  <2> QED
    BY <2>1, <2>2, Zenon DEF Reserved
<1>7. TableFirst'
  <2>1. \A q \in Proc : pc'[q] \in InColumns => pc[q] \in InColumns
    BY <1>1, Zenon DEF IInv, Types, InColumns
  <2> QED
    BY <1>1, <2>1, Zenon DEF IInv, TableFirst, HasClass
<1>8. RowsApart'
  BY <1>1, Zenon DEF IInv, RowsApart
<1> QED
  BY <1>3, <1>4, <1>6, <1>7, <1>8, Zenon DEF IInv

-----------------------------------------------------------------------------
\* A row under a new oid leaves the others where they are.
LEMMA SetRowAdds ==
    ASSUME NEW o, o \notin DOMAIN catalog, NEW row, SetRow(o, row)
    PROVE  /\ DOMAIN catalog' = DOMAIN catalog \cup {o}
           /\ catalog'[o] = <<row>>
           /\ \A n \in DOMAIN catalog : catalog'[n] = catalog[n]
BY Zenon DEF SetRow

\* A sequence of one element.
LEMMA Single ==
    ASSUME NEW e
    PROVE  Len(<<e>>) = 1 /\ <<e>>[1] = e
OBVIOUS

\* The oid a process stores under is then no longer reserved; others stay.
LEMMA StoreKeeps ==
    ASSUME IInv, NEW p \in Proc, pc[p] \in Storing, NEW row, SetRow(myOid[p], row),
           oid' = oid, myOid' = myOid, relOid' \in [Proc -> Nat], table' = table,
           NEW l \in Creating \cup {"idle"}, l \notin Storing, pc' = [pc EXCEPT ![p] = l]
    PROVE  /\ Types' /\ Taken' /\ Reserved'
           /\ \A t, o : HasClass(catalog, t, o) => HasClass(catalog', t, o)
<1>1. myOid[p] \in 1..oid /\ myOid[p] \notin DOMAIN catalog
  BY Zenon DEF IInv, Reserved
<1>2. /\ DOMAIN catalog' = DOMAIN catalog \cup {myOid[p]}
      /\ \A n \in DOMAIN catalog : catalog'[n] = catalog[n]
  BY <1>1, SetRowAdds, Zenon
<1>3. Types'
  BY Zenon DEF IInv, Types
<1>4. Taken'
  BY <1>1, <1>2, Zenon DEF IInv, Taken
<1>5. \A q \in Proc : pc'[q] \in Storing => q # p /\ pc[q] \in Storing
  BY Zenon DEF IInv, Types
<1>6. Reserved'
  BY <1>2, <1>5, ZenonT(60) DEF IInv, Reserved
<1>7. \A t, o : HasClass(catalog, t, o) => HasClass(catalog', t, o)
  BY <1>2, Zenon DEF HasClass
<1> QED
  BY <1>3, <1>4, <1>6, <1>7, Zenon

\* A new row that leads to the row of its table keeps the rows apart.
LEMMA RowsApartKept ==
    ASSUME IInv, NEW p \in Proc, pc[p] \in Storing, NEW row, SetRow(myOid[p], row),
           HasClass(catalog', row.table, row.of),
           \A t, o : HasClass(catalog, t, o) => HasClass(catalog', t, o)
    PROVE  RowsApart'
<1>1. myOid[p] \notin DOMAIN catalog
  BY Zenon DEF IInv, Reserved
<1>2. /\ DOMAIN catalog' = DOMAIN catalog \cup {myOid[p]}
      /\ catalog'[myOid[p]] = <<row>>
      /\ \A n \in DOMAIN catalog : catalog'[n] = catalog[n]
  BY <1>1, SetRowAdds, Zenon
<1> SUFFICES ASSUME NEW o \in DOMAIN catalog'
             PROVE  /\ Len(catalog'[o]) = 1
                    /\ HasClass(catalog', catalog'[o][1].table, catalog'[o][1].of)
  BY Zenon DEF RowsApart, HasClass
<1>3. CASE o = myOid[p]
  <2>1. Len(<<row>>) = 1 /\ <<row>>[1] = row
    BY Single, Zenon
  <2> QED
    BY <1>2, <1>3, <2>1, Zenon
<1>4. CASE o # myOid[p]
  <2>1. o \in DOMAIN catalog /\ catalog'[o] = catalog[o]
    BY <1>2, <1>4, Zenon
  <2>2. Len(catalog[o]) = 1 /\ HasClass(catalog, catalog[o][1].table, catalog[o][1].of)
    BY <2>1, Zenon DEF IInv, RowsApart, HasClass
  <2> QED
    BY <2>1, <2>2, Zenon
<1> QED
  BY <1>3, <1>4, Zenon

\* The row of pg_class leads to itself.
LEMMA StoreRowKeeps ==
    ASSUME IInv, NEW p \in Proc, StoreRow(p)
    PROVE  IInv'
<1> DEFINE row == ClassRow(table[p], myOid[p])
<1>1. /\ pc[p] = "row" /\ pc[p] \in Storing /\ SetRow(myOid[p], row)
      /\ relOid' = [relOid EXCEPT ![p] = myOid[p]]
      /\ pc' = [pc EXCEPT ![p] = "attoid"]
      /\ oid' = oid /\ myOid' = myOid /\ table' = table
  BY Zenon DEF StoreRow, Goto, Storing
<1>2. "attoid" \in Creating \cup {"idle"} /\ "attoid" \notin Storing /\ relOid' \in [Proc -> Nat]
  BY <1>1, Zenon DEF Creating, Storing, IInv, Types
<1>3. /\ Types' /\ Taken' /\ Reserved'
      /\ \A t, o : HasClass(catalog, t, o) => HasClass(catalog', t, o)
  BY <1>1, <1>2, StoreKeeps, ZenonT(60)
<1>4. HasClass(catalog', table[p], myOid[p])
  <2>1. myOid[p] \notin DOMAIN catalog
    BY <1>1, Zenon DEF IInv, Reserved
  <2>2. myOid[p] \in DOMAIN catalog' /\ catalog'[myOid[p]] = <<row>>
    BY <1>1, <2>1, SetRowAdds, Zenon
  <2> QED
    BY <1>1, <2>2, Zenon DEF HasClass
<1>5. row.table = table[p] /\ row.of = myOid[p]
  BY DEF ClassRow
<1>6. RowsApart'
  <2>1. HasClass(catalog', row.table, row.of)
    <3> HIDE DEF row
    <3> QED
      BY <1>1, <1>4, <1>5, Zenon DEF HasClass
  <2> QED
    BY <1>1, <1>3, <2>1, RowsApartKept, Zenon
<1>7. TableFirst'
  <2>1. ASSUME NEW q \in Proc, pc'[q] \in InColumns PROVE HasClass(catalog', table'[q], relOid'[q])
    <3>1. CASE q = p
      <4>1. relOid'[p] = myOid[p] /\ table'[p] = table[p] /\ myOid'[p] = myOid[p]
        BY <1>1, Zenon DEF IInv, Types
      <4> QED
        BY <1>4, <3>1, <4>1, Zenon DEF HasClass
    <3>2. CASE q # p
      <4>1. pc[q] \in InColumns /\ relOid'[q] = relOid[q] /\ table'[q] = table[q]
        BY <1>1, <2>1, <3>2, Zenon DEF IInv, Types
      <4>2. HasClass(catalog, table[q], relOid[q])
        BY <4>1, Zenon DEF IInv, TableFirst
      <4> QED
        BY <1>3, <4>1, <4>2, Zenon DEF HasClass
    <3> QED
      BY <3>1, <3>2, Zenon
  <2> QED
    BY <2>1, Zenon DEF TableFirst
<1> QED
  BY <1>3, <1>6, <1>7, Zenon DEF IInv

\* A row of pg_attribute leads to the row stored before.
LEMMA StoreColumnKeeps ==
    ASSUME IInv, NEW p \in Proc, StoreColumn(p)
    PROVE  IInv'
<1> DEFINE row == AttributeRow(table[p], relOid[p], pos[p])
           l == IF pos[p] < Len(def[p].columns) THEN "attoid" ELSE "idle"
<1>1. /\ pc[p] = "attrow" /\ pc[p] \in Storing /\ SetRow(myOid[p], row)
      /\ pc' = [pc EXCEPT ![p] = l]
      /\ oid' = oid /\ myOid' = myOid /\ relOid' = relOid /\ table' = table
  BY Zenon DEF StoreColumn, Goto, Storing, oids
<1>2. l \in Creating \cup {"idle"} /\ l \notin Storing /\ relOid' \in [Proc -> Nat]
  BY <1>1, Zenon DEF Creating, Storing, IInv, Types
<1>3. /\ Types' /\ Taken' /\ Reserved'
      /\ \A t, o : HasClass(catalog, t, o) => HasClass(catalog', t, o)
  <2> HIDE DEF l, row
  <2> QED
    BY <1>1, <1>2, StoreKeeps, ZenonT(60)
<1>4. HasClass(catalog, table[p], relOid[p])
  BY <1>1, Zenon DEF IInv, TableFirst, InColumns
<1>5. row.table = table[p] /\ row.of = relOid[p]
  BY DEF AttributeRow
<1>6. RowsApart'
  <2> HIDE DEF row
  <2>1. HasClass(catalog', row.table, row.of)
    BY <1>3, <1>4, <1>5, Zenon
  <2> QED
    BY <1>1, <1>3, <2>1, RowsApartKept, Zenon
<1>7. TableFirst'
  <2>1. ASSUME NEW q \in Proc, pc'[q] \in InColumns PROVE HasClass(catalog', table'[q], relOid'[q])
    <3>1. pc[q] \in InColumns
      BY <1>1, <2>1, Zenon DEF IInv, Types, InColumns
    <3>2. HasClass(catalog, table[q], relOid[q])
      BY <3>1, Zenon DEF IInv, TableFirst
    <3> QED
      BY <1>1, <1>3, <3>2, Zenon DEF HasClass
  <2> QED
    BY <2>1, Zenon DEF TableFirst
<1> QED
  BY <1>3, <1>6, <1>7, Zenon DEF IInv

-----------------------------------------------------------------------------
\* The rows that store_table_in_pg_class stores for any CREATE TABLE statements
\* are under oids of their own, and each row of pg_attribute has the oid of the
\* row of its table.
THEOREM RowsNeverReplaced == Spec => []RowsApart
<1>1. Init => IInv
  <2> SUFFICES ASSUME Init PROVE IInv
    BY Zenon
  <2>1. Types
    BY SMTT(60) DEF Init, Types
  <2>2. DOMAIN catalog = {}
    BY DEF Init
  <2>3. Taken /\ RowsApart
    BY <2>2, Zenon DEF Taken, RowsApart
  <2>4. Reserved /\ TableFirst
    BY Zenon DEF Init, Reserved, TableFirst, Storing, InColumns
  <2> QED
    BY <2>1, <2>3, <2>4, Zenon DEF IInv
<1>2. IInv /\ [Next]_vars => IInv'
  <2> SUFFICES ASSUME IInv, [Next]_vars PROVE IInv'
    BY Zenon
  <2>1. CASE UNCHANGED vars
    BY <2>1, Zenon DEF vars, store, locals, oids, IInv, Types, Taken, Reserved, TableFirst,
       HasClass, RowsApart
  <2>2. CASE Next
    BY <2>2, OtherActions, OtherKeeps, DropTableKeeps, NewOidKeeps, StoreRowKeeps,
       StoreColumnKeeps, ZenonT(60) DEF Next, Create
  <2> QED
    BY <2>1, <2>2, Zenon
<1>3. IInv => RowsApart
  BY Zenon DEF IInv
<1> QED
  BY <1>1, <1>2, <1>3, PTL DEF Spec
=============================================================================
