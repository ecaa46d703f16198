----------------------------- MODULE QueryHash -----------------------------
(***************************************************************************)
(* The name of a statement's plan file: what hash_canonical_query ingests, *)
(* integers and texts, in its order.  No text has a zero byte and all of   *)
(* the integers do, so the bytes tell what these sequences tell.           *)
(***************************************************************************)
EXTENDS DataTypes

Code(n) == <<ToString(n)>>
Chars(text) == <<"'" \o text>>

\* SqlStatementType.
Table_ == Code(0)
Select_ == Code(1)
Value_ == Code(4)
FunctionCall_ == Code(5)
Binary_ == Code(6)
ColumnList_ == Code(8)
Column_ == Code(9)
Join_ == Code(10)
ColumnListAlias_ == Code(15)
ColumnAlias_ == Code(16)
TableAlias_ == Code(17)
Cas_ == Code(22)
CasBranch_ == Code(23)

ValueType == [unknown |-> 0, number |-> 1, string |-> 2, reference |-> 4, calculated |-> 5,
              table |-> 6, function |-> 7, boolean |-> 8, nul |-> 10]
DataType == [string |-> 1, number |-> 2]
JoinType == [none |-> 0, cross |-> 2, inner |-> 3, right |-> 4, left |-> 5]
Operation(op) ==
    CASE op = "+" -> 0 [] op = "||" -> 4 [] op = "=" -> 8 [] op = "<" -> 10 [] op = "in" -> 16
Keyword == [none |-> 0, limit |-> 12, distinct |-> 13]

HashValue(type, text) == Value_ \o Code(ValueType[type]) \o Code(0) \o Chars(text)
\* The alias of a query that has no name is a NUL_VALUE.
HashName(name) ==
    IF name = "" THEN Value_ \o Code(ValueType["nul"]) \o Code(0) ELSE HashValue("reference", name)

RECURSIVE HashAlias(_, _), HashSelect(_, _), HashColumnList(_, _, _), HashStatement(_, _), HashOf(_, _)
\* A table, or the SELECT that a derived table is.
HashTable(p, id) ==
    IF IsQuery(p.heap, id) THEN HashSelect(p, id) ELSE Table_ \o HashName(p.heap[id].table)

\* column_STATEMENT: all columns of the circular list, from the k-th on.
HashColumns(p, id, k) ==
    LET names == Names(p.heap, id)
        type(i) == IF IsQuery(p.heap, id) THEN "number" ELSE Schema[p.heap[id].table][i].type
        One(i) == Column_ \o HashName(names[i]) \o Code(DataType[type(i)])
                  \o HashTable(p, id) \o Code(Keyword["none"])
    IN FlattenSeq([n \in DOMAIN names |-> One(Around(Len(names), k)[n])])

\* column_list_alias_STATEMENT: likewise, and with each its value, its name and
\* the type it has been given.
HashColumnList(p, id, k) ==
    LET names == Names(p.heap, id)
        types == TypesInList(p.heap, id)
        value(i) == IF IsQuery(p.heap, id) THEN HashStatement(p, p.heap[id].items[i].expr)
                    ELSE ColumnAlias_ \o HashColumns(p, id, i)
        One(i) == ColumnListAlias_ \o ColumnList_ \o value(i) \o HashName(names[i])
                  \o Code(ValueType[IF id \in p.typed THEN types[i] ELSE Unknown])
    IN FlattenSeq([n \in DOMAIN names |-> One(Around(Len(names), k)[n])])

\* The table alias of a column is not hashed.
HashOf(p, v) ==
    CASE v.op = "literal" -> HashValue(v.type, v.text)
      [] v.op = "ref" -> HashName(v.table \o "." \o v.name)
      [] v.op = "query" -> HashAlias(p, v.alias)
      [] v.op = "alias" -> ColumnAlias_ \o HashColumnList(p, v.alias, v.column)
      [] v.op = "star" -> ColumnAlias_ \o HashColumns(p, v.alias, v.column)

HashArgs(p, e, from, to) ==
    FlattenSeq([i \in 1..(to - from + 1) |-> HashOf(p, e.args[from + i - 1])])

HashCase(p, e) ==
    Cas_ \o HashArgs(p, e, 1, 1) \o CasBranch_ \o HashArgs(p, e, 2, 3)
    \o HashArgs(p, e, 4, Len(e.args))

\* A call is a calculated value; its parameters are a list of values.
HashCall(p, e) ==
    Value_ \o Code(ValueType["calculated"]) \o Code(0)
    \o FunctionCall_ \o HashValue("function", "f")
    \o FlattenSeq([i \in DOMAIN e.args |-> ColumnList_ \o HashArgs(p, e, i, i)])

HashBinary(p, e) == Binary_ \o Code(Operation(e.op)) \o HashArgs(p, e, 1, 2)

HashStatement(p, e) ==
    CASE e.op = "none" -> <<>>
      [] e.op = "value" -> HashArgs(p, e, 1, 1)
      [] e.op = "case" -> HashCase(p, e)
      [] e.op = "call" -> HashCall(p, e)
      [] OTHER -> HashBinary(p, e)

\* Mutant: without the condition.
HashJoinOnly(p, j) == Join_ \o Code(JoinType[j.type]) \o HashAlias(p, j.alias)

HashJoin(p, j) ==
    Join_ \o Code(JoinType[j.type]) \o HashAlias(p, j.alias) \o HashStatement(p, j.on)

\* The list that ORDER BY makes has no name; there is no type for a keyword.
HashOrder(p, e) ==
    IF e = NoExpr THEN <<>>
    ELSE ColumnListAlias_ \o ColumnList_ \o HashStatement(p, e) \o HashName("")
         \o Code(ValueType[TypeOfExpr(p.heap, e)])

HashWords(words) ==
    FlattenSeq([i \in DOMAIN words |->
        Code(Keyword[words[i].keyword])
        \o (IF words[i].value = "" THEN <<>> ELSE HashValue("number", words[i].value))])

HashSelect(p, id) ==
    LET q == p.heap[id] IN
    Select_ \o HashColumnList(p, id, 1) \o FlattenSeq([i \in DOMAIN q.from |-> HashJoin(p, q.from[i])])
    \o HashStatement(p, q.where) \o HashOrder(p, q.order) \o HashWords(q.words)

HashAlias(p, id) ==
    TableAlias_ \o HashTable(p, id) \o HashName(p.heap[id].name) \o Code(id - 1) \o HashColumnList(p, id, 1)

HashCanonicalQuery(heap) == HashAlias([heap |-> heap, typed |-> Typed(heap)], Len(heap))

\* generate_routine_name: the 128 bits are taken to stand for what was ingested.
GenerateRoutineName(heap) == <<"%ydboctoP">> \o HashCanonicalQuery(heap)
=============================================================================
