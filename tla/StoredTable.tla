---------------------------- MODULE StoredTable ----------------------------
(***************************************************************************)
(* The form in which a table definition is stored: CREATE TABLE flattens   *)
(* the structure into one buffer of cells (compress_statement.c) and cuts  *)
(* it into parts; find_table follows the pointers of the buffer it has put *)
(* together again (decompress_statement.c).  A pointer is stored as the    *)
(* distance from its own cell to its target (A2R, R2A of octo_types.h) and *)
(* 0 is NULL.  The module SchemaStore stores and loads the parts.          *)
(***************************************************************************)
EXTENDS Integers, Sequences, SequencesExt

CONSTANTS
    NUL, Literal, KeywordStatement, ColumnStatement, TableStatement, ValueStatement,
    MAX_STR_CONST  \* cells in a part

ASSUME StoredTableAssumption == MAX_STR_CONST \in Nat \ {0}

\* Names and literals are sequences of characters; a keyword without a value has
\* NoStatement, the NULL pointer.
NoStatement == <<>>

-----------------------------------------------------------------------------
(* compress_statement_helper.  Each operator gives the cells that are      *)
(* written; what a structure points to follows it.                         *)

\* Mutant: the terminator is not written.
ValueUnterminated(v) == <<ValueStatement, 1, Literal, 1>> \o v

Value(v) == <<ValueStatement, 1, Literal, 1>> \o v \o <<NUL>>

\* next, keyword, v
Keyword(k, last) ==
    LET v == IF k.v = NoStatement THEN <<>> ELSE Value(k.v) IN
    <<IF last THEN 0 ELSE 3 + Len(v), k.keyword, IF v = <<>> THEN 0 ELSE 1>> \o v

Keywords(ks) ==
    <<KeywordStatement, 1>> \o FlattenSeq([i \in DOMAIN ks |-> Keyword(ks[i], i = Len(ks))])

\* next, columnName, keywords, type
Column(c, last) ==
    LET n == Value(c.name)
        k == Keywords(c.keywords) IN
    <<IF last THEN 0 ELSE 4 + Len(n) + Len(k), 3, 2 + Len(n), c.type>> \o n \o k

Columns(cs) ==
    <<ColumnStatement, 1>> \o FlattenSeq([i \in DOMAIN cs |-> Column(cs[i], i = Len(cs))])

\* tableName, source, columns, delim
CompressStatement(t) ==
    LET n == Value(t.name)
        s == Keywords(t.source)
        c == Columns(t.columns)
        d == Keywords(t.delim) IN
    <<TableStatement, 1, 4, 3 + Len(n), 2 + Len(n) + Len(s), 1 + Len(n) + Len(s) + Len(c)>>
        \o n \o s \o c \o d

-----------------------------------------------------------------------------
(* decompress_statement_helper, and what is then found behind the pointers *)
(* of the buffer h.                                                        *)

R2A(h, i) == i + h[i]

\* A statement's structure, through its v.
Struct(h, i) == R2A(h, i + 1)

StringAt(h, i) ==
    LET end == CHOOSE j \in i..Len(h) : h[j] = NUL /\ \A k \in i..(j - 1) : h[k] # NUL
    IN SubSeq(h, i, end - 1)

ValueAt(h, i) == StringAt(h, R2A(h, Struct(h, i) + 1))

\* The addresses of a list, from the one at i to the one whose next is 0, which
\* becomes the head.
ListFrom(h, i) ==
    LET from[j \in Nat] == <<j>> \o (IF h[j] = 0 THEN <<>> ELSE from[R2A(h, j)])
    IN from[i]

KeywordsAt(h, i) ==
    LET at == ListFrom(h, Struct(h, i)) IN
    [j \in DOMAIN at |->
        [keyword |-> h[at[j] + 1],
         v |-> IF h[at[j] + 2] = 0 THEN NoStatement ELSE ValueAt(h, R2A(h, at[j] + 2))]]

ColumnsAt(h, i) ==
    LET at == ListFrom(h, Struct(h, i)) IN
    [j \in DOMAIN at |->
        [name |-> ValueAt(h, R2A(h, at[j] + 1)),
         keywords |-> KeywordsAt(h, R2A(h, at[j] + 2)),
         type |-> h[at[j] + 3]]]

DecompressStatement(h) ==
    LET t == Struct(h, 1) IN
    [name |-> ValueAt(h, R2A(h, t)),
     source |-> KeywordsAt(h, R2A(h, t + 1)),
     columns |-> ColumnsAt(h, R2A(h, t + 2)),
     delim |-> KeywordsAt(h, R2A(h, t + 3))]

-----------------------------------------------------------------------------
(* The nodes of ^%ydboctoschema(table,"b",...).                            *)

CeilingDiv(a, b) == (a + b - 1) \div b
Smaller(a, b) == IF a < b THEN a ELSE b

\* The parts of a buffer.
Split(b) ==
    [i \in 1..CeilingDiv(Len(b), MAX_STR_CONST) |->
        SubSeq(b, (i - 1) * MAX_STR_CONST + 1, Smaller(i * MAX_STR_CONST, Len(b)))]

\* What follows a part in find_table's buffer: the next part begins at the next
\* multiple of MAX_STR_CONST.
Padded(b) == b \o [j \in 1..(MAX_STR_CONST - Len(b)) |-> NUL]
=============================================================================
