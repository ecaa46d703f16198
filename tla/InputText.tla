------------------------------ MODULE InputText ------------------------------
(***************************************************************************)
(* How parse_line (parse_line.c), the lexer and the grammar take one       *)
(* statement from input_buffer_combined.                                   *)
(*                                                                         *)
(* A text is a sequence of elements: blanks, semicolons and statements.  A *)
(* statement is two elements, its head, which names its kind, and Rest:    *)
(* what is left when its first character is lost is not a statement.       *)
(* Indices count from 1: Len(t) + 1 is the terminating NUL.                *)
(***************************************************************************)
EXTENDS Naturals, Sequences, FiniteSetsExt

Blank == " "
Semicolon == ";"
Rest == "-"

\* Statements the grammar accepts: a SELECT with and without rows, SET, SHOW,
\* CREATE or DROP TABLE, BEGIN or COMMIT, and a SELECT whose plan is rejected.
Accepted == {"rows", "norows", "set", "show", "ddl", "begin", "reject"}

\* Statements that fail: not SQL ("bad"); names an unknown column or mixes types
\* ("unqualified"); the data changes that are not implemented.
Failing == {"bad", "unqualified", "delete", "insert", "update"}

Kind == Accepted \cup Failing
Element == Kind \cup {Blank, Semicolon, Rest}

\* A sequence of elements is a text: each head is followed by its Rest, there is no
\* other Rest, and a semicolon separates statements.
IsText(t) ==
    /\ t \in Seq(Element)
    /\ \A k \in 1..Len(t) :
           /\ t[k] \in Kind => k < Len(t) /\ t[k + 1] = Rest
           /\ t[k] = Rest => k > 1 /\ t[k - 1] \in Kind
           /\ \A j \in 1..(k - 1) :
                  t[j] \in Kind /\ t[k] \in Kind => \E i \in j..k : t[i] = Semicolon

\* What parse_line returns: an accepted statement, no_data_STATEMENT, or NULL
\* after logging ERR_PARSING_COMMAND ("error"), that and a warning of the grammar
\* ("refused"), or nothing ("silent").
Result == Accepted \cup {"no_data", "error", "refused", "silent"}

\* The first position from i on with one of the elements, or that of the NUL.
NextPosition(t, i, elements) ==
    Min({k \in i..Len(t) : t[k] \in elements} \cup {Len(t) + 1})

NextSemicolon(t, i) == NextPosition(t, i, {Semicolon})

\* The result of yyparse from position i, and the last element it consumed.
\* The rule "error semicolon_or_eof" skips to the next semicolon.  An
\* unqualified query raises YYERROR when its own semicolon is already consumed,
\* so the skip goes to the one after it.  DELETE aborts with its semicolon as the
\* look-ahead token, INSERT before it is read.  UPDATE is accepted with a NULL statement.
Yyparse(t, i) ==
    LET first == NextPosition(t, i, Element \ {Blank})
        semicolon == NextSemicolon(t, first)
        head == IF first > Len(t) THEN Semicolon ELSE t[first]
    IN  CASE head = Semicolon -> [result |-> "no_data", last |-> first]
          [] head \in Accepted -> [result |-> head, last |-> semicolon]
          [] head = "unqualified" ->
                 [result |-> "error", last |-> NextSemicolon(t, semicolon + 1)]
          [] head = "delete" -> [result |-> "refused", last |-> semicolon]
          [] head = "insert" -> [result |-> "refused", last |-> first + 1]
          [] head = "update" -> [result |-> "silent", last |-> semicolon]
          [] OTHER -> [result |-> "error", last |-> semicolon]

\* get_input returns nothing once eof_hit is set.
GetInput(t, i, eof_hit) == IF eof_hit THEN SubSeq(t, 1, i - 1) ELSE t

\* The lexer (never-interactive) has read one element past the last it returned;
\* parse_line steps back over it, but not on its error return.  Reading the NUL
\* sets eof_hit, and so does the grammar on an empty statement.
ParseLine(t, i, eof_hit) ==
    LET p == Yyparse(GetInput(t, i, eof_hit), i)
        read == Min({p.last + 2, Len(t) + 1})
    IN  [result |-> p.result,
         index |-> IF p.result \in {"error", "refused"} \/ read = 1 THEN read ELSE read - 1,
         eof |-> eof_hit \/ p.last >= Len(t) \/ p.result = "no_data"]

-----------------------------------------------------------------------------
(* What a reader of the text would expect.                                 *)

\* Which statement of the text begins at k: the first, the second ...
Place(t, k) == Cardinality({j \in 1..k : t[j] \in Kind})

\* Every semicolon ends a statement.
NoEmptyStatement(t) ==
    \A k \in 1..Len(t) : t[k] = Semicolon => k > 1 /\ t[k - 1] = Rest
=============================================================================
