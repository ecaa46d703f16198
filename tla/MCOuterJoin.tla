---------------------------- MODULE MCOuterJoin ----------------------------
(* Instances of OuterJoin, and with it of SetPlan.  Results have up to     *)
(* three rows with two values, so that a value may occur more often on     *)
(* either side; tables up to three rows whose join column has two values,  *)
(* so that a row may match twice, once or not at all.                      *)
EXTENDS OuterJoin

ThreeRows == UNION {[1..n -> 1..2] : n \in 0..3}
SomeRows == {<<1, 1>>, <<2, 1>>, <<2>>, <<>>}
FewRows == {<<1, 1>>, <<2, 1>>, <<2>>}
MixedRows == {<<3, 1, 3, 2>>, <<2, 1>>, <<1, 1, 1>>, <<2>>, <<>>}

Plain == [distinct |-> FALSE, order |-> FALSE, limit |-> NoLimit, fixed |-> FALSE]

Contents(n) == UNION {{[i \in 1..m |-> [k |-> i, x |-> f[i], y |-> 1]] : f \in [1..m -> 1..2]} : m \in 0..n}

WithKeys == {<<<<1, "k">>, <<1, "x">>, <<2, "k">>, <<2, "x">>>>, <<<<2, "k">>, <<1, "k">>>>}

WithoutKeys == {<<<<1, "y">>, <<2, "x">>>>, <<<<1, "x">>, <<2, "x">>>>}

Nothing == [tables |-> {}, options |-> {Plain}, operations |-> {}, nested |-> FALSE,
            derived |-> {}, selects |-> 0, joins |-> {}]

\* One set operation; chains of them; parenthesised unions; a SELECT with options
\* and a SELECT from it; outer joins with the keys of both tables in the list.
Statements ==
    [single |-> [Nothing EXCEPT !.tables = ThreeRows, !.selects = 2,
                 !.operations = {"union", "union_all", "except", "except_all", "intersect"}],
     chain |-> [Nothing EXCEPT !.tables = FewRows, !.selects = 4, !.operations = DOMAIN SetOf],
     unions |-> [Nothing EXCEPT !.tables = SomeRows, !.selects = 3, !.nested = TRUE,
                 !.operations = {"union"}, !.options = {Plain, [Plain EXCEPT !.distinct = TRUE]}],
     limit |-> [Nothing EXCEPT !.tables = MixedRows, !.selects = 2, !.derived = {FALSE},
                !.options = [distinct : BOOLEAN, order : BOOLEAN, limit : {NoLimit, 0, 1, 2, 3},
                            fixed : BOOLEAN]],
     outer |-> [Nothing EXCEPT
                !.joins = [type : {"left", "right", "full"}, l : Contents(3), r : Contents(2),
                           list : WithKeys, where : {"none", "left is 1", "right is 1"}]]]

\* Left joins without the keys in the list.
LeftJoins ==
    [outer |-> [Nothing EXCEPT
                !.joins = [type : {"left"}, l : Contents(2), r : Contents(2),
                           list : WithoutKeys, where : {"none"}]]]
=============================================================================
