---------------------------- MODULE MCKeyPlan ----------------------------
EXTENDS KeyPlan

\* Three tables with one key and one other column.
OneKey == [u \in 1..3 |-> <<"k">>]
Row(k, x) == [k |-> k, x |-> x]
ThreeContents ==
    [u \in 1..3 |-> IF u = 2 THEN {{Row(1, 1), Row(2, 1)}, {Row(1, 2), Row(2, 1)}, {Row(2, 2)}}
                    ELSE {{Row(1, 2), Row(2, 2)}, {Row(1, 1)}}]
AnyTwo(cols) == {<<a, b>> \in cols \X cols : a # b}
ThreeConditions ==
    AnyTwo({Column(u, c) : u \in 1..3, c \in {"k", "x"}})
    \cup {<<Column(2, "x"), Literal(1)>>, <<Literal(2), Column(1, "x")>>, <<Column(3, "k"), Literal(1)>>}

\* A table with two keys after one with one key, inside a query on a third.
TwoKeys == [u \in 1..3 |-> IF u = 2 THEN <<"k", "l">> ELSE <<"k">>]
Wide(k, l, x) == [k |-> k, l |-> l, x |-> x]
KeyedContents ==
    [u \in 1..3 |-> IF u = 2 THEN {{Wide(1, 1, 2), Wide(1, 2, 1), Wide(2, 1, 1)}, {Wide(1, 2, 2), Wide(2, 2, 1)}}
                    ELSE {{Wide(1, 2, 1), Wide(2, 1, 2)}, {Wide(1, 1, 2)}}]
KeyedColumns == {Column(u, c) : u \in 1..2, c \in {"k", "l", "x"}} \cup {Column(3, "l"), Column(3, "x")}
BothKeys == {Column(2, "k"), Column(2, "l")}
KeyedConditions ==
    {p \in AnyTwo(KeyedColumns) : {p[1], p[2]} # BothKeys}
    \cup {<<Column(2, "x"), Literal(1)>>, <<Literal(2), Column(2, "l")>>}

TwoQueries ==
    [tables |-> [from |-> <<1, 2, 3>>, outer |-> {}, keys |-> OneKey,
                 contents |-> ThreeContents, conditions |-> ThreeConditions],
     inside |-> [from |-> <<1, 2>>, outer |-> {3}, keys |-> TwoKeys,
                 contents |-> KeyedContents, conditions |-> KeyedConditions]]
=============================================================================
