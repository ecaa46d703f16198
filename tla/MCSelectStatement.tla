-------------------------- MODULE MCSelectStatement --------------------------
(* Statements on two tables that share the column y.                       *)
EXTENDS SelectStatement

TwoTables ==
    [t |-> <<[name |-> "x", type |-> "number"], [name |-> "y", type |-> "string"]>>,
     u |-> <<[name |-> "y", type |-> "string"], [name |-> "z", type |-> "number"]>>]

Item(e, as) == [expr |-> e, as |-> as]
Only(v) == Expr("value", <<v>>)
Named(name) == Item(Only(Ref("", name)), "")
Of(table, name) == Item(Only(Ref(table, name)), "")
As(table, name) == [table |-> table, name |-> name]
One == Literal("number", "1")
Text_ == Literal("string", "s")

Equal(v, w) == Expr("=", <<v, w>>)
Nothing == [lists |-> {}, tables |-> {}, joins |-> 1, ons |-> {NoExpr}, wheres |-> {}, uses |-> {},
            orders |-> {NoExpr}, words |-> {NoWords}, names |-> {""}]

\* Names that are known inside, outside, in both or nowhere, in every clause.
Outside ==
    [Nothing EXCEPT !.lists = {<<Named("x")>>, <<Of("a", "y")>>, <<Item(Only(Ref("", "x")), "zz")>>, Star},
                    !.tables = {As("t", "a"), As("u", "b")}, !.joins = 2,
                    !.ons = {NoExpr, Equal(Ref("a", "y"), Ref("b", "y")), Equal(Ref("", "z"), Ref("", "x"))},
                    !.wheres = {Equal(Ref("b", "w"), One)},
                    !.orders = {NoExpr, Only(Ref("", "z")), Only(Ref("", "zz"))}]
Inside ==
    [Nothing EXCEPT !.lists = {<<Named("z")>>, <<Of("a", "x")>>, Star},
                    !.tables = {As("u", "b"), As("u", "a")},
                    !.wheres = {Equal(Ref("a", "x"), Ref("", "z")), Equal(Ref("", "y"), Text_)}]

\* A subquery after IN; a derived table; a subquery in a subquery.
After == <<[Outside EXCEPT !.uses = {Only(Ref("", "x"))}], Inside>>
Derived == <<[Outside EXCEPT !.uses = {NoExpr}, !.orders = {NoExpr, Only(Ref("", "z"))},
                             !.ons = {NoExpr, Equal(Ref("", "z"), Ref("", "x"))}],
             [Inside EXCEPT !.names = {"d", "a"}]>>
Nested ==
    LET q(tables, lists, uses) ==
            [Nothing EXCEPT !.tables = tables, !.lists = lists, !.uses = uses,
                            !.wheres = {Equal(Ref("", "x"), Ref("b", "z")), Equal(Ref("a", "y"), Ref("", "y"))}]
    IN <<q({As("t", "a")}, {<<Named("x")>>}, {Only(Ref("", "x"))}),
         q({As("u", "b"), As("t", "b")}, {<<Named("x")>>}, {NoExpr, Only(Ref("", "x"))}),
         q({As("u", "a"), As("u", "c")}, {<<Named("z")>>, <<Named("x")>>}, {})>>

\* Statements that differ in one place.
Hashed ==
    [Nothing EXCEPT
        !.lists = {<<Named("x"), Named("y")>>, <<Of("a", "y"), Of("b", "y")>>, <<Of("b", "y"), Of("a", "y")>>,
                   <<Of("b", "y")>>, <<Item(Expr("case", <<Ref("", "x"), One, Ref("a", "y"), Text_>>), "")>>,
                   <<Item(Expr("call", <<Ref("", "x")>>), "")>>, <<Item(Expr("+", <<Ref("", "x"), One>>), "n")>>,
                   <<Item(Expr("||", <<Ref("a", "y"), Text_>>), "n")>>, Star},
        !.tables = {As("t", "a"), As("u", "b"), As("t", "b")},
        !.joins = 2,
        !.ons = {NoExpr, Equal(Ref("a", "y"), Ref("b", "y")), Expr("<", <<Ref("a", "y"), Ref("b", "y")>>)},
        !.wheres = {Equal(Ref("a", "x"), One), Equal(Ref("b", "y"), Text_)},
        !.orders = {NoExpr, Only(Ref("a", "x")), Only(Ref("a", "y"))},
        !.words = {NoWords, <<[keyword |-> "distinct", value |-> ""]>>}]

SomeGrammars == [after |-> After, derived |-> Derived, nested |-> Nested, hashed |-> <<Hashed>>]
=============================================================================
