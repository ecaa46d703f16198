SPECIFICATION AllSpec
CONSTANTS
    Predicates <- AllPredicates
    BoolColumns = {"b"}
    ColumnForms <- AllForms
    Cases <- WithElse
    StringColumns = {"s"}
    Rows <- AllRows
    MaxLeaves = 3
    MaxNots = 2
    Schema <- TwoTables
    Grammars <- SomeGrammars
INVARIANTS
    SameRows
    PlansWellFormed
    NamesResolved
    SameFileSameQuery
CHECK_DEADLOCK FALSE
