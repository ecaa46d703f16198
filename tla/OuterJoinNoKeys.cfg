SPECIFICATION OuterSpec
CONSTANTS
    Grammars <- LeftJoins
    NoQuery = NoQuery
INVARIANT LeftRowsReturned
CHECK_DEADLOCK FALSE
