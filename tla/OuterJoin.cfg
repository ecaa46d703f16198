SPECIFICATION OuterSpec
CONSTANTS
    Grammars <- Statements
    NoQuery = NoQuery
INVARIANTS
    RowsRight
    IndexKnows
    
    OuterJoinRows
CHECK_DEADLOCK FALSE
