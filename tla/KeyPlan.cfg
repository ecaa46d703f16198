SPECIFICATION Spec
CONSTANTS
    None = None
    Queries <- TwoQueries
    MaxConditions = 2
INVARIANTS
    JoinRows
    RightSequence
    KeysComplete
CHECK_DEADLOCK FALSE
