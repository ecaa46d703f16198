SPECIFICATION FairSpec
CONSTANTS
    Text <- SessionTexts
    Name = {"n"}
    Limit = {1}
    NumRows = 2
    LogLevel = "ERROR"
    MaxMessages = 2
    None = None
INVARIANT RunsInOrder
INVARIANT FailuresReported
PROPERTY ReadyComes
PROPERTY SessionEnds
CHECK_DEADLOCK FALSE
