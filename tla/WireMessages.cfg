SPECIFICATION AllSpec
CONSTANTS
    Bytes = {0, 1, 255}
    MaxLen <- Lengths
    Items = {1}
    Fields <- MessageFields
    Null = Null
    Messages <- ServerSends
    MaxMessages = 2
    ParameterLists <- Bindings
    Numbers = {0, 1, 10}
    Characters = {48, 65}
    MaxPieces = 3
INVARIANTS Understood WellFormed Delivered BoundAsSent
CHECK_DEADLOCK FALSE
