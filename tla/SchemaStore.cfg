SPECIFICATION AllSpec
CONSTANTS
    NUL = NUL  Literal = Literal  KeywordStatement = KeywordStatement
    ColumnStatement = ColumnStatement  TableStatement = TableStatement
    ValueStatement = ValueStatement
    a = a  b = b  Source = Source  Delim = Delim  PrimaryKey = PrimaryKey
    Integer = Integer  Varchar = Varchar
    p1 = p1  p2 = p2  t1 = t1
    Proc = {p1, p2}
    Table = {t1}
    Def <- Definitions
    NoDef = NoDef
    NoPart = NoPart
    MAX_STR_CONST = 35
    MaxParts = 4
    Settings <- QuietOrNot
    MaxDdl = 2
    MaxCrash = 1
    CommandLines <- SomeCommandLines
    Files <- SomeFiles
    Environments <- SomeEnvironments
    Defaults <- ConfDefaults
SYMMETRY Processes
INVARIANTS RowsApart Precedence
PROPERTIES FoundAsCreated
CHECK_DEADLOCK FALSE
