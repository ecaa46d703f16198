SPECIFICATION FairSpec
CONSTANTS
    c1 = c1  c2 = c2  zone = zone
    Client = {c1, c2}
    Param = {zone}
    Defaults = {zone}
    Scripts <- SomeScripts
    SslMode = "tls"
    FdLimit = 2
INVARIANTS OnlyAuthenticated SessionsApart OwnVariables
PROPERTIES Reaped Accepted
CHECK_DEADLOCK FALSE
