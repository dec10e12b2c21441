CONSTANTS
    a = a
    b = b
    s1 = s1
    s2 = s2
    s3 = s3
    NoSock = NoSock
    Edges = {a, b}
    Sockets = {s1, s2, s3}
    Home <- MCHome
    Traffic <- MCOneWay
    IdleAge = 1
    QueryAge = 1
    ExpireAge = 2
    Reuse = TRUE
    Outages = {a}
    Losses = TRUE
    Duplicates = TRUE
    Prompt = FALSE
    Timed = TRUE
    MaxMoves = 2
    MaxNet = 1
SPECIFICATION Spec
INVARIANTS TypeOK OneEntryPerSocket OneEntryPerPeer DirectOnlyWhereAnswered
