CONSTANTS
    a = a
    b = b
    s1 = s1
    s2 = s2
    s3 = s3
    NoSock = NoSock
    Edges = {a, b}
    Sockets = {s1, s2, s3}
    Home <- MCHome
    Traffic <- MCOneWay
    IdleAge = 1
    QueryAge = 1
    ExpireAge = 2
    Reuse = FALSE
    Outages = {}
    Losses = FALSE
    Duplicates = FALSE
    Prompt = TRUE
    Timed = TRUE
    MaxMoves = 1
    MaxNet = 0
SPECIFICATION FairSpec
PROPERTY DirectAgain
