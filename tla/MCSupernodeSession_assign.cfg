CONSTANTS
    a = a
    b = b
    Nil = Nil
    Sns = {a, b}
    IpMode = "assign"
    Configured <- MCTwo
    Payloads <- MCPayload
    Loads = {0}
    SupAttempts = 1
    RegisterInterval = 1
    SweepTime = 1
    CloseSocketMax = 1
    Peers = 0
    Reboots = {}
    Naks = TRUE
    Losses = TRUE
    Duplicates = TRUE
    ResolveFails = TRUE
    MaxNet = 2
SPECIFICATION Spec
INVARIANTS TypeOK LastSupIsReal RegisteredWithCurrent
PROPERTY FailOverJustified
CHECK_DEADLOCK FALSE
