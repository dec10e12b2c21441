CONSTANTS
    a = a
    b = b
    Nil = Nil
    Sns = {a, b}
    IpMode = "assign"
    Configured <- MCTwo
    Payloads <- MCNoPayload
    Loads = {0, 1}
    SupAttempts = 1
    RegisterInterval = 2
    SweepTime = 2
    CloseSocketMax = 2
    Peers = 1
    Reboots = {}
    Naks = FALSE
    Losses = TRUE
    Duplicates = FALSE
    ResolveFails = FALSE
    MaxNet = 3
SPECIFICATION Spec
INVARIANT BackupsKept
