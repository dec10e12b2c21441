CONSTANTS
    a = a
    b = b
    Nil = Nil
    Sns = {a, b}
    IpMode = "static"
    Configured <- MCTwo
    Payloads <- MCNoPayload
    Loads = {0, 1}
    SupAttempts = 1
    RegisterInterval = 2
    SweepTime = 2
    CloseSocketMax = 2
    Peers = 0
    Reboots = {a}
    Naks = FALSE
    Losses = FALSE
    Duplicates = FALSE
    ResolveFails = FALSE
    MaxNet = 1
SPECIFICATION FairSpec
INVARIANT BackupsKept
PROPERTY EventuallyRegistered
