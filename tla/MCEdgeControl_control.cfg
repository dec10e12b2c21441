CONSTANTS
    Edges = {e1, e2}
    Fds <- MCFds
    IpModes = {"static", "assign"}
    Failures = {"thread", "conf", "socket"}
    MaxQueue = 1
SPECIFICATION FairSpec
CHECK_DEADLOCK FALSE
INVARIANTS
    TypeOK
    OneEdgeAtATime
    ButtonUsable
    FirstSessionReadsPipe
    ButtonAgreesWithEdges
PROPERTIES
    StopServedUnlessPipeClosed
    LaunchAnswered
