CONSTANTS
    Edges = {e1, e2}
    Fds <- MCFds
    IpModes = {"static"}
    Failures = {}
    MaxQueue = 1
SPECIFICATION FairSpec
CHECK_DEADLOCK FALSE
PROPERTIES
    StopServed
