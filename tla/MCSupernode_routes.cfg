CONSTANTS
    e = e
    f = f
    s1 = s1
    s2 = s2
    NoSn = NoSn
    NoAddr = NoAddr
    Edges = {e, f}
    Sns = {s1, s2}
    Listed = {s1}
    Uses <- MCUses
    Hosts = {1, 2}
    ExpireAge = 1
    AssocAge = 2
    Moves <- MCMoves
    MaxNet = 1
SPECIFICATION FairSpec
INVARIANTS OwnersOnly AddressesDiffer
PROPERTIES RouteRepaired
