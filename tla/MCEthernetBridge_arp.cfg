CONSTANTS
    g = g
    a = a
    h = h
    m1 = m1
    m2 = m2
    NoAddr = NoAddr
    NullMac = NullMac
    Hosts = {g, a, h}
    HalfZero = {h}
    Gateway = g
    Macs = {m1, m2}
    Slots = 2
    MaxAge = 2
    Wrap = 5
SPECIFICATION Spec
INVARIANTS TypeOK NewestClaimUsed OldEntriesFlushed
PROPERTIES YoungEntriesKept OutsideToGateway
