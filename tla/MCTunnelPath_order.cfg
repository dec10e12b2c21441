CONSTANTS
    MaxMessages = 5
    MaxQuits = 1
    Fails = TRUE
    Packets <- MCPackets
    MaxPackets = 5
    Size <- MCSizes
    Spelled <- MCSpelled
    Misread = 2
    Capacity = 8
    Atomic = 3
    EdgeEnds = TRUE
SPECIFICATION PathSpec
INVARIANTS PathTypeOK FramingKept FramesInOrder
PROPERTIES MailboxSpec MainReturns ReaderReturns PathIsMailbox NewestArrives NewestRead
CHECK_DEADLOCK FALSE
