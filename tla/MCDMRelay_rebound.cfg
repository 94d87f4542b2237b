SPECIFICATION Spec
CONSTANTS
    a = a
    h = h
    m1 = m1
    m2 = m2
    m3 = m3
    s = s
    pepper1 = pepper1
    pepper2 = pepper2
    Nodes <- TwoNodes
    Home = h
    PollNodes = {h}
    Senders = {s}
    Sender <- OneSender
    Pepper <- OwnPepper
    TTL = 2
    EpochTicks = 2
    IdleTicks = 4
    Msgs = {m1, m2}
    Origin <- AllFromA
    SharedMsgs = {}
    Scoped = {m1, m2}
    Fleet <- NoFleet
    RequestLimit = 2
    SharedLimit = 2
    SenderLimit = 1
    BatchLimit = 1
    MaxLosses = 1
    MaxCrashes = 0
PROPERTIES
    PollFindsAll
CHECK_DEADLOCK FALSE
