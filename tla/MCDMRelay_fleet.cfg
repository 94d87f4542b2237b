SPECIFICATION Spec
CONSTANTS
    a = a
    h = h
    m1 = m1
    m2 = m2
    m3 = m3
    s = s
    pepper1 = pepper1
    pepper2 = pepper2
    Nodes <- TwoNodes
    Home = h
    PollNodes = {h}
    Senders = {s}
    Sender <- OneSender
    Pepper <- OwnPepper
    TTL = 2
    EpochTicks = 2
    IdleTicks = 3
    Msgs = {m1, m2, m3}
    Origin <- OneAtHome
    SharedMsgs = {m3}
    Scoped = {m1}
    Fleet <- ToHome
    RequestLimit = 2
    SharedLimit = 1
    SenderLimit = 2
    BatchLimit = 1
    MaxLosses = 1
    MaxCrashes = 1
INVARIANTS
    DeliveredIsKept
    HandedOutOnce
    BlockedStaysOut
CHECK_DEADLOCK FALSE
