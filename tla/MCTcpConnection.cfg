\* Other threads only send(); user code on the loop sends, shuts down and
\* force-closes.
CONSTANTS
    u1 = u1
    loop = loop
    Users <- MCUsers
    LoopThread <- loop
    OffLoopOps = {"send"}
    LoopOps = {"send", "shutdown", "forceClose"}
    MaxSends = 2
    MaxCloseCalls = 2
    MsgLen = 2
    SockCap = 1
    MaxPeerData = 1
    SameLoop = TRUE
    HighWaterMark = 2
    HighWaterCb = TRUE
    WriteCompleteCb = TRUE
    OwnerDestroys = FALSE
SPECIFICATION Spec
INVARIANT TypeOK
INVARIANT DeliveredInOrder
INVARIANT ShutdownAfterDrain
INVARIANT ConnectionLifecycle
PROPERTY ShutdownCompletes
INVARIANT NoAssertionFails
PROPERTY BackpressureReleased
