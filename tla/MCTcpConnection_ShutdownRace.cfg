\* Another thread calls shutdown() while the peer closes the connection.
CONSTANTS
    u1 = u1
    loop = loop
    Users <- MCUsers
    LoopThread <- loop
    OffLoopOps = {"shutdown"}
    LoopOps = {}
    MaxSends = 2
    MaxCloseCalls = 1
    MsgLen = 2
    SockCap = 1
    MaxPeerData = 1
    SameLoop = TRUE
    HighWaterMark = 2
    HighWaterCb = FALSE
    WriteCompleteCb = FALSE
    OwnerDestroys = FALSE
SPECIFICATION Spec
INVARIANT ConnectionLifecycle
