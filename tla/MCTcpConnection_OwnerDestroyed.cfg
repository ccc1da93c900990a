\* The owner (a TcpServer without I/O threads) is destroyed while user code
\* on the loop has shut the connection down and the peer has not closed yet.
CONSTANTS
    u1 = u1
    loop = loop
    Users <- MCUsers
    LoopThread <- loop
    OffLoopOps = {}
    LoopOps = {"shutdown"}
    MaxSends = 2
    MaxCloseCalls = 1
    MsgLen = 2
    SockCap = 1
    MaxPeerData = 1
    SameLoop = TRUE
    HighWaterMark = 2
    HighWaterCb = FALSE
    WriteCompleteCb = FALSE
    OwnerDestroys = TRUE
SPECIFICATION Spec
INVARIANT ConnectionLifecycle
