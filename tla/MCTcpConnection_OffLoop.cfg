\* Another thread sends, shuts down and force-closes; user code on the loop
\* sends.  The state_ race of off-loop shutdown()/forceClose() breaks
\* ConnectionLifecycle (run tcpconnection_shutdown_race); what is checked
\* here is what still holds.
CONSTANTS
    u1 = u1
    loop = loop
    Users <- MCUsers
    LoopThread <- loop
    OffLoopOps = {"send", "shutdown", "forceClose"}
    LoopOps = {"send"}
    MaxSends = 2
    MaxCloseCalls = 1
    MsgLen = 2
    SockCap = 1
    MaxPeerData = 1
    SameLoop = FALSE
    HighWaterMark = 2
    HighWaterCb = FALSE
    WriteCompleteCb = FALSE
    OwnerDestroys = TRUE
SPECIFICATION Spec
INVARIANT ShutdownAfterDrain
PROPERTY ShutdownCompletes
