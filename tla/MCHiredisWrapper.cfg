\* Each demo client against a server that answers, publishes up to four
\* messages (sub disconnects on the third message on test1) and may close
\* the connection at any point.  The process may end idle in epoll_wait,
\* so a state with nothing left to do is not an error.
CONSTANTS
    Clients <- DemoClients
    ConnectMayFail = FALSE
    ServerMayClose = TRUE
    MaxMessages = 4
SPECIFICATION Spec
CHECK_DEADLOCK FALSE
INVARIANT TypeOK
INVARIANT NoAssertionFails
PROPERTY ChannelOutlivesDispatch
PROPERTY DisconnectCompletes
