\* nThreads 0 and 2; the process can hold the idle fd and two connections.
CONSTANTS
    MaxThreads = 2
    NThreads <- MCNThreads
    MaxFds = 3
    MaxPeers = 3
SPECIFICATION Spec
\* A server waits in epoll_wait for the next peer once all are served.
CHECK_DEADLOCK FALSE
INVARIANT TypeOK
INVARIANT NoAssertionFails
INVARIANT EpollMirrorsChannels
PROPERTY ChannelOutlivesDispatch
PROPERTY AcceptProgress
PROPERTY ConnectionReleased
