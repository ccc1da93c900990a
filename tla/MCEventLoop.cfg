CONSTANTS
    t1 = t1
    t2 = t2
    loop = loop
    Threads <- MCThreads
    LoopThread <- loop
    MaxPosts = 2
    MaxLoopTasks = 2
    MaxIoEvents = 2

SPECIFICATION Spec

INVARIANT TypeOK
INVARIANT NoLostWakeup

PROPERTY QuitTerminatesLoop
PROPERTY TaskQueueSpec
