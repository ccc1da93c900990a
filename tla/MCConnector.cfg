\* connect() with retry enabled (refusals up to the 30 s cap, reconnects), or
\* connect() then stop() without retry.
CONSTANTS
    Scripts <- RetryOrStop
    InitRetryDelay = 500
    MaxRetryDelay = 30000
    MaxRefusals = 7
    MaxCloses = 2
SPECIFICATION Spec
INVARIANT TypeOK
INVARIANT NoAssertionFails
INVARIANT RetryBackoff
INVARIANT StopIsFinal
