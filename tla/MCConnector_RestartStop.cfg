\* connect() then stop() with retry enabled, while the connection closes.
CONSTANTS
    Scripts <- RetryConnectStopOnly
    InitRetryDelay = 500
    MaxRetryDelay = 30000
    MaxRefusals = 1
    MaxCloses = 1
SPECIFICATION Spec
INVARIANT StopIsFinal
