----------------------------- MODULE MCConnector -----------------------------
(* The user thread's call sequences of the runs.                          *)
EXTENDS Connector

RetryConnect == <<"enableRetry", "connect">>
ConnectStop == <<"connect", "stop">>
RetryConnectStop == <<"enableRetry", "connect", "stop">>
ConnectStopConnect == <<"connect", "stop", "connect">>

\* A client with retry enabled that is never stopped, or one without retry
\* that is stopped.
RetryOrStop == {RetryConnect, ConnectStop}
RetryConnectStopOnly == {RetryConnectStop}
ConnectStopConnectOnly == {ConnectStopConnect}
=============================================================================
