------------------------------ MODULE Connector ------------------------------
(***************************************************************************)
(* The Connector of a TcpClient (src/src/connector.cpp) on its loop,      *)
(* driven by the TcpClient (src/src/tcp_client.cpp): a user thread calls  *)
(* TcpClient::connect() and stop(), the loop runs the connector's queued   *)
(* functors, its retry timers and the events of the connecting socket,    *)
(* and TcpClient::removeConnection() restarts the connector when the      *)
(* connection it delivered closes.                                         *)
(*                                                                         *)
(* The loop's functors are FIFO; a functor queued by the loop itself runs *)
(* in the same iteration, before the next poll, so no timer or socket     *)
(* event happens while one is pending.  Timers are counted, not ordered:  *)
(* every retry timer runs the same startInLoop().  The kernel decides how *)
(* a connect ends.  A failed assert is recorded in `failed` and the code   *)
(* goes on as an NDEBUG build would.                                       *)
(***************************************************************************)
EXTENDS Naturals, Sequences

CONSTANTS
    Scripts,         \* the user thread's possible call sequences
    InitRetryDelay,  \* Connector::kInitRetryDelay, ms
    MaxRetryDelay,   \* Connector::kMaxRetryDelay, ms
    MaxRefusals,     \* connect attempts the kernel refuses
    MaxCloses        \* delivered connections that close

UserCalls == {"enableRetry", "connect", "stop"}
ASSUME Scripts \subseteq Seq(UserCalls)
ASSUME 0 < InitRetryDelay /\ InitRetryDelay <= MaxRetryDelay

States == {"DISCONNECTED", "CONNECTING", "CONNECTED"}
TaskKinds == {"start", "stop", "reset"}
Asserts == {"startInLoop", "connecting", "handleWrite", "~Channel"}

VARIABLES
    state_,          \* Connector::state_
    connect_,        \* Connector::connect_
    retryDelay_,     \* Connector::retryDelay_
    channel_,        \* Connector::channel_ is set
    chanAdded,       \* that channel is registered with the epoller
    socks,           \* sockets the connector has open
    pending,         \* the loop's queued functors: [kind, fromLoop]
    retryTimers,     \* retry timers not yet fired
    clientConnect,   \* TcpClient::connect_
    conn,            \* TcpClient::conn_ is set
    loopPc,          \* "idle", or "restart" inside removeConnection()
    calls,           \* the script the user thread runs
    retry_,          \* TcpClient::retry_
    userCall,        \* index in calls of the user's current call
    userStep,        \* statement of that call the user is at
    refusals,        \* connects the kernel has refused so far
    closes,          \* delivered connections closed so far
    failures,        \* retries scheduled since the last restart()
    stopped,         \* the user's stop() returned, no connect() since
    attemptAfterStop,\* a socket was created while `stopped`
    failed           \* asserts that failed

vars == <<state_, connect_, retryDelay_, channel_, chanAdded, socks, pending,
          retryTimers, clientConnect, conn, loopPc, calls, retry_, userCall,
          userStep, refusals, closes, failures, stopped, attemptAfterStop, failed>>

Min2(a, b) == IF a < b THEN a ELSE b
Task(k, fromLoop) == [kind |-> k, fromLoop |-> fromLoop]

(* No functor queued by the loop is waiting: the loop may poll.           *)
CanPoll ==
    /\ loopPc = "idle"
    /\ \A i \in DOMAIN pending : ~pending[i].fromLoop

-----------------------------------------------------------------------------
(* Mutant: retry() forgets to close the socket.                          *)
RetryLeakingSocket(c, timers, open) ==
    /\ socks' = open
    /\ state_' = "DISCONNECTED"
    /\ IF c
       THEN /\ retryTimers' = timers + 1
            /\ retryDelay_' = Min2(retryDelay_ * 2, MaxRetryDelay)
            /\ failures' = failures + 1
       ELSE /\ retryTimers' = timers
            /\ UNCHANGED <<retryDelay_, failures>>

(* Connector::retry() with connect_ read as c, `timers` retry timers and  *)
(* `open` sockets: close the socket, DISCONNECTED, and while connect_     *)
(* schedule startInLoop() after retryDelay_, doubling it up to the cap.   *)
Retry(c, timers, open) ==
    /\ socks' = open - 1
    /\ state_' = "DISCONNECTED"
    /\ IF c
       THEN /\ retryTimers' = timers + 1
            /\ retryDelay_' = Min2(retryDelay_ * 2, MaxRetryDelay)
            /\ failures' = failures + 1
       ELSE /\ retryTimers' = timers
            /\ UNCHANGED <<retryDelay_, failures>>

(* Connector::connecting(): CONNECTING, a new Channel for the socket      *)
(* replaces channel_ (assert(!channel_)) and starts writing.  A replaced *)
(* Channel is destroyed (~Channel asserts it is not registered).  f0 are  *)
(* the asserts failed before.                                             *)
Connecting(f0) ==
    /\ state_' = "CONNECTING"
    /\ channel_' = TRUE
    /\ chanAdded' = TRUE
    /\ failed' = f0 \cup (IF channel_ THEN {"connecting"} ELSE {})
                    \cup (IF channel_ /\ chanAdded THEN {"~Channel"} ELSE {})

(* Connector::connect(): a new socket, and the kernel answers: in        *)
(* progress (connecting()), refused (retry()), or a fatal error (close,   *)
(* give up).  f0 are the asserts failed so far.                           *)
Connect(f0, timers) ==
    /\ attemptAfterStop' = (attemptAfterStop \/ stopped)
    /\ \/ /\ Connecting(f0)
          /\ socks' = socks + 1
          /\ retryTimers' = timers
          /\ UNCHANGED <<retryDelay_, failures, refusals>>
       \/ /\ refusals < MaxRefusals
          /\ refusals' = refusals + 1
          /\ failed' = f0
          /\ Retry(connect_, timers, socks + 1)
          /\ UNCHANGED <<channel_, chanAdded>>
       \/ /\ failed' = f0
          /\ retryTimers' = timers
          /\ UNCHANGED <<state_, channel_, chanAdded, socks, retryDelay_,
                         failures, refusals>>

(* startInLoop()'s assert(state_ == DISCONNECTED).                         *)
StartAssert ==
    failed \cup (IF state_ # "DISCONNECTED" THEN {"startInLoop"} ELSE {})

(* Mutant: startInLoop() connects without reading connect_.               *)
StartInLoopUnchecked(c, timers) ==
    Connect(StartAssert, timers)

(* Connector::startInLoop() with connect_ read as c: assert DISCONNECTED, *)
(* then connect() only while connect_.                                    *)
StartInLoop(c, timers) ==
    IF c
    THEN Connect(StartAssert, timers)
    ELSE /\ failed' = StartAssert
         /\ retryTimers' = timers
         /\ UNCHANGED <<state_, channel_, chanAdded, socks, retryDelay_,
                        failures, refusals, attemptAfterStop>>

(* Connector::removeAndResetChannel(): disableAll() and remove() now; the *)
(* Channel object is dropped by a queued resetChannel().                  *)
RemoveAndResetChannel(rest) ==
    /\ chanAdded' = FALSE
    /\ pending' = Append(rest, Task("reset", TRUE))

-----------------------------------------------------------------------------
(* A queued startInLoop() of Connector::start() runs.                     *)
RunStart ==
    /\ loopPc = "idle"
    /\ pending # <<>> /\ Head(pending).kind = "start"
    /\ pending' = Tail(pending)
    /\ StartInLoop(connect_, retryTimers)
    /\ UNCHANGED <<connect_, clientConnect, conn, loopPc, userCall, userStep, calls, retry_,
                   closes, stopped>>

(* A retry timer fires: startInLoop().                                    *)
RetryTimer ==
    /\ CanPoll
    /\ retryTimers > 0
    /\ StartInLoop(connect_, retryTimers - 1)
    /\ UNCHANGED <<connect_, pending, clientConnect, conn, loopPc, userCall,
                   userStep, calls, retry_, closes, stopped>>

(* A queued stopInLoop() runs: a CONNECTING attempt is abandoned through  *)
(* removeAndResetChannel() and retry().                                   *)
RunStop ==
    /\ loopPc = "idle"
    /\ pending # <<>> /\ Head(pending).kind = "stop"
    /\ IF state_ = "CONNECTING"
       THEN /\ RemoveAndResetChannel(Tail(pending))
            /\ Retry(connect_, retryTimers, socks)
       ELSE /\ pending' = Tail(pending)
            /\ UNCHANGED <<state_, chanAdded, socks, retryTimers, retryDelay_,
                           failures>>
    /\ UNCHANGED <<connect_, channel_, clientConnect, conn, loopPc, userCall,
                   userStep, calls, retry_, refusals, closes, stopped, attemptAfterStop, failed>>

(* A queued resetChannel() drops channel_, whichever Channel it now is.   *)
RunReset ==
    /\ loopPc = "idle"
    /\ pending # <<>> /\ Head(pending).kind = "reset"
    /\ pending' = Tail(pending)
    /\ channel_' = FALSE
    /\ failed' = failed \cup (IF channel_ /\ chanAdded THEN {"~Channel"} ELSE {})
    /\ UNCHANGED <<state_, connect_, retryDelay_, chanAdded, socks, retryTimers,
                   clientConnect, conn, loopPc, userCall, userStep, calls, retry_, refusals,
                   closes, failures, stopped, attemptAfterStop>>

(* The connecting socket reports an error (EPOLLERR with EPOLLOUT, e.g.   *)
(* refused): handleError() removes the channel and retries; the           *)
(* handleWrite() that follows finds DISCONNECTED.                          *)
HandleError ==
    /\ CanPoll
    /\ chanAdded /\ refusals < MaxRefusals
    /\ refusals' = refusals + 1
    /\ IF state_ = "CONNECTING"
       THEN /\ RemoveAndResetChannel(pending)
            /\ Retry(connect_, retryTimers, socks)
            /\ UNCHANGED failed
       ELSE /\ failed' = failed \cup (IF state_ # "DISCONNECTED" THEN {"handleWrite"} ELSE {})
            /\ UNCHANGED <<state_, chanAdded, socks, pending, retryTimers,
                           retryDelay_, failures>>
    /\ UNCHANGED <<connect_, channel_, clientConnect, conn, loopPc, userCall,
                   userStep, calls, retry_, closes, stopped, attemptAfterStop>>

(* The connecting socket becomes writable: handleWrite() removes the      *)
(* channel; a self-connect is retried, otherwise CONNECTED and, while     *)
(* connect_, the socket goes to TcpClient::onNewConnection(), else it is  *)
(* closed.                                                                 *)
HandleWrite ==
    /\ CanPoll
    /\ chanAdded
    /\ IF state_ = "CONNECTING"
       THEN /\ RemoveAndResetChannel(pending)
            /\ \/ /\ refusals < MaxRefusals
                  /\ refusals' = refusals + 1
                  /\ Retry(connect_, retryTimers, socks)
                  /\ UNCHANGED conn
               \/ /\ state_' = "CONNECTED"
                  /\ socks' = socks - 1
                  /\ conn' = (conn \/ connect_)
                  /\ UNCHANGED <<retryTimers, retryDelay_, failures, refusals>>
            /\ UNCHANGED failed
       ELSE /\ failed' = failed \cup (IF state_ # "DISCONNECTED" THEN {"handleWrite"} ELSE {})
            /\ UNCHANGED <<state_, chanAdded, socks, pending, retryTimers,
                           retryDelay_, failures, refusals, conn>>
    /\ UNCHANGED <<connect_, channel_, clientConnect, loopPc, userCall, userStep, calls, retry_,
                   closes, stopped, attemptAfterStop>>

-----------------------------------------------------------------------------
(* The delivered connection closes: TcpClient::removeConnection() clears  *)
(* conn_ and, if retry_ and connect_, goes on to connector_->restart().   *)
RemoveConnection ==
    /\ CanPoll
    /\ conn /\ closes < MaxCloses
    /\ conn' = FALSE
    /\ closes' = closes + 1
    /\ loopPc' = IF retry_ /\ clientConnect THEN "restart" ELSE "idle"
    /\ UNCHANGED <<state_, connect_, retryDelay_, channel_, chanAdded, socks,
                   pending, retryTimers, clientConnect, userCall, userStep, calls, retry_,
                   refusals, failures, stopped, attemptAfterStop, failed>>

(* Mutant: restart() does not set DISCONNECTED.                          *)
RestartKeepingState ==
    /\ loopPc = "restart"
    /\ loopPc' = "startInLoop"
    /\ retryDelay_' = InitRetryDelay
    /\ failures' = 0
    /\ connect_' = TRUE
    /\ UNCHANGED <<state_, channel_, chanAdded, socks, pending, retryTimers,
                   clientConnect, conn, userCall, userStep, calls, retry_, refusals, closes,
                   stopped, attemptAfterStop, failed>>

(* Mutant: restart() does not reset the retry delay.                      *)
RestartKeepingDelay ==
    /\ loopPc = "restart"
    /\ loopPc' = "startInLoop"
    /\ state_' = "DISCONNECTED"
    /\ failures' = 0
    /\ connect_' = TRUE
    /\ UNCHANGED <<retryDelay_, channel_, chanAdded, socks, pending, retryTimers,
                   clientConnect, conn, userCall, userStep, calls, retry_, refusals, closes,
                   stopped, attemptAfterStop, failed>>

(* Connector::restart(), its stores: DISCONNECTED, the initial delay,    *)
(* connect_ = true; then its startInLoop().                                *)
Restart ==
    /\ loopPc = "restart"
    /\ loopPc' = "startInLoop"
    /\ state_' = "DISCONNECTED"
    /\ retryDelay_' = InitRetryDelay
    /\ failures' = 0
    /\ connect_' = TRUE
    /\ UNCHANGED <<channel_, chanAdded, socks, pending, retryTimers,
                   clientConnect, conn, userCall, userStep, calls, retry_, refusals, closes,
                   stopped, attemptAfterStop, failed>>

RestartStartInLoop ==
    /\ loopPc = "startInLoop"
    /\ loopPc' = "idle"
    /\ StartInLoop(connect_, retryTimers)
    /\ UNCHANGED <<connect_, pending, clientConnect, conn, userCall, userStep, calls, retry_,
                   closes, stopped>>

-----------------------------------------------------------------------------
(* The user thread's calls, one statement at a time.  TcpClient::connect():*)
(* connect_ = true, Connector::start(): connect_ = true, runInLoop(start- *)
(* InLoop).  TcpClient::stop(): connect_ = false, Connector::stop():      *)
(* connect_ = false, queueInLoop(stopInLoop).  enableRetry(): retry_ =   *)
(* true.                                                                   *)
UserConnectOrStop(on) ==
    /\ CASE userStep = 1 -> /\ clientConnect' = on
                            /\ stopped' = (stopped /\ ~on)
                            /\ UNCHANGED <<connect_, pending>>
         [] userStep = 2 -> /\ connect_' = on
                            /\ UNCHANGED <<clientConnect, pending, stopped>>
         [] userStep = 3 -> /\ pending' = Append(pending,
                                   Task(IF on THEN "start" ELSE "stop", FALSE))
                            /\ stopped' = ~on
                            /\ UNCHANGED <<clientConnect, connect_>>
    /\ IF userStep = 3
       THEN userCall' = userCall + 1 /\ userStep' = 1
       ELSE userStep' = userStep + 1 /\ UNCHANGED userCall

UserStep ==
    /\ userCall <= Len(calls)
    /\ \/ /\ calls[userCall] = "enableRetry"
          /\ retry_' = TRUE
          /\ userCall' = userCall + 1
          /\ UNCHANGED <<userStep, clientConnect, connect_, pending, stopped>>
       \/ /\ calls[userCall] \in {"connect", "stop"}
          /\ UNCHANGED retry_
          /\ UserConnectOrStop(calls[userCall] = "connect")
    /\ UNCHANGED <<state_, retryDelay_, channel_, chanAdded, socks, retryTimers,
                   conn, loopPc, refusals, closes, failures, attemptAfterStop,
                   failed, calls>>

(* All calls made, nothing queued, no timer, no socket in progress.       *)
Finished ==
    /\ userCall > Len(calls)
    /\ pending = <<>> /\ retryTimers = 0 /\ ~chanAdded /\ loopPc = "idle"
    /\ UNCHANGED vars

-----------------------------------------------------------------------------
Init ==
    /\ state_ = "DISCONNECTED"
    /\ connect_ = FALSE
    /\ retryDelay_ = InitRetryDelay
    /\ channel_ = FALSE
    /\ chanAdded = FALSE
    /\ socks = 0
    /\ pending = <<>>
    /\ retryTimers = 0
    /\ clientConnect = TRUE
    /\ conn = FALSE
    /\ loopPc = "idle"
    /\ calls \in Scripts
    /\ retry_ = FALSE
    /\ userCall = 1
    /\ userStep = 1
    /\ refusals = 0
    /\ closes = 0
    /\ failures = 0
    /\ stopped = FALSE
    /\ attemptAfterStop = FALSE
    /\ failed = {}

Next ==
    \/ RunStart \/ RetryTimer \/ RunStop \/ RunReset
    \/ HandleError \/ HandleWrite
    \/ RemoveConnection \/ Restart \/ RestartStartInLoop
    \/ UserStep
    \/ Finished

Spec == Init /\ [][Next]_vars

-----------------------------------------------------------------------------
TypeOK ==
    /\ state_ \in States
    /\ connect_ \in BOOLEAN /\ clientConnect \in BOOLEAN
    /\ retryDelay_ \in InitRetryDelay..MaxRetryDelay
    /\ channel_ \in BOOLEAN /\ chanAdded \in BOOLEAN
    /\ socks \in 0..1
    /\ \A i \in DOMAIN pending : pending[i].kind \in TaskKinds
    /\ retryTimers \in Nat
    /\ conn \in BOOLEAN
    /\ loopPc \in {"idle", "restart", "startInLoop"}
    /\ calls \in Scripts /\ retry_ \in BOOLEAN
    /\ userCall \in 1..(Len(calls) + 1) /\ userStep \in 1..3
    /\ refusals \in 0..MaxRefusals /\ closes \in 0..MaxCloses
    /\ failures \in Nat
    /\ stopped \in BOOLEAN /\ attemptAfterStop \in BOOLEAN
    /\ failed \subseteq Asserts

(* None of the Connector's asserts fails, nor ~Channel's: startInLoop()  *)
(* runs only when DISCONNECTED, connecting() only once the previous       *)
(* channel is reset, handleWrite() sees CONNECTING or DISCONNECTED, and    *)
(* resetChannel() never drops a Channel that is still registered.          *)
NoAssertionFails ==
    failed = {}

(* TcpClient::stop() is final: once it has returned, and until the next    *)
(* connect(), the connector creates no socket (so it delivers no           *)
(* connection), whatever retry timers, queued functors and reconnects are  *)
(* in flight.                                                              *)
StopIsFinal ==
    ~attemptAfterStop

(* Back-off: after k retries since the last restart() (or the start), the *)
(* next retry waits min(kInitRetryDelay * 2^k, kMaxRetryDelay).            *)
RetryBackoff ==
    retryDelay_ = Min2(InitRetryDelay * 2^failures, MaxRetryDelay)

=============================================================================
