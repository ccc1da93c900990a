---------------------------- MODULE TcpConnection ----------------------------
(***************************************************************************)
(* One TcpConnection (src/src/tcp_connection.cpp) on its I/O loop, with    *)
(* the peer and the kernel socket around it, and the owner (TcpServer)     *)
(* that removes it from its map when it closes.                            *)
(*                                                                         *)
(* The loop thread runs, one at a time, the channel's read and write       *)
(* handlers (when epoll reports the fd ready) and the functors queued to   *)
(* it (FIFO, see EventLoop).  User code runs on the loop from callbacks    *)
(* and functors and may call send(), shutdown() and forceClose() there;   *)
(* other threads call them too, and those calls read and write state_     *)
(* without the loop's knowledge.  The data of a send() is a message of    *)
(* MsgLen bytes; a byte is the message it belongs to, so a partial write  *)
(* leaves a torn message behind in the kernel's send buffer.              *)
(***************************************************************************)
EXTENDS Naturals, Sequences, SequencesExt

CONSTANTS
    Users,        \* threads other than the I/O loop that hold the connection
    LoopThread,   \* the I/O loop's thread
    OffLoopOps,   \* which of "send", "shutdown", "forceClose" Users call
    LoopOps,      \* which of them user code on the loop thread calls
    MaxSends,     \* send() calls per caller
    MaxCloseCalls,\* shutdown()/forceClose() calls per caller
    MsgLen,       \* bytes per message
    SockCap,      \* kernel socket send buffer size, in bytes
    MaxPeerData,  \* times the peer sends data
    SameLoop,     \* the owner's loop is the I/O loop (TcpServer without threads)
    OwnerDestroys,\* the owner (TcpServer) may be destroyed
    HighWaterMark,\* highWaterMark_, in bytes
    HighWaterCb,  \* a highWaterMarkCallback_ is set
    WriteCompleteCb \* a writeCompleteCallback_ is set

ASSUME LoopThread \notin Users
ASSUME OffLoopOps \cup LoopOps \subseteq {"send", "shutdown", "forceClose"}
ASSUME MsgLen \in Nat \ {0} /\ SockCap \in Nat \ {0}
ASSUME SameLoop \in BOOLEAN /\ OwnerDestroys \in BOOLEAN
ASSUME HighWaterMark \in Nat /\ HighWaterCb \in BOOLEAN /\ WriteCompleteCb \in BOOLEAN

Senders == Users \cup {LoopThread}
Msg == [src : Senders, n : 1..MaxSends]
NoMsg == [src |-> LoopThread, n |-> 0]
Bytes(m) == [i \in 1..MsgLen |-> m]
States == {"CONNECTING", "CONNECTED", "DISCONNECTING", "DISCONNECTED"}
TaskKinds == {"established", "send", "shutdown", "forceClose", "destroy",
              "writeComplete", "highWater"}
ChannelStates == {"NEW", "ADDED", "IGNORED"}
Asserts == {"handleClose", "removeConnectionInLoop", "removeChannel", "ownerFreed"}
UserPcs == {"idle", "send", "shutdownSet", "shutdownPush", "forceSet", "forcePush"}

VARIABLES
    state_,       \* TcpConnection::state_
    reading,      \* the channel's interest includes kReadEvent
    writing,      \* channel_->isWriting()
    chanAdded,    \* Channel::addedToLoop_
    chState,      \* Channel::state_; the fd is in the epoll set iff ADDED
    outputBuf,    \* outputBuf_ bytes
    sockBuf,      \* bytes in the kernel send buffer, not yet read by the peer
    delivered,    \* bytes the peer has read, in order
    shutWr,       \* socket_->shutdownWrite() has been done
    peerData,     \* the peer's data is waiting to be read
    peerFin,      \* the peer has closed its side (read() returns 0)
    peerSends,    \* times the peer has sent data
    pending,      \* the I/O loop's queued functors for this connection
    userPc,       \* where each user thread is inside send/shutdown/forceClose
    accepted,     \* per caller: messages send() accepted (state CONNECTED)
    closeCalls,   \* per caller: shutdown()/forceClose() calls so far
    upCalls,      \* connection callbacks reporting "up"
    downCalls,    \* connection callbacks reporting "down"
    removing,     \* closeCallback_ queued removeConnectionInLoop() to the owner
    destroyed,    \* onConnectionDestroyed() has run
    inMap,        \* the owner's connections_ holds us
    ownerAlive,   \* the owner has not been destroyed
    failed,       \* asserts that failed, and "ownerFreed": a call into a
                  \* destroyed owner
    lastPosted    \* history: the kind of the last write-complete or
                  \* high-water callback queued, "none" before any

vars == <<state_, reading, writing, chanAdded, chState, outputBuf, sockBuf,
          delivered, shutWr, peerData, peerFin, peerSends, pending, userPc,
          accepted, closeCalls, upCalls, downCalls, removing, destroyed, inMap,
          ownerAlive, failed, lastPosted>>

connVars == <<state_, reading, writing, chanAdded, chState, outputBuf>>
ownerVars == <<inMap, ownerAlive, failed>>
kernelVars == <<sockBuf, delivered, shutWr, peerData, peerFin, peerSends>>
envVars == <<userPc, accepted, closeCalls, removing, destroyed, inMap, ownerAlive, failed>>

Task(kind, m) == [kind |-> kind, msg |-> m, size |-> 0]
CbTask(kind, n) == [kind |-> kind, msg |-> NoMsg, size |-> n]
NextMsg(s) == [src |-> s, n |-> Len(accepted[s]) + 1]
Free == SockCap - Len(sockBuf)
Min2(a, b) == IF a < b THEN a ELSE b

-----------------------------------------------------------------------------
(* Channel::update(): addedToLoop_ = true, then EPoller::updateChannel() *)
(* for the new interest (rd, wr): a NEW or IGNORED channel is ADDED       *)
(* (EPOLL_CTL_ADD, whatever the interest), an ADDED one with no interest  *)
(* becomes IGNORED (EPOLL_CTL_DEL), any other change is EPOLL_CTL_MOD.    *)
UpdatedState(s, rd, wr) ==
    CASE s \in {"NEW", "IGNORED"} -> "ADDED"
      [] ~rd /\ ~wr               -> "IGNORED"
      [] OTHER                    -> s

Update(rd, wr) ==
    /\ reading' = rd /\ writing' = wr
    /\ chanAdded' = TRUE
    /\ chState' = UpdatedState(chState, rd, wr)

(* Channel::disableAll().                                                  *)
DisableAll == Update(FALSE, FALSE)

(* Channel::remove(): addedToLoop_ = false, then EPoller::removeChannel(), *)
(* which asserts the channel is ADDED or IGNORED and was in channels_     *)
(* (it is there exactly when not NEW), deletes an ADDED fd from the epoll *)
(* set and makes the channel NEW.                                         *)
RemoveFails(s) == IF s \in {"ADDED", "IGNORED"} THEN {} ELSE {"removeChannel"}

(* The owner's removeConnectionInLoop() on its loop: erase us from         *)
(* connections_ (assert n == 1) and queueInLoop(onConnectionDestroyed) on  *)
(* the I/O loop, after the functors in `rest`.                             *)
RemoveConnectionInLoop(rest, fails) ==
    /\ inMap' = FALSE
    /\ pending' = Append(rest, Task("destroy", NoMsg))
    /\ failed' = failed \cup fails \cup (IF inMap THEN {} ELSE {"removeConnectionInLoop"})

(* closeCallback_, TcpServer::removeConnection(): runInLoop() of           *)
(* removeConnectionInLoop() on the owner's loop, so at once when that is   *)
(* the I/O loop.  Both go through the owner's `this`: after the owner's    *)
(* destructor that is a use after free, recorded, with no further effect. *)
CloseCallback(rest, fails) ==
    CASE ~ownerAlive -> /\ failed' = failed \cup fails \cup {"ownerFreed"}
                       /\ pending' = rest
                       /\ UNCHANGED <<removing, inMap>>
      [] SameLoop    -> RemoveConnectionInLoop(rest, fails) /\ UNCHANGED removing
      [] OTHER       -> /\ removing' = TRUE
                       /\ pending' = rest
                       /\ failed' = failed \cup fails
                       /\ UNCHANGED inMap

(* TcpConnection::handleClose(), with `rest` the functors still queued:    *)
(* assert CONNECTED or DISCONNECTING, state_ becomes DISCONNECTED, the    *)
(* channel is disabled, the connection callback reports "down", and       *)
(* closeCallback_ asks the owner to remove the connection.                 *)
HandleClose(rest) ==
    /\ state_' = "DISCONNECTED"
    /\ DisableAll
    /\ downCalls' = downCalls + 1
    /\ CloseCallback(rest, IF state_ \in {"CONNECTED", "DISCONNECTING"}
                           THEN {} ELSE {"handleClose"})

(* Mutant: shut the write side down even while the channel is writing.  *)
ShutdownInLoopUnconditional ==
    shutWr' = TRUE

(* TcpConnection::shutdownInLoop(): shut the write side down unless the   *)
(* channel is still writing (then handleWrite() does it after draining).   *)
ShutdownInLoop ==
    shutWr' = (shutWr \/ ~writing)

(* The callbacks sendInLoop() and handleWrite() queue on the loop: the     *)
(* write-complete callback when everything handed to the socket was       *)
(* written, the high-water-mark callback when outputBuf_ grew from below  *)
(* highWaterMark_ to at least it, with outBufSize = oldLen + remaining.    *)
QueueOutputCallbacks(queue, complete, oldLen, newLen) ==
    LET hw == HighWaterCb /\ oldLen < HighWaterMark /\ newLen >= HighWaterMark
    IN  /\ pending' = queue \o (IF complete /\ WriteCompleteCb
                                THEN <<CbTask("writeComplete", 0)>> ELSE <<>>)
                           \o (IF hw THEN <<CbTask("highWater", newLen)>> ELSE <<>>)
        /\ lastPosted' = CASE hw -> "highWater"
                            [] complete /\ WriteCompleteCb -> "writeComplete"
                            [] OTHER -> lastPosted

(* Mutant: try the direct write whatever outputBuf_ holds.               *)
SendInLoopAlwaysDirect(m, queue) ==
    LET data == Bytes(m)
        nwrote == IF shutWr THEN 0 ELSE Min2(MsgLen, Free)
        rest == SubSeq(data, nwrote + 1, MsgLen)
    IN  /\ pending' = queue /\ lastPosted' = lastPosted
        /\ IF state_ = "DISCONNECTED"
           THEN UNCHANGED <<writing, chanAdded, chState, outputBuf, sockBuf>>
           ELSE /\ sockBuf' = sockBuf \o SubSeq(data, 1, nwrote)
                /\ IF ~shutWr /\ rest # <<>>
                   THEN /\ outputBuf' = outputBuf \o rest
                        /\ Update(reading, TRUE)
                   ELSE UNCHANGED <<writing, chanAdded, chState, outputBuf>>

(* Mutant: write() the whole message, as if the socket took any amount.  *)
SendInLoopIgnoringFree(m, queue) ==
    /\ pending' = queue /\ lastPosted' = lastPosted
    /\ IF state_ = "DISCONNECTED" \/ shutWr
       THEN UNCHANGED <<writing, chanAdded, chState, outputBuf, sockBuf>>
       ELSE /\ sockBuf' = sockBuf \o Bytes(m)
            /\ UNCHANGED <<writing, chanAdded, chState, outputBuf>>

(* TcpConnection::sendInLoop(): a DISCONNECTED connection drops the data. *)
(* Otherwise, with nothing queued and no write interest, write() directly; *)
(* EPIPE after shutdownWrite() is a fault and drops the data, EWOULDBLOCK *)
(* leaves all of it.  A remainder is appended to outputBuf_ and the       *)
(* channel starts writing.  The callbacks are queued on the way.          *)
SendInLoop(m, queue) ==
    LET data == Bytes(m)
        direct == ~writing /\ outputBuf = <<>>
        fault == direct /\ shutWr
        nwrote == IF direct /\ ~shutWr THEN Min2(MsgLen, Free) ELSE 0
        rest == SubSeq(data, nwrote + 1, MsgLen)
    IN  IF state_ = "DISCONNECTED"
        THEN /\ pending' = queue /\ lastPosted' = lastPosted
             /\ UNCHANGED <<writing, chanAdded, chState, outputBuf, sockBuf>>
        ELSE /\ sockBuf' = sockBuf \o SubSeq(data, 1, nwrote)
             /\ IF ~fault /\ rest # <<>>
                THEN /\ outputBuf' = outputBuf \o rest
                     /\ Update(reading, TRUE)
                     /\ QueueOutputCallbacks(queue, FALSE, Len(outputBuf),
                                              Len(outputBuf) + Len(rest))
                ELSE /\ UNCHANGED <<writing, chanAdded, chState, outputBuf>>
                     /\ QueueOutputCallbacks(queue, direct /\ nwrote = MsgLen, 0, 0)

-----------------------------------------------------------------------------
(* onConnectionEstablished(), queued by the owner after it made us.       *)
Established ==
    /\ pending # <<>>
    /\ Head(pending).kind = "established"
    /\ pending' = Tail(pending)
    /\ state_' = "CONNECTED"
    /\ Update(TRUE, writing)
    /\ upCalls' = upCalls + 1
    /\ UNCHANGED <<writing, outputBuf, kernelVars, envVars, lastPosted, downCalls>>

(* A queued sendInLoop() of another thread's send() runs.                  *)
RunSend ==
    /\ pending # <<>>
    /\ Head(pending).kind = "send"
    /\ SendInLoop(Head(pending).msg, Tail(pending))
    /\ UNCHANGED <<state_, reading, delivered, shutWr, peerData, peerFin,
                   peerSends, userPc, accepted, closeCalls, removing, destroyed,
                   ownerVars, upCalls, downCalls>>

(* A queued shutdownInLoop() runs.                                         *)
RunShutdown ==
    /\ pending # <<>>
    /\ Head(pending).kind = "shutdown"
    /\ pending' = Tail(pending)
    /\ ShutdownInLoop
    /\ UNCHANGED <<connVars, sockBuf, delivered, peerData, peerFin, peerSends,
                   envVars, lastPosted, upCalls, downCalls>>

(* Mutant: forceCloseInLoop() without its state check.                   *)
RunForceCloseUnguarded ==
    /\ pending # <<>>
    /\ Head(pending).kind = "forceClose"
    /\ HandleClose(Tail(pending))
    /\ UNCHANGED <<outputBuf, kernelVars, userPc, accepted, closeCalls, destroyed,
                   ownerAlive, lastPosted, upCalls>>

(* A queued forceCloseInLoop() runs: handleClose() unless already closed. *)
RunForceClose ==
    /\ pending # <<>>
    /\ Head(pending).kind = "forceClose"
    /\ IF state_ \in {"CONNECTED", "DISCONNECTING"}
       THEN HandleClose(Tail(pending))
       ELSE /\ pending' = Tail(pending)
            /\ UNCHANGED <<state_, reading, writing, chanAdded, chState, downCalls,
                           removing, inMap, failed>>
    /\ UNCHANGED <<outputBuf, kernelVars, userPc, accepted, closeCalls, destroyed,
                   ownerAlive, lastPosted, upCalls>>

(* TcpConnection::onConnectionDestroyed(): a still CONNECTED connection    *)
(* ("maybe force closed before") is closed and reported "down"; then the  *)
(* channel is removed from the loop.                                       *)
OnConnectionDestroyed ==
    LET closing == state_ = "CONNECTED"
    IN  /\ IF closing
           THEN /\ state_' = "DISCONNECTED"
                /\ downCalls' = downCalls + 1
           ELSE UNCHANGED <<state_, downCalls>>
        /\ reading' = (reading /\ ~closing)
        /\ writing' = (writing /\ ~closing)
        /\ chanAdded' = FALSE
        /\ chState' = "NEW"
        /\ failed' = failed \cup RemoveFails(IF closing THEN UpdatedState(chState, FALSE, FALSE)
                                                      ELSE chState)
        /\ destroyed' = TRUE

(* The functor queued by the owner runs onConnectionDestroyed().          *)
Destroy ==
    /\ pending # <<>>
    /\ Head(pending).kind = "destroy"
    /\ pending' = Tail(pending)
    /\ OnConnectionDestroyed
    /\ UNCHANGED <<outputBuf, kernelVars, userPc, accepted, closeCalls, removing,
                   upCalls, inMap, ownerAlive, lastPosted>>

(* The owner's loop runs the removeConnectionInLoop() that closeCallback_  *)
(* queued there; if the owner was destroyed meanwhile, the functor's      *)
(* `this` is dangling.                                                     *)
OwnerRemove ==
    /\ removing
    /\ removing' = FALSE
    /\ IF ownerAlive
       THEN RemoveConnectionInLoop(pending, {})
       ELSE /\ failed' = failed \cup {"ownerFreed"}
            /\ UNCHANGED <<pending, inMap>>
    /\ UNCHANGED <<connVars, kernelVars, userPc, accepted, closeCalls, destroyed,
                   ownerAlive, lastPosted, upCalls, downCalls>>

(* ~TcpServer() on the owner's loop: for each connection still in          *)
(* connections_, runInLoop(onConnectionDestroyed) on its I/O loop: at once *)
(* when that is the owner's loop, queued otherwise.                        *)
OwnerDestroy ==
    /\ OwnerDestroys /\ ownerAlive
    /\ ownerAlive' = FALSE
    /\ IF inMap /\ SameLoop
       THEN OnConnectionDestroyed /\ UNCHANGED pending
       ELSE /\ pending' = IF inMap THEN Append(pending, Task("destroy", NoMsg))
                                   ELSE pending
            /\ UNCHANGED <<state_, reading, writing, chanAdded, chState, downCalls,
                           destroyed, failed>>
    /\ UNCHANGED <<outputBuf, kernelVars, userPc, accepted, closeCalls, removing,
                   upCalls, inMap, lastPosted>>

(* handleRead() with data: readFd() drains it and the message callback     *)
(* runs (user code on the loop is LoopUser).                               *)
HandleReadData ==
    /\ chState = "ADDED" /\ reading /\ peerData
    /\ peerData' = FALSE
    /\ UNCHANGED <<connVars, sockBuf, delivered, shutWr, peerFin, peerSends,
                   pending, envVars, lastPosted, upCalls, downCalls>>

(* handleRead() reads 0 bytes: the peer closed; handleClose().             *)
HandleReadEof ==
    /\ chState = "ADDED" /\ reading /\ peerFin /\ ~peerData
    /\ HandleClose(pending)
    /\ UNCHANGED <<outputBuf, kernelVars, userPc, accepted, closeCalls,
                   destroyed, ownerAlive, lastPosted, upCalls>>

(* Mutant: handleWrite() forgets the deferred shutdownInLoop().          *)
HandleWriteNoDeferredShutdown ==
    LET n == IF shutWr THEN 0 ELSE Min2(Len(outputBuf), Free)
    IN  /\ chState = "ADDED" /\ writing /\ (Free > 0 \/ shutWr)
        /\ sockBuf' = sockBuf \o SubSeq(outputBuf, 1, n)
        /\ outputBuf' = SubSeq(outputBuf, n + 1, Len(outputBuf))
        /\ IF n > 0 /\ n = Len(outputBuf)
           THEN /\ Update(reading, FALSE)
           ELSE UNCHANGED <<writing, chanAdded, chState>>
        /\ UNCHANGED <<state_, reading, delivered, shutWr, peerData, peerFin,
                       peerSends, pending, envVars, lastPosted, upCalls, downCalls>>

(* Mutant: handleWrite() drains outputBuf_ without queuing the            *)
(* write-complete callback.                                                *)
HandleWriteNoComplete ==
    LET n == IF shutWr THEN 0 ELSE Min2(Len(outputBuf), Free)
        drained == n = Len(outputBuf)
    IN  /\ chState = "ADDED" /\ writing /\ (Free > 0 \/ shutWr)
        /\ sockBuf' = sockBuf \o SubSeq(outputBuf, 1, n)
        /\ outputBuf' = SubSeq(outputBuf, n + 1, Len(outputBuf))
        /\ IF n > 0 /\ drained
           THEN /\ Update(reading, FALSE)
                /\ shutWr' = (shutWr \/ state_ = "DISCONNECTING")
           ELSE UNCHANGED <<writing, chanAdded, chState, shutWr>>
        /\ QueueOutputCallbacks(pending, FALSE, 0, 0)
        /\ UNCHANGED <<state_, reading, delivered, peerData, peerFin, peerSends,
                       envVars, upCalls, downCalls>>

(* handleWrite(): write what the socket takes from outputBuf_; once it is *)
(* empty stop writing, queue the write-complete callback, and when         *)
(* DISCONNECTING do the deferred shutdownInLoop().  A failed write() is    *)
(* only logged.                                                            *)
HandleWrite ==
    LET n == IF shutWr THEN 0 ELSE Min2(Len(outputBuf), Free)
        drained == n = Len(outputBuf)
    IN  /\ chState = "ADDED" /\ writing /\ (Free > 0 \/ shutWr)
        /\ sockBuf' = sockBuf \o SubSeq(outputBuf, 1, n)
        /\ outputBuf' = SubSeq(outputBuf, n + 1, Len(outputBuf))
        /\ IF n > 0 /\ drained
           THEN /\ Update(reading, FALSE)
                /\ shutWr' = (shutWr \/ state_ = "DISCONNECTING")
           ELSE UNCHANGED <<writing, chanAdded, chState, shutWr>>
        /\ QueueOutputCallbacks(pending, n > 0 /\ drained, 0, 0)
        /\ UNCHANGED <<state_, reading, delivered, peerData, peerFin, peerSends,
                       envVars, upCalls, downCalls>>

(* User code on the loop thread (a callback or a functor) calls send(),   *)
(* shutdown() or forceClose(): on the loop thread send() and shutdown()   *)
(* run sendInLoop()/shutdownInLoop() at once; forceClose() queues.         *)
LoopUser ==
    /\ upCalls = 1
    /\ \/ /\ "send" \in LoopOps
          /\ Len(accepted[LoopThread]) < MaxSends
          /\ state_ = "CONNECTED"
          /\ accepted' = [accepted EXCEPT ![LoopThread] = Append(@, NextMsg(LoopThread))]
          /\ SendInLoop(NextMsg(LoopThread), pending)
          /\ UNCHANGED <<state_, reading, shutWr, closeCalls>>
       \/ /\ "shutdown" \in LoopOps
          /\ closeCalls[LoopThread] < MaxCloseCalls
          /\ state_ = "CONNECTED"
          /\ state_' = "DISCONNECTING"
          /\ ShutdownInLoop
          /\ closeCalls' = [closeCalls EXCEPT ![LoopThread] = @ + 1]
          /\ UNCHANGED <<reading, writing, chanAdded, chState, outputBuf, sockBuf,
                         pending, accepted, lastPosted>>
       \/ /\ "forceClose" \in LoopOps
          /\ closeCalls[LoopThread] < MaxCloseCalls
          /\ state_ \in {"CONNECTED", "DISCONNECTING"}
          /\ state_' = "DISCONNECTING"
          /\ pending' = Append(pending, Task("forceClose", NoMsg))
          /\ closeCalls' = [closeCalls EXCEPT ![LoopThread] = @ + 1]
          /\ UNCHANGED <<reading, writing, chanAdded, chState, outputBuf, sockBuf,
                         shutWr, accepted, lastPosted>>
    /\ UNCHANGED <<delivered, peerData, peerFin, peerSends, userPc, removing,
                   destroyed, ownerVars, upCalls, downCalls>>

-----------------------------------------------------------------------------
(* Another thread's send(): the state_ check, then runInLoop() queues a    *)
(* copy of the data.                                                       *)
UserSendCheck(u) ==
    /\ "send" \in OffLoopOps
    /\ userPc[u] = "idle"
    /\ upCalls = 1
    /\ Len(accepted[u]) < MaxSends
    /\ state_ = "CONNECTED"
    /\ accepted' = [accepted EXCEPT ![u] = Append(@, NextMsg(u))]
    /\ userPc' = [userPc EXCEPT ![u] = "send"]
    /\ UNCHANGED <<connVars, kernelVars, pending, closeCalls, removing, destroyed, ownerVars, lastPosted,
                   upCalls, downCalls>>

UserSendPush(u) ==
    /\ userPc[u] = "send"
    /\ pending' = Append(pending, Task("send", accepted[u][Len(accepted[u])]))
    /\ userPc' = [userPc EXCEPT ![u] = "idle"]
    /\ UNCHANGED <<connVars, kernelVars, accepted, closeCalls, removing, destroyed, ownerVars, lastPosted,
                   upCalls, downCalls>>

(* Another thread's shutdown(): check CONNECTED, set DISCONNECTING, queue  *)
(* shutdownInLoop(); three steps the loop may interleave with.             *)
UserShutdownCheck(u) ==
    /\ "shutdown" \in OffLoopOps
    /\ userPc[u] = "idle"
    /\ upCalls = 1
    /\ state_ = "CONNECTED"
    /\ closeCalls[u] < MaxCloseCalls
    /\ closeCalls' = [closeCalls EXCEPT ![u] = @ + 1]
    /\ userPc' = [userPc EXCEPT ![u] = "shutdownSet"]
    /\ UNCHANGED <<connVars, kernelVars, pending, accepted, removing,
                   destroyed, ownerVars, lastPosted, upCalls, downCalls>>

(* Another thread's forceClose(): check CONNECTED or DISCONNECTING, set    *)
(* DISCONNECTING, queue forceCloseInLoop().                                *)
UserForceCloseCheck(u) ==
    /\ "forceClose" \in OffLoopOps
    /\ userPc[u] = "idle"
    /\ upCalls = 1
    /\ state_ \in {"CONNECTED", "DISCONNECTING"}
    /\ closeCalls[u] < MaxCloseCalls
    /\ closeCalls' = [closeCalls EXCEPT ![u] = @ + 1]
    /\ userPc' = [userPc EXCEPT ![u] = "forceSet"]
    /\ UNCHANGED <<connVars, kernelVars, pending, accepted, removing,
                   destroyed, ownerVars, lastPosted, upCalls, downCalls>>

(* setState(DISCONNECTING) of shutdown() or forceClose().                  *)
UserSetDisconnecting(u) ==
    /\ userPc[u] \in {"shutdownSet", "forceSet"}
    /\ state_' = "DISCONNECTING"
    /\ userPc' = [userPc EXCEPT ![u] = IF @ = "shutdownSet" THEN "shutdownPush"
                                                            ELSE "forcePush"]
    /\ UNCHANGED <<reading, writing, chanAdded, chState, outputBuf, kernelVars, pending,
                   accepted, closeCalls, removing, destroyed, ownerVars, lastPosted, upCalls, downCalls>>

UserPush(u) ==
    /\ userPc[u] \in {"shutdownPush", "forcePush"}
    /\ pending' = Append(pending, IF userPc[u] = "shutdownPush"
                                  THEN Task("shutdown", NoMsg)
                                  ELSE Task("forceClose", NoMsg))
    /\ userPc' = [userPc EXCEPT ![u] = "idle"]
    /\ UNCHANGED <<connVars, kernelVars, accepted, closeCalls, removing, destroyed, ownerVars, lastPosted,
                   upCalls, downCalls>>

-----------------------------------------------------------------------------
(* The peer reads one byte from the kernel's send buffer.                  *)
PeerRead ==
    /\ sockBuf # <<>>
    /\ delivered' = Append(delivered, Head(sockBuf))
    /\ sockBuf' = Tail(sockBuf)
    /\ UNCHANGED <<connVars, shutWr, peerData, peerFin, peerSends, pending,
                   envVars, lastPosted, upCalls, downCalls>>

(* The peer sends data.                                                    *)
PeerSend ==
    /\ ~peerFin /\ ~peerData
    /\ peerSends < MaxPeerData
    /\ peerData' = TRUE
    /\ peerSends' = peerSends + 1
    /\ UNCHANGED <<connVars, sockBuf, delivered, shutWr, peerFin, pending,
                   envVars, lastPosted, upCalls, downCalls>>

(* The peer closes its side (FIN).                                         *)
PeerClose ==
    /\ ~peerFin
    /\ peerFin' = TRUE
    /\ UNCHANGED <<connVars, sockBuf, delivered, shutWr, peerData, peerSends,
                   pending, envVars, lastPosted, upCalls, downCalls>>

(* Nothing is left to happen: the connection is gone and the peer has    *)
(* read everything.                                                        *)
Finished ==
    /\ destroyed /\ pending = <<>> /\ sockBuf = <<>> /\ ~removing
    /\ \A u \in Users : userPc[u] = "idle"
    /\ UNCHANGED vars

-----------------------------------------------------------------------------
(* Just after the owner's onNewConnection(): its runInLoop() of            *)
(* onConnectionEstablished() has run already when the I/O loop is the      *)
(* owner's, and is queued otherwise.                                       *)
Init ==
    /\ state_ = IF SameLoop THEN "CONNECTED" ELSE "CONNECTING"
    /\ reading = SameLoop
    /\ writing = FALSE
    /\ chanAdded = SameLoop
    /\ chState = IF SameLoop THEN "ADDED" ELSE "NEW"
    /\ outputBuf = <<>>
    /\ sockBuf = <<>>
    /\ delivered = <<>>
    /\ shutWr = FALSE
    /\ peerData = FALSE
    /\ peerFin = FALSE
    /\ peerSends = 0
    /\ pending = IF SameLoop THEN <<>> ELSE <<Task("established", NoMsg)>>
    /\ userPc = [u \in Users |-> "idle"]
    /\ accepted = [s \in Senders |-> <<>>]
    /\ closeCalls = [s \in Senders |-> 0]
    /\ upCalls = IF SameLoop THEN 1 ELSE 0
    /\ downCalls = 0
    /\ removing = FALSE
    /\ destroyed = FALSE
    /\ inMap = TRUE
    /\ ownerAlive = TRUE
    /\ failed = {}
    /\ lastPosted = "none"

(* A queued write-complete or high-water-mark callback runs: user code     *)
(* that, in this model, does not touch the connection.                     *)
RunCallback ==
    /\ pending # <<>>
    /\ Head(pending).kind \in {"writeComplete", "highWater"}
    /\ pending' = Tail(pending)
    /\ UNCHANGED <<connVars, kernelVars, envVars, lastPosted, upCalls, downCalls>>

LoopStep ==
    \/ Established \/ RunSend \/ RunShutdown \/ RunForceClose \/ Destroy \/ RunCallback
    \/ HandleReadData \/ HandleReadEof \/ HandleWrite

UserStep(u) ==
    UserSendPush(u) \/ UserSetDisconnecting(u) \/ UserPush(u)

Next ==
    \/ LoopStep
    \/ LoopUser
    \/ OwnerRemove \/ OwnerDestroy
    \/ \E u \in Users : \/ UserSendCheck(u) \/ UserShutdownCheck(u)
                        \/ UserForceCloseCheck(u) \/ UserStep(u)
    \/ PeerRead \/ PeerSend \/ PeerClose
    \/ Finished

(* The loop, the owner and a thread inside a call keep going; the peer     *)
(* keeps reading what we send.  Users, the peer's sends and its close are  *)
(* free to never happen.                                                   *)
Fairness ==
    /\ WF_vars(LoopStep)
    /\ WF_vars(OwnerRemove)
    /\ \A u \in Users : WF_vars(UserStep(u))
    /\ WF_vars(PeerRead)

Spec == Init /\ [][Next]_vars /\ Fairness


-----------------------------------------------------------------------------
TypeOK ==
    /\ state_ \in States
    /\ reading \in BOOLEAN /\ writing \in BOOLEAN /\ chanAdded \in BOOLEAN
    /\ chState \in ChannelStates
    /\ outputBuf \in Seq(Msg) /\ sockBuf \in Seq(Msg) /\ delivered \in Seq(Msg)
    /\ Len(sockBuf) <= SockCap
    /\ shutWr \in BOOLEAN /\ peerData \in BOOLEAN /\ peerFin \in BOOLEAN
    /\ peerSends \in 0..MaxPeerData
    /\ \A i \in DOMAIN pending : pending[i].kind \in TaskKinds
    /\ userPc \in [Users -> UserPcs]
    /\ \A s \in Senders : accepted[s] \in Seq(Msg) /\ Len(accepted[s]) <= MaxSends
    /\ closeCalls \in [Senders -> 0..MaxCloseCalls]
    /\ upCalls \in Nat /\ downCalls \in Nat
    /\ removing \in BOOLEAN /\ destroyed \in BOOLEAN
    /\ inMap \in BOOLEAN /\ ownerAlive \in BOOLEAN /\ failed \subseteq Asserts
    /\ lastPosted \in {"none", "writeComplete", "highWater"}

(* The bytes one caller's send()s accepted, in the order it called.       *)
AcceptedBytes(s) == FlattenSeq([i \in DOMAIN accepted[s] |-> Bytes(accepted[s][i])])

(* Per caller, the peer reads the bytes of its accepted send()s in the     *)
(* order of the calls, no message torn by another's or overtaken: the     *)
(* direct write of sendInLoop() must not jump over outputBuf_, and the     *)
(* queued sendInLoop()s of another thread run in order.                    *)
DeliveredInOrder ==
    \A s \in Senders :
        IsPrefix(SelectSeq(delivered, LAMBDA b : b.src = s), AcceptedBytes(s))

(* shutdown() never cuts off buffered output: while the connection is not *)
(* closed (no "down" yet; state_ itself can be overwritten by another      *)
(* thread), the write side is shut down only once outputBuf_ is empty      *)
(* (shutdownInLoop() defers to handleWrite() while the channel writes).   *)
ShutdownAfterDrain ==
    (shutWr /\ downCalls = 0) => outputBuf = <<>>

(* A shutdown() is carried out: once DISCONNECTING, the write side is     *)
(* eventually shut down, or the connection closed or destroyed (its       *)
(* socket is then closed), as long as the peer keeps reading              *)
(* (handleWrite()'s deferred shutdownInLoop()).                            *)
ShutdownCompletes ==
    state_ = "DISCONNECTING" ~> (shutWr \/ downCalls > 0 \/ destroyed)

(* The connection callback reports "down" exactly when the connection     *)
(* becomes DISCONNECTED, and once; after onConnectionDestroyed() the       *)
(* connection is DISCONNECTED (the assert of ~TcpConnection) and its       *)
(* channel is out of the epoller (handleClose(), forceCloseInLoop() and   *)
(* onConnectionDestroyed() agree on who closes).                           *)
ConnectionLifecycle ==
    /\ downCalls <= upCalls
    /\ (state_ = "DISCONNECTED") = (downCalls = 1)
    /\ destroyed => (state_ = "DISCONNECTED" /\ ~chanAdded)

(* The close paths agree: handleClose() only runs on a CONNECTED or        *)
(* DISCONNECTING connection, the owner's removeConnectionInLoop() finds    *)
(* the connection in connections_, EPoller::removeChannel() gets a channel *)
(* that is ADDED or IGNORED, and nothing calls into the owner after its   *)
(* destructor, whichever of the peer's close, forceClose(), shutdown() and *)
(* the owner's teardown come first.                                        *)
NoAssertionFails == failed = {}


(* The backpressure protocol of the two output callbacks: a user told by  *)
(* the high-water-mark callback that outputBuf_ is backed up is later told *)
(* by the write-complete callback that it has drained, unless the          *)
(* connection is closed first.  The high-water callback comes from         *)
(* sendInLoop(), the write-complete one from handleWrite() after the peer  *)
(* has read enough for the buffer to drain, possibly over several writes,  *)
(* sends and a shutdown in between (spec section 4.8, the write handler).  *)
BackpressureReleased ==
    lastPosted = "highWater"
        ~> (lastPosted = "writeComplete" \/ state_ = "DISCONNECTED")

=============================================================================
