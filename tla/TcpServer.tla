----------------------------- MODULE TcpServer -----------------------------
(***************************************************************************)
(* A TcpServer (src/src/tcp_server.cpp) with its Acceptor (acceptor.cpp),  *)
(* its EventLoopThreadPool (event_loop_thread_pool.h) and the EPoller of   *)
(* every loop (epoller.cpp), composed: the main loop accepts, hands each   *)
(* connection round robin to an I/O loop, and the connection's close      *)
(* travels back to the main loop and forward again to its I/O loop        *)
(* (handleClose -> removeConnectionInLoop -> onConnectionDestroyed).       *)
(*                                                                         *)
(* The descriptors the process may still open are the numbers 1..MaxFds;  *)
(* the kernel hands out the lowest free one.  Each loop runs loop():      *)
(* poll, dispatch the returned channels one by one, then the swapped-out  *)
(* batch of functors one by one.  The wakeup eventfd is left out (the     *)
(* EventLoop module checks it): a loop with queued functors polls at once.*)
(* What a handler does is one operator on the record S of the shared      *)
(* state, so the calls made inside one callback compose.                  *)
(***************************************************************************)
EXTENDS Integers, Sequences, FiniteSets

CONSTANTS
    MaxThreads,  \* largest nThreads a server is built with
    NThreads,    \* the nThreads values checked (TcpServer's constructor argument)
    MaxFds,      \* descriptors left under RLIMIT_NOFILE once the server is built
    MaxPeers     \* peers that connect in total

ASSUME NThreads \subseteq 0..MaxThreads /\ NThreads # {}
ASSUME MaxFds \in Nat \ {0} /\ MaxPeers \in Nat

MainLoop == 0
Loops == 0..MaxThreads       \* loop i > 0 is loops_[i - 1] of the pool
ListenFd == 0                \* the acceptor's socket, opened before MaxFds count
Fds == 1..MaxFds
AllFds == {ListenFd} \cup Fds
NoFd == -1
Conns == 1..MaxPeers         \* a connection is named by its nextConnId_
Acc == 0                     \* the acceptor's channel
Chans == {Acc} \cup Conns
None == -1                   \* no channel, no holder
IdleHolder == 0              \* a descriptor held as Acceptor::idleFd_
ConnStates == {"NEW", "CONNECTING", "CONNECTED", "DISCONNECTING", "DISCONNECTED"}
ChStates == {"NEW", "ADDED", "IGNORED"}
Functor == [f : {"establish", "remove", "destroy"}, c : Conns]

VARIABLES
    mainPc,       \* main(): "init" before server.start(), "loop" in loop.loop()
    nThreads_,    \* EventLoopThreadPool::nThreads_
    next_,        \* EventLoopThreadPool::next_
    listening_,   \* Acceptor::listening_
    idleFd_,      \* Acceptor::idleFd_
    nextConnId_,  \* TcpServer::nextConnId_
    backlog,      \* connections the kernel completed and nobody accepted yet
    arrived,      \* peers that have connected
    owner,        \* per descriptor: None, IdleHolder or the connection whose Socket holds it
    loopOf,       \* per channel: its owner loop (TcpConnection::pOwnerIoLoop_)
    fdOf,         \* per channel: Channel::fd_
    state_,       \* TcpConnection::state_ ("NEW": not constructed yet)
    inMap,        \* the connection is in TcpServer::connections_
    peerClosed,   \* the peer has closed its end (the fd reads EOF)
    destroyed,    \* ~TcpConnection has run
    chState,      \* Channel::state_
    events,       \* Channel::concernedEvents_: "read" or "none"
    addedToLoop_, \* Channel::addedToLoop_
    channels_,    \* per loop: EPoller::channels_, fd -> channel
    epollSet,     \* per loop: the kernel's interest list of its epoll fd
    epollErr,     \* an epoll_ctl() call has failed (it is only logged)
    failed,       \* asserts that have failed
    pending,      \* per loop: EventLoop::pendingFunctors_
    batch,        \* per loop: the functors callPendingFunctors() swapped out
    loopPc,       \* per loop: "poll", "handle" or "functors"
    active        \* per loop: channels of the last poll not yet handled

vars == <<mainPc, nThreads_, next_, listening_, idleFd_, nextConnId_, backlog,
          arrived, owner, loopOf, fdOf, state_, inMap, peerClosed, destroyed,
          chState, events, addedToLoop_, channels_, epollSet, epollErr, failed,
          pending, batch, loopPc, active>>

(* The state the handlers change, as one record.                           *)
S == [nThreads |-> nThreads_, next |-> next_, listening |-> listening_, idle |-> idleFd_,
      nextId |-> nextConnId_, backlog |-> backlog, owner |-> owner,
      loopOf |-> loopOf, fdOf |-> fdOf, st |-> state_, inMap |-> inMap,
      destroyed |-> destroyed, ch |-> chState, ev |-> events,
      added |-> addedToLoop_, map |-> channels_, ep |-> epollSet,
      err |-> epollErr, failed |-> failed, pending |-> pending]

SetS(s) ==
    /\ nThreads_' = s.nThreads /\ next_' = s.next
    /\ listening_' = s.listening /\ idleFd_' = s.idle
    /\ nextConnId_' = s.nextId /\ backlog' = s.backlog /\ owner' = s.owner
    /\ loopOf' = s.loopOf /\ fdOf' = s.fdOf /\ state_' = s.st
    /\ inMap' = s.inMap /\ destroyed' = s.destroyed /\ chState' = s.ch
    /\ events' = s.ev /\ addedToLoop_' = s.added /\ channels_' = s.map
    /\ epollSet' = s.ep /\ epollErr' = s.err /\ failed' = s.failed
    /\ pending' = s.pending

Fail(s, cond, name) == IF cond THEN s ELSE [s EXCEPT !.failed = @ \cup {name}]

(* open()/accept4(): the lowest descriptor not in use.                     *)
FreeFds(s) == {f \in Fds : s.owner[f] = None}
LowestFree(s) == CHOOSE f \in FreeFds(s) : \A g \in FreeFds(s) : f <= g

-----------------------------------------------------------------------------
(* The kernel's epoll_ctl(): ADD of a registered fd (EEXIST) and MOD or    *)
(* DEL of an unregistered one (ENOENT) fail and change nothing.            *)
EpollCtl(s, l, op, fd) ==
    LET ok == IF op = "ADD" THEN fd \notin s.ep[l] ELSE fd \in s.ep[l]
        new == CASE op = "ADD" -> s.ep[l] \cup {fd}
                 [] op = "DEL" -> s.ep[l] \ {fd}
                 [] OTHER      -> s.ep[l]
    IN  [s EXCEPT !.ep[l] = IF ok THEN new ELSE @, !.err = @ \/ ~ok]

(* Channel::update() and EPoller::updateChannel(): a NEW channel enters    *)
(* channels_, a NEW or IGNORED one is ADDed, an ADDED one without events  *)
(* is DELeted and becomes IGNORED, any other is MODified.                  *)
update(s, ch) ==
    LET l == s.loopOf[ch]
        fd == s.fdOf[ch]
        st == s.ch[ch]
        t == [s EXCEPT !.added[ch] = TRUE]
    IN  IF st \in {"NEW", "IGNORED"}
        THEN EpollCtl([t EXCEPT !.map[l][fd] = IF st = "NEW" THEN ch ELSE @,
                                !.ch[ch] = "ADDED"], l, "ADD", fd)
        ELSE IF t.ev[ch] = "none"
             THEN EpollCtl([t EXCEPT !.ch[ch] = "IGNORED"], l, "DEL", fd)
             ELSE EpollCtl(t, l, "MOD", fd)

enableReading(s, ch) == update([s EXCEPT !.ev[ch] = "read"], ch)
disableAll(s, ch) == update([s EXCEPT !.ev[ch] = "none"], ch)

(* Mutant: removeChannel() deletes from epoll whatever the state.          *)
removeAlwaysDel(s, ch) ==
    LET l == s.loopOf[ch]
        fd == s.fdOf[ch]
        t == Fail(Fail([s EXCEPT !.added[ch] = FALSE],
                       s.ch[ch] \in {"ADDED", "IGNORED"}, "removeChannel state"),
                  s.map[l][fd] # None, "removeChannel erase")
    IN  [EpollCtl([t EXCEPT !.map[l][fd] = None], l, "DEL", fd)
            EXCEPT !.ch[ch] = "NEW"]

(* Channel::remove() and EPoller::removeChannel(): assert ADDED or         *)
(* IGNORED, erase from channels_ (assert one erased), DEL only an ADDED    *)
(* channel, and make it NEW.                                               *)
remove(s, ch) ==
    LET l == s.loopOf[ch]
        fd == s.fdOf[ch]
        t == Fail(Fail([s EXCEPT !.added[ch] = FALSE],
                       s.ch[ch] \in {"ADDED", "IGNORED"}, "removeChannel state"),
                  s.map[l][fd] # None, "removeChannel erase")
        u == [t EXCEPT !.map[l][fd] = None]
    IN  [IF s.ch[ch] = "ADDED" THEN EpollCtl(u, l, "DEL", fd) ELSE u
            EXCEPT !.ch[ch] = "NEW"]

(* EventLoop::queueInLoop(); the eventfd write is left out.                *)
queueInLoop(s, l, fun) == [s EXCEPT !.pending[l] = Append(@, fun)]

(* Mutant: next_ wraps one loop too late.                                  *)
getNextLoopLate(s) ==
    IF s.nThreads = 0 THEN <<MainLoop, s>>
    ELSE <<s.next + 1, [s EXCEPT !.next = IF @ + 1 > s.nThreads THEN 0 ELSE @ + 1]>>

(* EventLoopThreadPool::getNextLoop(): the main loop without threads,      *)
(* otherwise loops_[next_] and next_ advanced round robin.  Returns the   *)
(* loop and the new state.                                                 *)
getNextLoop(s) ==
    IF s.nThreads = 0 THEN <<MainLoop, s>>
    ELSE <<s.next + 1, [s EXCEPT !.next = IF @ + 1 >= s.nThreads THEN 0 ELSE @ + 1]>>

-----------------------------------------------------------------------------
(* TcpConnection::onConnectionEstablished(): assert CONNECTING, set        *)
(* CONNECTED, enableReading(); the connection callback changes nothing.    *)
onConnectionEstablished(s, c) ==
    enableReading([Fail(s, s.st[c] = "CONNECTING", "onConnectionEstablished")
                      EXCEPT !.st[c] = "CONNECTED"], c)

(* Mutant: channel_->remove() only on the CONNECTED path.                  *)
onConnectionDestroyedNoRemove(s, c) ==
    IF s.st[c] = "CONNECTED"
    THEN remove(disableAll([s EXCEPT !.st[c] = "DISCONNECTED"], c), c)
    ELSE s

(* TcpConnection::onConnectionDestroyed(): a still CONNECTED connection is *)
(* set DISCONNECTED and disabled, then the channel is removed.             *)
onConnectionDestroyed(s, c) ==
    remove(IF s.st[c] = "CONNECTED"
           THEN disableAll([s EXCEPT !.st[c] = "DISCONNECTED"], c)
           ELSE s, c)

(* The last TcpConnectionPtr goes: ~TcpConnection asserts DISCONNECTED,    *)
(* ~Channel asserts !addedToLoop_, ~Socket closes the fd, which the kernel *)
(* also drops from every epoll interest list.                              *)
destroyConnection(s, c) ==
    LET fd == s.fdOf[c]
        t == Fail(Fail(s, s.st[c] = "DISCONNECTED", "~TcpConnection"),
                  ~s.added[c], "~Channel")
    IN  [t EXCEPT !.destroyed[c] = TRUE,
                  !.owner[fd] = None,
                  !.ep = [l \in Loops |-> s.ep[l] \ {fd}]]

(* The functor removeConnectionInLoop() queues: it holds the last         *)
(* reference, so the connection dies when it returns.                      *)
connectDestroyed(s, c) == destroyConnection(onConnectionDestroyed(s, c), c)

(* Mutant: connectDestroyed runs at once instead of being queued.          *)
removeConnectionInLoopNow(s, c) ==
    connectDestroyed([Fail(s, s.inMap[c], "removeConnectionInLoop")
                         EXCEPT !.inMap[c] = FALSE], c)

(* Mutant: the erase is done but connectDestroyed is never queued.          *)
removeConnectionInLoopLeak(s, c) ==
    [Fail(s, s.inMap[c], "removeConnectionInLoop") EXCEPT !.inMap[c] = FALSE]

(* TcpServer::removeConnectionInLoop(): erase from connections_ (assert    *)
(* n == 1) and queue onConnectionDestroyed() on the connection's loop.     *)
removeConnectionInLoop(s, c) ==
    queueInLoop([Fail(s, s.inMap[c], "removeConnectionInLoop")
                    EXCEPT !.inMap[c] = FALSE],
                s.loopOf[c], [f |-> "destroy", c |-> c])

(* TcpServer::removeConnection(): runInLoop on the main loop, called on    *)
(* the connection's loop.                                                  *)
removeConnection(s, c) ==
    IF s.loopOf[c] = MainLoop
    THEN removeConnectionInLoop(s, c)
    ELSE queueInLoop(s, MainLoop, [f |-> "remove", c |-> c])

(* TcpConnection::handleClose(): assert CONNECTED or DISCONNECTING, set    *)
(* DISCONNECTED, disableAll(), the connection callback, then the close     *)
(* callback TcpServer::removeConnection().                                 *)
handleClose(s, c) ==
    removeConnection(
        disableAll([Fail(s, s.st[c] \in {"CONNECTED", "DISCONNECTING"}, "handleClose")
                       EXCEPT !.st[c] = "DISCONNECTED"], c), c)

(* TcpConnection::handleRead(): the peer's close reads 0 bytes.            *)
handleRead(s, c, eof) == IF eof THEN handleClose(s, c) ELSE s

-----------------------------------------------------------------------------
(* TcpServer::onNewConnection(): name the connection nextConnId_++, pick   *)
(* its loop, construct it (CONNECTING, its Socket owns fd), enter it in    *)
(* connections_ and runInLoop(onConnectionEstablished) on its loop.        *)
onNewConnection(s, fd) ==
    LET c == s.nextId
        pick == getNextLoop(s)
        l == pick[1]
        t == [pick[2] EXCEPT !.nextId = @ + 1, !.owner[fd] = c,
                             !.loopOf[c] = l, !.fdOf[c] = fd,
                             !.st[c] = "CONNECTING", !.inMap[c] = TRUE]
    IN  IF l = MainLoop
        THEN onConnectionEstablished(t, c)
        ELSE queueInLoop(t, l, [f |-> "establish", c |-> c])

(* Mutant: on EMFILE the error is only logged.                             *)
AcceptorHandleReadNoIdle(s) ==
    IF s.backlog > 0 /\ FreeFds(s) # {}
    THEN onNewConnection([s EXCEPT !.backlog = @ - 1], LowestFree(s))
    ELSE s

(* Acceptor::handleRead(): accept one connection into the lowest free fd   *)
(* and hand it to onNewConnection.  With no free fd accept() fails with    *)
(* EMFILE and the pending connection stays queued: close(idleFd_),         *)
(* accept it into the freed fd and close it, then reopen /dev/null.  An   *)
(* empty queue (EAGAIN) is only logged.                                    *)
AcceptorHandleRead(s) ==
    IF s.backlog = 0 THEN s
    ELSE IF FreeFds(s) # {}
    THEN onNewConnection([s EXCEPT !.backlog = @ - 1], LowestFree(s))
    ELSE LET s1 == IF s.idle # NoFd THEN [s EXCEPT !.owner[s.idle] = None] ELSE s
             took == FreeFds(s1) # {}
             s2 == IF took THEN [s1 EXCEPT !.backlog = @ - 1] ELSE s1
             o == IF FreeFds(s2) # {} THEN LowestFree(s2) ELSE NoFd
         IN  [s2 EXCEPT !.idle = o,
                        !.owner = IF o # NoFd THEN [@ EXCEPT ![o] = IdleHolder] ELSE @]

(* TcpServer::start() on the main loop's thread: assert !listening(), then *)
(* call_once: the pool's threads start, and runInLoop(listen) runs at once *)
(* since this is the loop thread: Acceptor::listen() sets listening_ and   *)
(* enables reading on the accept channel.                                  *)
start(s) ==
    enableReading([Fail(s, ~s.listening, "start") EXCEPT !.listening = TRUE], Acc)

-----------------------------------------------------------------------------
(* The constructors have run: the acceptor holds the lowest descriptor as *)
(* its idle fd, no channel is registered, main() has not called start().  *)
Init ==
    /\ mainPc = "init"
    /\ nThreads_ \in NThreads
    /\ next_ = 0
    /\ listening_ = FALSE
    /\ idleFd_ = 1
    /\ nextConnId_ = 1
    /\ backlog = 0
    /\ arrived = 0
    /\ owner = [f \in Fds |-> IF f = 1 THEN IdleHolder ELSE None]
    /\ loopOf = [ch \in Chans |-> MainLoop]
    /\ fdOf = [ch \in Chans |-> IF ch = Acc THEN ListenFd ELSE NoFd]
    /\ state_ = [c \in Conns |-> "NEW"]
    /\ inMap = [c \in Conns |-> FALSE]
    /\ peerClosed = [c \in Conns |-> FALSE]
    /\ destroyed = [c \in Conns |-> FALSE]
    /\ chState = [ch \in Chans |-> "NEW"]
    /\ events = [ch \in Chans |-> "none"]
    /\ addedToLoop_ = [ch \in Chans |-> FALSE]
    /\ channels_ = [l \in Loops |-> [f \in AllFds |-> None]]
    /\ epollSet = [l \in Loops |-> {}]
    /\ epollErr = FALSE
    /\ failed = {}
    /\ pending = [l \in Loops |-> <<>>]
    /\ batch = [l \in Loops |-> <<>>]
    /\ loopPc = [l \in Loops |-> "poll"]
    /\ active = [l \in Loops |-> {}]

(* The loops exist and run once start() has started the pool.             *)
Running(l) == mainPc = "loop" /\ l <= nThreads_

(* Descriptors of l's interest list that epoll_wait reports readable: the *)
(* listening socket with a queued connection, a socket whose peer closed. *)
ReadyFds(l) ==
    {f \in epollSet[l] : \/ f = ListenFd /\ backlog > 0
                         \/ f \in Fds /\ owner[f] \in Conns /\ peerClosed[owner[f]]}

(* main(): server.start(), then loop.loop().                               *)
Start ==
    /\ mainPc = "init"
    /\ mainPc' = "loop"
    /\ SetS(start(S))
    /\ UNCHANGED <<arrived, peerClosed, batch, loopPc, active>>

(* EPoller::poll() and getActiveChannels(): each ready fd is looked up in *)
(* channels_ (assert the channel has that fd).  A loop with functors      *)
(* queued has its eventfd ready and returns too.                           *)
Poll(l) ==
    /\ Running(l)
    /\ loopPc[l] = "poll"
    /\ ReadyFds(l) # {} \/ pending[l] # <<>>
    /\ LET bad == {f \in ReadyFds(l) : channels_[l][f] = None
                                       \/ fdOf[channels_[l][f]] # f}
       IN  failed' = IF bad = {} THEN failed ELSE failed \cup {"getActiveChannels"}
    /\ active' = [active EXCEPT ![l] = {channels_[l][f] : f \in ReadyFds(l)} \ {None}]
    /\ loopPc' = [loopPc EXCEPT ![l] = "handle"]
    /\ UNCHANGED <<mainPc, nThreads_, next_, listening_, idleFd_, nextConnId_,
                   backlog, arrived, owner, loopOf, fdOf, state_, inMap,
                   peerClosed, destroyed, chState, events, addedToLoop_,
                   channels_, epollSet, epollErr, pending, batch>>

(* Channel::handleEvents() of one returned channel: its read callback.    *)
Handle(l, ch) ==
    /\ Running(l)
    /\ loopPc[l] = "handle"
    /\ ch \in active[l]
    /\ active' = [active EXCEPT ![l] = @ \ {ch}]
    /\ SetS(IF ch = Acc THEN AcceptorHandleRead(S)
            ELSE handleRead(S, ch, peerClosed[ch]))
    /\ UNCHANGED <<mainPc, arrived, peerClosed, batch, loopPc>>

(* callPendingFunctors() swaps the queue out under the lock.               *)
SwapFunctors(l) ==
    /\ Running(l)
    /\ loopPc[l] = "handle"
    /\ active[l] = {}
    /\ batch' = [batch EXCEPT ![l] = pending[l]]
    /\ pending' = [pending EXCEPT ![l] = <<>>]
    /\ loopPc' = [loopPc EXCEPT ![l] = "functors"]
    /\ UNCHANGED <<mainPc, nThreads_, next_, listening_, idleFd_, nextConnId_,
                   backlog, arrived, owner, loopOf, fdOf, state_, inMap,
                   peerClosed, destroyed, chState, events, addedToLoop_,
                   channels_, epollSet, epollErr, failed, active>>

(* One functor of the batch runs.                                          *)
RunFunctor(l) ==
    /\ Running(l)
    /\ loopPc[l] = "functors"
    /\ batch[l] # <<>>
    /\ LET fun == Head(batch[l])
       IN  SetS(CASE fun.f = "establish" -> onConnectionEstablished(S, fun.c)
                  [] fun.f = "remove"    -> removeConnectionInLoop(S, fun.c)
                  [] fun.f = "destroy"   -> connectDestroyed(S, fun.c))
    /\ batch' = [batch EXCEPT ![l] = Tail(@)]
    /\ UNCHANGED <<mainPc, arrived, peerClosed, loopPc, active>>

EndFunctors(l) ==
    /\ Running(l)
    /\ loopPc[l] = "functors"
    /\ batch[l] = <<>>
    /\ loopPc' = [loopPc EXCEPT ![l] = "poll"]
    /\ UNCHANGED <<mainPc, nThreads_, next_, listening_, idleFd_, nextConnId_,
                   backlog, arrived, owner, loopOf, fdOf, state_, inMap,
                   peerClosed, destroyed, chState, events, addedToLoop_,
                   channels_, epollSet, epollErr, failed, pending, batch, active>>

(* A peer connects: the kernel completes the handshake into the backlog.  *)
PeerConnect ==
    /\ listening_
    /\ arrived < MaxPeers
    /\ backlog' = backlog + 1
    /\ arrived' = arrived + 1
    /\ UNCHANGED <<mainPc, nThreads_, next_, listening_, idleFd_, nextConnId_,
                   owner, loopOf, fdOf, state_, inMap, peerClosed, destroyed,
                   chState, events, addedToLoop_, channels_, epollSet,
                   epollErr, failed, pending, batch, loopPc, active>>

(* The peer of an accepted connection closes its end.                      *)
PeerClose(c) ==
    /\ c < nextConnId_
    /\ ~peerClosed[c]
    /\ ~destroyed[c]
    /\ peerClosed' = [peerClosed EXCEPT ![c] = TRUE]
    /\ UNCHANGED <<mainPc, nThreads_, next_, listening_, idleFd_, nextConnId_,
                   backlog, arrived, owner, loopOf, fdOf, state_, inMap,
                   destroyed, chState, events, addedToLoop_, channels_,
                   epollSet, epollErr, failed, pending, batch, loopPc, active>>

LoopStep(l) ==
    \/ Poll(l)
    \/ \E ch \in Chans : Handle(l, ch)
    \/ SwapFunctors(l)
    \/ RunFunctor(l)
    \/ EndFunctors(l)

Next ==
    \/ Start
    \/ \E l \in Loops : LoopStep(l)
    \/ PeerConnect
    \/ \E c \in Conns : PeerClose(c)

(* main() calls start(), and a loop thread with something to do does it;  *)
(* peers connect and close when they like.                                 *)
Fairness ==
    /\ WF_vars(Start)
    /\ \A l \in Loops : WF_vars(LoopStep(l))

Spec == Init /\ [][Next]_vars /\ Fairness

-----------------------------------------------------------------------------
TypeOK ==
    /\ mainPc \in {"init", "loop"}
    /\ nThreads_ \in NThreads
    /\ next_ \in 0..(IF nThreads_ = 0 THEN 0 ELSE nThreads_ - 1)
    /\ listening_ \in BOOLEAN
    /\ idleFd_ \in Fds \cup {NoFd}
    /\ nextConnId_ \in 1..(MaxPeers + 1)
    /\ backlog \in 0..MaxPeers /\ arrived \in 0..MaxPeers
    /\ owner \in [Fds -> {None, IdleHolder} \cup Conns]
    /\ loopOf \in [Chans -> 0..nThreads_]
    /\ fdOf \in [Chans -> AllFds \cup {NoFd}]
    /\ state_ \in [Conns -> ConnStates]
    /\ inMap \in [Conns -> BOOLEAN] /\ peerClosed \in [Conns -> BOOLEAN]
    /\ destroyed \in [Conns -> BOOLEAN]
    /\ chState \in [Chans -> ChStates]
    /\ events \in [Chans -> {"read", "none"}]
    /\ addedToLoop_ \in [Chans -> BOOLEAN]
    /\ channels_ \in [Loops -> [AllFds -> Chans \cup {None}]]
    /\ epollSet \in [Loops -> SUBSET AllFds]
    /\ epollErr \in BOOLEAN
    /\ pending \in [Loops -> Seq(Functor)] /\ batch \in [Loops -> Seq(Functor)]
    /\ loopPc \in [Loops -> {"poll", "handle", "functors"}]
    /\ active \in [Loops -> SUBSET Chans]

(* No assert of the server, acceptor, connection, channel or poller code  *)
(* fails: removeChannel() on an ADDED or IGNORED channel, ~Channel after   *)
(* remove(), ~TcpConnection on a DISCONNECTED connection, one erase from   *)
(* connections_, getActiveChannels() finding the fd's own channel.        *)
NoAssertionFails == failed = {}

(* Live channels: the acceptor's, and those of constructed connections not *)
(* yet destroyed.                                                          *)
LiveOn(l) ==
    {ch \in Chans : /\ loopOf[ch] = l
                    /\ ch = Acc \/ (state_[ch] # "NEW" /\ ~destroyed[ch])}

(* EPoller's NEW/ADDED/IGNORED bookkeeping agrees with the kernel on every *)
(* loop, through accepts, closes, destructions and fd reuse: the epoll     *)
(* interest list is exactly the fds of the live ADDED channels, channels_  *)
(* maps exactly the fds of the live channels that are not NEW, each to its *)
(* own channel, and no epoll_ctl() fails (no ADD of a registered fd, no    *)
(* DEL or MOD of one already gone).                                        *)
EpollMirrorsChannels ==
    /\ ~epollErr
    /\ \A l \in Loops :
          /\ epollSet[l] = {fdOf[ch] : ch \in {x \in LiveOn(l) : chState[x] = "ADDED"}}
          /\ \A f \in AllFds :
                channels_[l][f] = IF \E ch \in LiveOn(l) : fdOf[ch] = f /\ chState[ch] # "NEW"
                                  THEN CHOOSE ch \in LiveOn(l) : fdOf[ch] = f /\ chState[ch] # "NEW"
                                  ELSE None

(* A connection is never destroyed while its channel is in the batch its  *)
(* loop is dispatching, its own handleEvents() included: handleClose()'s   *)
(* removal reaches onConnectionDestroyed() only through a queued functor. *)
(* (~Channel's handlingEvents_ assert cannot catch it: the flag is never  *)
(* set.)                                                                   *)
ChannelOutlivesDispatch ==
    [][\A l \in Loops : \A ch \in active[l] \cap Conns : ~destroyed'[ch]]_vars

(* Every peer that connects is taken off the listen queue, even when the  *)
(* process is out of descriptors (the idle-fd trick on EMFILE), as long as *)
(* the main loop runs.                                                     *)
AcceptProgress ==
    \A n \in 1..MaxPeers : (arrived >= n) ~> (arrived - backlog >= n)

(* Every connection whose peer closed is eventually destroyed and its     *)
(* descriptor closed, after the hops handleClose() on its loop,            *)
(* removeConnectionInLoop() on the main loop, onConnectionDestroyed() back *)
(* on its loop.                                                            *)
ConnectionReleased ==
    \A c \in Conns :
        peerClosed[c] ~> (destroyed[c] /\ \A f \in Fds : owner[f] # c)

=============================================================================
