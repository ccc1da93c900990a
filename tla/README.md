# TLA+ models of mini_muduo

mini_muduo (`src/`) is a one-loop-per-thread reactor network library in C++.
This directory holds TLA+ models of its components, the TLC configurations
that check them, and `PROJECT.json`. That file records the component
inventory, the runs, the mutants that show each property has teeth, the map
from every modelled definition to its source lines, the findings, and the
hazards.

## The system

| Part | Source | State | Operations |
|---|---|---|---|
| EventLoop | `src/src/event_loop.cpp` | `quit_`, `callingPendingFunctors_`, `pendingFunctors_` (under `mu_`), the wakeup eventfd | `loop`, `runInLoop`, `queueInLoop`, `quit`, `wakeup`, `callPendingFunctors` |
| EPoller | `src/src/epoller.cpp` | epoll fd, `channels_`, each channel's NEW/ADDED/IGNORED | `poll`, `updateChannel`, `removeChannel` |
| Channel | `src/src/channel.cpp` | interest set, received events, `handlingEvents_`, `addedToLoop_` | `handleEvents`, `update`, `remove` |
| TimerQueue | `src/src/timer_queue.cpp` | `timers_` ordered by (expiration, address), timerfd arming, `callingExpiredTimers_`, `cancelingTimers_` | `addTimer`, `cancel`, `handleRead`, `reset` |
| TcpConnection | `src/src/tcp_connection.cpp` | `state_`, `outputBuf_`, `inputBuf_`, the channel's interest | `send`, `sendInLoop`, `shutdown`, `forceClose`, `handleRead/Write/Close`, `onConnectionEstablished/Destroyed` |
| TcpServer | `src/src/tcp_server.cpp` | `connections_`, the thread pool, `startOnce_` | `start`, `onNewConnection`, `removeConnection(InLoop)`, destructor |
| Acceptor | `src/src/acceptor.cpp` | listening socket, idle fd | `listen`, `handleRead` (EMFILE recovery) |
| Connector | `src/src/connector.cpp` | `state_`, `connect_`, `channel_`, `retryDelay_` | `start/stop/restart`, `connect`, `handleWrite/Error`, `retry` |
| TcpClient | `src/src/tcp_client.cpp` | `connection_`, `retry_`, `connect_` | `connect`, `disconnect`, `stop`, `removeConnection` |
| EventLoopThread(Pool) | `src/include/mini_muduo/event_loop_thread*.h` | loops, `next_` | `startLoop`, `getNextLoop` |
| Buffer | `src/include/mini_muduo/buffer.h`, `src/src/buffer.cpp` | `readerIndex_`, `writerIndex_`, storage | `append`, `retrieve`, `makeSpace`, `prepend`, `readFd`, `findCRLF`/`findEOL`, the network-endian integer helpers |
| HiredisWrapper (example) | `src/examples/hiredis_demo/hiredis_wrapper.cpp` | `context_`, `channel_`, `subCmdCbs_` | `connect`, `disconnect`, `command`, `ping`, `getKey`, `subscribe`, `handleRead/Write`, `onConnect/onDisconnect`, destructor |
| RedisCacheClient (example) | `src/examples/hiredis_demo/redis_cache_client.cpp` | two wrappers, tracked keys, `inited_` | `start`, `trackKey`, `setKey`, `onPush` |

How the parts interact:
- Every object belongs to one EventLoop, and its state is touched only on
  that loop's thread. The exceptions are `send`, `shutdown` and `forceClose`
  of TcpConnection, `cancel`/`addTimer` posting, and `quit`: these may be
  called from any thread, and they hand their work to the loop through
  `runInLoop`/`queueInLoop`.
- The loop polls its EPoller and dispatches `Channel::handleEvents` for the
  ready fds. Then it runs the queued functors in one swapped-out batch.
- The TimerQueue is a channel on its loop (the timerfd).
- A TcpConnection is created by the TcpServer (via the Acceptor) or by the
  TcpClient (via the Connector). It is handed to an I/O loop with a queued
  `onConnectionEstablished`. When it closes, its close callback makes the
  owner erase it and queue `onConnectionDestroyed` back to the I/O loop.
- The Connector retries a failed connect through `EventLoop::runAfter`, that
  is, through the TimerQueue.
- The hiredis example's `HiredisWrapper` registers the fd of a
  `redisAsyncContext` as a Channel. Its handlers call hiredis, and hiredis
  calls back into the wrapper's hooks (`addRead`, `addWrite`, ...) and
  callbacks (`onConnect`, `onDisconnect`, reply callbacks). Those callbacks
  run inside the channel's own `handleEvents`.

The hard behaviours are:
- cross-thread calls racing the loop's own handlers;
- functors queued while the loop is about to block in `poll`;
- timers added and cancelled by callbacks of the batch being fired;
- partial writes, and a FIN that must wait for buffered output;
- the peer closing while user code shuts down or force-closes;
- retries whose timer outlives the `stop()` that should have ended them;
- a connection's teardown crossing from its I/O loop to the main loop and back, while its fd is reused by the next accept.

## Modules and their correspondence to the code

`PROJECT.json` "map" gives the source lines of every definition.

### EventLoop.tla, checked through MCEventLoop

The variables are:
- `loopPc`, the loop thread's position in `loop()`;
- `quit_`;
- `callingPendingFunctors_`;
- `pendingFunctors_`;
- `functors`, the batch swapped out by `callPendingFunctors`;
- `activeChannels`;
- `eventFd`, a non-zero wakeup counter;
- one generic I/O channel's readiness;
- `threadPc`, for other threads that are between the push of `queueInLoop` and its `wakeup()`, or between the store of `quit()` and its wakeup.

The actions:
- `LoopTop`, `Poll`, `PollTimeout`, `HandleWakeup`, `HandleIo`, `SwapFunctors`, `RunFunctor` and `EndFunctors` are the statements of `loop()` and `callPendingFunctors()`.
- Handlers and functors may call `queueInLoop` or `quit` on the loop thread (`LoopCallback`).
- Other threads `Post` and `Quit`, and then `Wakeup`.

`LoopTaskQueue.tla` is the abstract promise of `runInLoop`/`queueInLoop`: a FIFO queue of posted tasks that the loop runs one at a time until it stops. `EventLoop` instantiates it with `queue <- functors \o pendingFunctors_`. The run checks `TaskQueueSpec` as a refinement property.

### TimerQueue.tla, checked through MCTimerQueue

Time is an integer clock (`Tick`). Timer identities are numbers ordered like addresses, so they break ties between equal expirations as `std::set<Entry>` does.

The state is:
- `inQueue`, `expiration` and `interval` for `timers_`;
- `armedAt` for the timerfd;
- `callingExpiredTimers_` and `cancelingTimers_`;
- the running batch (`batch`, `batchNow`, `ran`).

The actions:
- User code on the loop (`LoopUserCode`) and expiring callbacks (`RunExpired`) add timers (`runAfter`/`runEvery`) and cancel them.
- `handleRead` is split at the callbacks:
  - `HandleReadBegin` samples `now`, reads the timerfd and takes the expired entries;
  - `RunExpired` runs one callback at a time;
  - `HandleReadEnd` is `reset()` and the clearing of `cancelingTimers_`.
- `resetTimerFd` keeps the 100 µs floor of `howMuchTimeFromNow`.
- `callingExpiredTimers_` is never initialised by the constructor, so `Init` lets it take either value.

### TcpConnection.tla, checked through MCTcpConnection

This module models one connection on its I/O loop. It has:
- the kernel's send buffer (`sockBuf`, `SockCap` bytes);
- the peer, which reads one byte at a time, sends data, and closes;
- the owner, whose `removeConnectionInLoop` queues `onConnectionDestroyed`;
- other threads (`Users`).

A message is `MsgLen` copies of its identity, so a partial write leaves part of a message behind. The pieces map to the code as follows:
- The loop's steps are the queued functors: `Established`, `RunSend`, `RunShutdown`, `RunForceClose` and `Destroy`. Each runs at the head of the FIFO `pending` queue.
- The loop's other steps are the channel's handlers: `HandleReadData`, `HandleReadEof` and `HandleWrite`.
- `SendInLoop`, `ShutdownInLoop` and `HandleClose` are the bodies those steps share.
- `QueueOutputCallbacks` is the write-complete and high-water-mark queueing that `sendInLoop` and `handleWrite` do. `RunCallback` runs such a functor. `lastPosted` is a history variable: the kind of the last write-complete or high-water callback queued. The constants `HighWaterCb` and `WriteCompleteCb` say whether the callbacks are set, and `HighWaterMark` is `highWaterMark_`.
- `LoopUser` is user code running on the loop thread. It calls `send` (which is `sendInLoop` at once), `shutdown` (which is `shutdownInLoop` at once) or `forceClose` (which queues).
- Another thread's `send` is two steps: check, then push. Its `shutdown`/`forceClose` is three: check, `setState(DISCONNECTING)`, push. The loop may step in between any two of them, as it can in the code, where `state_` is a plain member.

The channel and the owner are part of the same module:
- `chState` is the channel's NEW/ADDED/IGNORED state in the EPoller. `Update` is `Channel::update()` with `EPoller::updateChannel()`, so an IGNORED channel is re-ADDed whatever its interest. `RemoveFails` is the assert of `EPoller::removeChannel()`. Handlers run only while the channel is ADDED.
- The owner is a TcpServer. `CloseCallback` is `removeConnection()`: with `SameLoop` (no I/O threads) it runs `removeConnectionInLoop()` at once; otherwise `OwnerRemove` runs it later on the owner's loop.
- `inMap` is the connection's entry in `connections_`. `ownerAlive` is FALSE once `~TcpServer` has run; that destructor is `OwnerDestroy`, enabled by the constant `OwnerDestroys`.
- A use of the freed server (closeCallback_ or a queued `removeConnectionInLoop`) is recorded in `failed` as `ownerFreed`, like the failed asserts. Execution then goes on as an NDEBUG build would.
- `Init` is the state `onNewConnection()` leaves: CONNECTED and reading when `SameLoop` (its `runInLoop` runs `onConnectionEstablished` at once), or CONNECTING with the establishment queued.

### Connector.tla, checked through MCConnector

This module models the Connector of a TcpClient on its loop, and the TcpClient calls that drive it.
- A user thread runs one script from `Scripts`: a sequence of `enableRetry`, `connect` and `stop`. Each store and each queued functor is a statement of its own (`UserStep`, `UserConnectOrStop`).
- The loop runs the queued `startInLoop`, `stopInLoop` and `resetChannel` functors (`RunStart`, `RunStop`, `RunReset`), the retry timers (`RetryTimer`), and the connecting socket's `handleWrite`/`handleError`.
- The kernel decides how each `connect()` ends: in progress, refused (at most `MaxRefusals` times), or an error.
- `RemoveConnection` is the delivered connection closing (at most `MaxCloses` times). `TcpClient::removeConnection()` tests `retry_ && connect_` and then calls `restart()`, which is two steps (`Restart`, `RestartStartInLoop`).
- Timers are counted, not ordered: every retry timer runs the same `startInLoop()`.

### Buffer.tla, checked through MCBuffer

This module models `Buffer` as the vector `buffer_` with `readerIndex_` and `writerIndex_`, and scales down the constants (`kCheapPrepend`, `kInitialSize`, and readFd's `extrabuf`).
- Each public operation is an action: `AppendData`, `Retrieve` (which covers retrieve, retrieveAll and retrieveAsString), `Prepend`, `Unwrite`, `ReadFd` and `Shrink`.
- The private helpers are operators on a buffer value: `makeSpace`, `ensureWritableBytes`, `readFd`'s two iovecs and `shrink`'s swap.
- `ReadFd` lets the kernel return any string the two iovecs can hold.
- `AppendInt`, `PrependInt` and `ReadInt` are `appendIntN`, `prependIntN` and `readIntN` for widths 1 and 2. `IntBytes` and `peekInt` translate the casts and the `memcpy` through the object's little-endian bytes. `hostToNetwork`/`networkToHost` come from `mini_muduo/endian.h`, which is not in the repository, so they are modelled from the spec ("network-endian") as a byte swap.
- `findCRLF` and `findEOL` are the recursive operators `SearchCRLF` (`std::search`) and `Memchr`.
- Failed asserts go to `failed`.

`ByteQueue.tla` is what a Buffer promises: its readable bytes form a queue. Append adds at the back, retrieve takes from the front, prepend adds at the front, and unwrite takes from the back. `Buffer` instantiates it with `q <- Content(B)`.

### HiredisWrapper.tla, checked through MCHiredisWrapper

This module models one `HiredisWrapper` on its loop, driven by one of the three demo clients of `main.cpp`:
- `ping` pings and disconnects on connect.
- `getThenPing` gets `k1`, then pings and disconnects in the GET callback.
- `sub` subscribes to `test1` and `test2`. It disconnects on the fourth `test1` callback (`count++ > 2`) and quits the loop in its disconnect callback.

The wrapper's code is translated from the source. hiredis (`async.c`, not in the repository) and the Redis server are the environment. The model keeps the hiredis 1.1 behaviour the wrapper depends on:
- A connect completes on the first writable event. On failure, `onConnect(REDIS_ERR)` runs and the context is freed **without** the disconnect callback, because it was never CONNECTED.
- `redisAsyncDisconnect` inside a callback only sets DISCONNECTING. The context is freed once no reply is pending, either after the connect callback or at the end of `redisProcessCallbacks`.
- Freeing calls every pending callback with a NULL reply, then the disconnect callback if the context was CONNECTED, then closes the fd.
- A command is refused once DISCONNECTING. Otherwise hiredis calls `addWrite`. A full write calls `delWrite` and then `addRead`.

The wrapper's variables are also read as one record `W`, so a chain of calls made inside one callback (for example `ping(); disconnect();`) is a composition of operators on `W`. `SetW` then makes it the next state. The loop's steps are:
- `Poll` returns the ready events the channel is interested in.
- `HandleRead` is the read callback. It reads either the EOF, which frees the context, or the replies.
- `ProcessReply` handles one reply, and `ProcessDone` does the end-of-processing disconnect check.
- `HandleWrite` is the write callback. It runs after the read callback of the same dispatch.
- `RunReset` is the queued `resetChannel()`.
- `LoopExit` is `loop()` returning after `quit()`, and `Destroy` is `~HiredisWrapper` after `main()` returns.

A null or freed context used by a handler, and `pingCallback` dereferencing a NULL reply, end the process: they are recorded in `crashed`, and nothing runs after them.

### TcpServer.tla, checked through MCTcpServer

This module composes the server side of the library as the echo example runs it (`main()`: `server.start(); loop.loop();`). The parts are:
- the main loop (loop 0) and `nThreads` I/O loops (1..nThreads, `loops_[i-1]`);
- the `Acceptor` with its listening socket and idle fd;
- `TcpServer` with `connections_` (`inMap`);
- each connection's `TcpConnection` state and `Channel`;
- one `EPoller` per loop: `channels_`, plus the kernel's interest list `epollSet`;
- a small fd table (`owner`). The kernel gives out the lowest free fd, so a closed connection's fd is reused by the next accept.

The server's variables are also read as one record `S`. Every call made inside one handler is an operator on `S`, translated from its function:
- `update`, `remove`, `EpollCtl` for the EPoller;
- `enableReading`, `disableAll` for the Channel;
- `queueInLoop`, `getNextLoop`;
- `onConnectionEstablished`, `onConnectionDestroyed`, `handleRead`, `handleClose`;
- `removeConnection`, `removeConnectionInLoop`, `onNewConnection`, `AcceptorHandleRead`, `start`.

A handler such as `handleRead` -> `handleClose` -> `removeConnection` is then a composition of these operators, and `SetS` makes the result the next state. A failed assert is recorded in `failed` and execution goes on, as in an NDEBUG build. `epoll_ctl` failures (ADD of a registered fd, MOD or DEL of an unregistered one) set `epollErr`.

Each loop runs `loop()` as four steps:
- `Poll`: `epoll_wait` plus `getActiveChannels`, with the assert that the channel found has the ready fd;
- `Handle`: one channel's dispatch;
- `SwapFunctors`: the swap under the lock;
- `RunFunctor` and `EndFunctors`: the batch, one functor at a time.

Functors are `establish` (`runInLoop(onConnectionEstablished)`), `remove` (`removeConnectionInLoop`) and `destroy` (the queued `onConnectionDestroyed`). `runInLoop` runs at once when the caller is on the target loop. Peers connect (`PeerConnect`, onto the listen backlog) and close (`PeerClose`).

On EMFILE, `AcceptorHandleRead` closes the idle fd, accepts into it, closes that, and reopens `/dev/null`, all as one step. No thread of this program opens fds after `start()`, so nothing can take the freed fd in between. The loop's eventfd wakeup is left out: EventLoop.tla checks it, and here a loop with pending functors is simply ready.

### RedisCacheClient.tla, checked through MCRedisCacheClient

This module models the cache client as `main.cpp`'s `testCacheClient()` drives it: `start()`, then `trackKey()` of `k2` and `k3`. The get callback of `k2` calls `setKey(k2, "500")` once, through a `std::once_flag`. `Init` is the state when `testCacheClient()` returns:
- both wrappers' non-blocking connects have begun;
- both keys' callbacks are registered;
- both keys' `runEvery(100ms)` timers are live.

Each HiredisWrapper is abstracted to three things: `conn`, its connection state, where `connected` is `REDIS_CONNECTED`; `toServer`, the ordered commands on its socket; and `toClient`, the ordered replies and pushes. `HiredisWrapper.tla` checks the channel mechanics underneath. hiredis matches replies to callbacks in FIFO order, so each reply carries the callback it will reach.

The environment is the Redis server plus another client that writes keys (`ExtWrite`, at most `MaxExtWrites`). The server runs CLIENT TRACKING in its default mode:
- a GET after `CLIENT TRACKING ON` adds the key to `tracking`;
- a write of a key in `tracking` queues an invalidate push to `cacheConn_` and removes the key.

A key's value is its version, the number of writes applied to it. Version 0 stands for the initial value or NIL.

The wrapper and client functions are operators that return the new `toServer`, named after the code:
- `command` (refused with REDIS_ERR unless connected);
- `connectCb`, `onHello3`, `trackKeyCb` with `setAsyncPushCallBack`;
- `asyncPushCallback` and `onPush`;
- `getKeyCb`, `userGetKeyCb` and `setKey`;
- `getKeyAfterInitedFunc`.

The actions are:
- `Connect`, the connect completing;
- `ServerExec` and `ExtWrite` on the server side;
- `CacheRead` and `WriteRead`, each connection's read callback;
- `TimerFire`, a live timer expiring.

`cond_.wait_for(1ms)` in the timer function runs on the loop thread. That is the only thread that sets `inited_`, so the wait just returns `inited_` as it is. `setLost` records a `setKey()` refused because `writeConn_` had not finished connecting.

## Runs

| Run | Expect | Shows |
|---|---|---|
| `eventloop` | pass | No lost wakeup, `quit()` ends the loop without the poll timeout, and the loop refines the FIFO task queue. |
| `timerqueue` | pass | The timerfd never fires later than the earliest queued timer. A cancelled repeating timer is never re-inserted. |
| `tcpconnection` | pass | Checked with no I/O threads and a server that outlives the connection. Per-caller byte order holds with no torn messages, and no FIN is sent while output is buffered. `shutdown()` completes. There is one "down" callback per connection, and the connection is DISCONNECTED and out of epoll when destroyed. No assert of the connection, the EPoller or the server fails. Every high-water-mark callback is followed by a write-complete callback once `handleWrite` drains the buffer, unless the connection closes first. That is the backpressure protocol a sender relies on to resume. |
| `tcpconnection_offloop` | pass | Checked with an I/O thread, `shutdown()`/`forceClose()` called from another thread, and the server destructor. No FIN is sent before buffered output, and a shutdown still completes. |
| `tcpconnection_shutdown_race` | violation | An off-loop `shutdown()` overwrites DISCONNECTED after the peer's close, and `~TcpConnection`'s assert fails. |
| `tcpconnection_owner_destroyed` | violation | `~TcpServer` destroys a connection that loop code has shut down: it stays DISCONNECTING, "down" is never reported, and `~TcpConnection`'s assert fails. |
| `connector` | pass | No assert fails. The back-off doubles from 500 ms to the 30 s cap and `restart()` resets it. Without retry, no socket is created after `stop()` returns. |
| `connector_restart_stop` | violation | `stop()` between `removeConnection()`'s `retry_ && connect_` test and `restart()`: the client reconnects after `stop()` returned. |
| `buffer` | pass | The indices stay ordered and no assert fails, over any call sequence within 7 bytes. `findCRLF`/`findEOL` return exactly the first terminator of the readable bytes, and never a stale one beyond `beginWrite()`. Integers are appended, prepended and read in network byte order. The readable bytes refine `ByteQueue` through compaction, growth, readFd's spill and shrink. |
| `hiredis` | pass | For each demo client, against a server that answers, publishes and may close: no assert fails, including `~Channel`'s and `~HiredisWrapper`'s. No step of the channel's dispatch destroys the channel. Every `disconnect()` completes with the channel reset. |
| `tcpserver` | pass | With 0 or 2 I/O threads, 3 fds and 3 peers that connect and close. No assert fails, including EPoller's and `~Channel`'s. Every loop's epoll interest list and `channels_` equal the live registered channels, across fd reuse. No channel is destroyed while its loop dispatches it. Every queued connection is accepted or dropped through EMFILE. Every closed connection is destroyed and gives back its fd. |
| `rediscache` | pass | `testCacheClient()` against a tracking server, with another client writing twice. Whenever nothing is in flight, every key the get callbacks have seen holds the server's value. Each key is fetched, and fetched again after every write, although `trackKey()` starts polling before the handshake sets `inited_`. |

The findings in `PROJECT.json` explain each violation at its source line.

For every property of a passing run, a mutant in `PROJECT.json` replaces one
mapped definition with a plausible bug, and TLC finds that property violated.
The bugs used are:
- a missing wakeup;
- a copied batch that is never cleared;
- a `quit()` without wakeup;
- an arming without the 100 µs floor;
- a cancel that does not record;
- a direct write that ignores `outputBuf_`;
- an unconditional `shutdownInLoop`;
- a `forceCloseInLoop` without its state check;
- a `handleWrite` that forgets the deferred shutdown;
- a `handleWrite` that drains without queuing the write-complete callback;
- a `retry()` that leaks its socket;
- a `restart()` that keeps the old state, or keeps the old delay;
- a `startInLoop()` that ignores `connect_`;
- a `makeSpace` without the `kCheapPrepend` reserve, or one byte short;
- a `readFd` that appends the spill without first moving `writerIndex_`;
- a CRLF search that runs to the end of the storage;
- a `peekIntN` without `networkToHostN`;
- a reply callback whose counter also counts the other channel;
- an `onDisconnect` that keeps the channel;
- a `removeAndResetChannel` that destroys the channel at once, or never queues the reset;
- a `getNextLoop` that wraps `next_` before indexing;
- an `onConnectionDestroyed` that skips `remove()`;
- a `removeChannel` that DELs an IGNORED channel;
- a `removeConnectionInLoop` that destroys at once, or never queues the destroy;
- an `Acceptor::handleRead` without the idle-fd recovery;
- a demo get callback without its `once_flag`, which keeps writing;
- an `onPush` that does not refetch the key;
- a polling timer that cancels itself before `inited_`.

## Bounds, and why they are enough

**EventLoop:** two other threads and the loop, 2 posts each, and 2 I/O events.
- That is enough for a post to land in each window of the loop: before poll, during handling, and during the batch.
- It is also enough for a quit to race a post.

**TimerQueue:** three timers, delays {0, 2}, intervals {1, 2}, and a clock up to 5.
- Delay 0 exercises the 100 µs floor.
- Two timers can share an expiration, so the order tie-break matters.
- A repeating timer can fire several times.
- A batch can hold several timers, with a callback cancelling another member of its batch.

**TcpConnection:** one other thread and the loop, 2 sends each, 2-byte messages and a 1-byte socket buffer, at most 1 shutdown or forceClose on the loop, and one data arrival from the peer.
- The 1-byte socket buffer makes every direct write partial and makes `EWOULDBLOCK` happen.
- As a result, both the deferred shutdown and the write-readiness path are exercised.
- Two messages per caller are the fewest in which one can overtake another.
- A high-water mark of 2 bytes is crossed by a second message queued behind a partial write (1 to 3 bytes), and exactly reached by a whole message queued against a full socket buffer (0 to 2). Draining by `handleWrite` then lets a later send cross it again. The callbacks are set only in the main run: they multiply the off-loop run by thirty, and they are independent of the cross-thread `state_` race it explores.
- `SameLoop` and `OwnerDestroys` pick the deployment. The main run has no I/O threads and a server that outlives the connection. The off-loop run has an I/O thread, a server destructor that may run at any time, and the cross-thread `shutdown`/`forceClose`.

**Connector:** the real delays (500 ms to 30 s), up to 7 refusals and 2 closes of a delivered connection.
- Seven refusals take the doubling past the cap: 500, 1000, ..., 16000, then 30000 twice.
- Two closes make `restart()` run twice, so its reset of the delay is checked after a grown delay.
- The scripts `enableRetry; connect` and `connect; stop` are the two uses of TcpClient. Each violation run has a script of three calls.

**Buffer:** `kCheapPrepend` 2, `kInitialSize` 2, `extrabuf` 2 bytes, two byte values, strings of up to 3 bytes, and `buffer_` up to 7 bytes.
- With these values, every branch of `makeSpace` is reached: growth, and compaction with bytes both in front of and behind `kCheapPrepend`.
- Both branches of `readFd` (fits, and spills into `extrabuf`) are reached, and so is a `shrink` that grows or compacts.
- Two byte values are enough to tell any reordering or duplication apart.
- The integers are 0x0D0A and 0x0A0D at widths 1 and 2. Their network-order bytes are the same two byte values, and each one read in host order is the other, so a missing swap shows. No negative value is explored: a third byte value makes the run too large. The sign conversion (`Signed`) is therefore only reached through the values that fit.

**HiredisWrapper:** one wrapper per behaviour, each demo client, up to 4 published messages, and a server that may close at any point.
- Four messages let `sub` reach its disconnect (a confirmation and three messages on `test1`) with one to spare, which may go to `test2`.
- The server closing while a PING is pending, while a SUBSCRIBE confirmation is pending, or while idle covers every path of the error disconnect.

**TcpServer:** `nThreads` in {0, 2}, 3 fds (the idle fd and two connections) and 3 peers.
- With no I/O threads everything runs on the main loop and `runInLoop` runs at once. With two threads, every connection hops between loops, and the round robin wraps.
- The third peer to connect while two connections are open meets EMFILE, so the idle-fd recovery runs.
- A peer that closes frees an fd that a later accept reuses, possibly on the other loop, which is the case `EpollMirrorsChannels` is about.

**RedisCacheClient:** the two keys of `main.cpp`, with up to 2 writes by another client to any key.
- One write can land between the server's reply to a GET and the client reading it, so the push queues behind a stale reply.
- Two writes can hit the same key before, during and after its refetch.
- The demo's own SET can race an external write.
- The timers fire in every phase of the HELLO / CLIENT TRACKING handshake.

## Fairness

**EventLoop.** Each step of the loop thread is weakly fair, and so is the wakeup write of a thread inside `queueInLoop`/`quit`.
- The poll timeout (`PollTimeout`) is not fair. The properties must hold without the 10 s timeout ever rescuing a lost wakeup.
- Other threads are free to stop posting.

**TimerQueue.** There is no liveness property, so there is no fairness.

**TcpConnection.** The loop's steps, the owner's removal, and the remaining steps of a thread already inside a call are weakly fair. The peer's reading is weakly fair too.
- `ShutdownCompletes` assumes a peer that keeps reading. With a peer that never reads, the FIN is rightly never sent.
- `BackpressureReleased` rests on the same assumption: the peer reading is what lets `handleWrite` drain the buffer and queue the write-complete callback.
- The peer's sends and closes, and the users' calls, need no fairness.
- `OwnerDestroy` has no fairness: a server need never be destroyed.

**Connector and Buffer.** There is no liveness property, so there is no fairness.

**TcpServer.** `Start` and each loop's step are weakly fair: a loop that has a ready fd or a pending functor returns from `epoll_wait` and handles it. The peers are not fair; they may stop connecting and closing.
- The run does not check deadlock. A server with no peers left rightly waits in `epoll_wait` forever.

**HiredisWrapper.** The loop's steps are weakly fair, and so is the server's answer to a command it has read: `DisconnectCompletes` assumes a server that answers, which hiredis's deferred disconnect waits for. Publishing, the server's close and `main()`'s return are not fair.
- The run does not check deadlock. A demo process whose wrapper has disconnected, with no `quit()`, rightly stays in `epoll_wait` forever.

**RedisCacheClient.** The completion of the kernel's connect is weakly fair. So are the server executing each command it has read, each connection's read callback, and each live timer: the 100 ms clock advances, and the loop runs expired timers. The other client's writes are not fair.
- `AlwaysEventuallyFresh` assumes connects succeed (`ConnectMayFail = FALSE`). A failed `cacheConn_` connect leaves the keys unfetched for good. That is the wrapper divergence listed below.
- The run does not check deadlock. Once the keys are fetched and the writes are done, the process rightly waits in `epoll_wait`.

## Abstractions

These simplifications apply to all modules:
- Message contents, addresses, names and logging are model values or are left out.
- Channel dispatch within one poll iteration is interleaved with the loop's other steps. This over-approximates the code, which handles all ready fds before the functors. Each violation trace was checked to be one the code can produce.
- EventLoop and TcpConnection share the task-queue semantics: TcpConnection uses a FIFO `pending` queue, which is what `LoopTaskQueue` promises.

## Not modelled yet, and the plan

The order below puts the most important behaviour first.

1. **TcpConnection error path and callbacks:**
   - RST (`handleRead` returns -1, EPOLLHUP|EPOLLERR), including the HUP that follows a re-ADD of an IGNORED channel;
   - user code inside the write-complete and high-water callbacks (sending or shutting down from them).
2. **TcpClient with its connection:** `disconnect()`, and the destructor's swap of the close callback. The connection itself is now a flag in `Connector`.
3. **Channel:** `handleEvents`' dispatch order with HUP and ERR. The `handlingEvents_` flag is never set to true, so `~Channel` cannot catch a channel destroyed during its own dispatch. `ChannelOutlivesDispatch` checks that property instead, in HiredisWrapper and TcpServer.
4. **RedisCacheClient:** `disconnect()` and `disconnectCb_`, which no caller uses, and a server that closes `cacheConn_`. These are left out.
5. **EventLoopThread:** the condition-variable hand-off of `startLoop`. TcpServer assumes what it guarantees (`start()` returns with every I/O loop running). `~Acceptor` and `~TcpServer` in TcpServer.tla are also left; the destructor is checked in TcpConnection.tla.

HiredisWrapper hazards that the model reaches but no property states:
- `pingCallback` dereferencing the NULL reply that hiredis passes when the server closes with a PING pending. The `hiredis` run reaches it as `crashed = "pingCallback"`, but a crash is a terminal state, not a checked invariant.
- The null `context_` used by the write callback after the read callback's disconnect in the same dispatch.

Known divergences that no run checks:
- When the non-blocking connect of a HiredisWrapper fails, `onConnect(REDIS_ERR)` only logs (the TODO at `hiredis_wrapper.cpp:234`), and hiredis frees the context without the disconnect callback. `context_` dangles and the channel stays registered for writing on a closed fd. HiredisWrapper.tla reaches this with `ConnectMayFail = TRUE`: a state where hiredis has freed the context while `context_` still points to it and the channel is ADDED. A connect to a closed port shows it in a unit test.
- `TcpServer::start()` is documented as "harmless to call it multiple times. Thread safe." A second call after `listen()` fails `assert(!acceptor_->listening())`, and a call from another thread fails `assertInLoopThread()` in the pool's `start()`. TcpServer.tla calls `start()` once, on the main loop, as the examples do.
- An off-loop `send()` can be overtaken by an on-loop `shutdown()` and lose its bytes with EPIPE on an open connection, against spec.md:186. The ordering is muduo's own.
- A timer cancelled by an earlier callback of its own expired batch still runs. The spec only forbids its rescheduling, which `CancelledNeverRescheduled` checks.

Use of the freed server (`ownerFreed`) is recorded by the TcpConnection model but is not checked by a passing run. With the destructor enabled, the state_ race of the off-loop `shutdown` breaks the same invariant, so a run cannot separate the two hazards.

The TimerQueue also never re-arms the timerfd on `cancel()` (§8 says it is armed at the minimum expiration). This only costs a spurious wake-up. `TimerFdCoversQueue` checks the half of §8 that matters: the timerfd is never armed later than the earliest timer.

Socket, InetAddress, `socket_ops`, Timestamp and logging are not modelled. They wrap system calls and formatting and have no state machine of their own; their effect appears as the kernel behaviour inside the modules.
- `connect(); stop(); connect()` on a Connector. `stopInLoop()` queues `resetChannel()`, but the second `startInLoop()` was queued first and runs first. `connecting()` then fails `assert(!channel_)` (line 75), and the late reset destroys the new, registered Channel (FIXMEs at lines 117 and 139). With `Scripts <- ConnectStopConnectOnly` (defined in MCConnector.tla), TLC finds `NoAssertionFails` violated. A three-line unit test shows it, so no run is kept for it.
- In `testCacheClient()`, the first get callback of `k2` calls `setKey()` on `writeConn_`. If that connection's non-blocking connect has not completed yet, `command()` returns REDIS_ERR. The `once_flag` has already run, so `"500"` is never written. RedisCacheClient.tla reaches this state (`setLost`).
- A FLUSHALL, or an eviction from the server's tracking table, sends an invalidate push whose key array is NULL, meaning every key. `onPush` reads `element[1]->elements` as 0, so it refetches nothing and the cache stays stale. RedisCacheClient.tla's server sends per-key invalidations only. With a flush, `CacheCoherentWhenQuiet` would fail.
- `onPush`'s check (line 80) joins three conditions with `&&` where `||` is meant, so every push passes, whether or not it is an `invalidate`. `trackKeyCb` and `setKeyCb` have the same shape (`type != STRING && strcmp(str, "OK")`). These checks only matter for unexpected replies, which the server model does not send.
