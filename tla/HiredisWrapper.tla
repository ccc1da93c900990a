--------------------------- MODULE HiredisWrapper ---------------------------
(***************************************************************************)
(* The hiredis adapter of the example src/examples/hiredis_demo: one        *)
(* HiredisWrapper driving a redisAsyncContext from a mini_muduo Channel,    *)
(* together with the demo clients of main.cpp (ping, getThenPing, sub) as   *)
(* its connect, reply and disconnect callbacks.                             *)
(*                                                                          *)
(* The wrapper's code is translated from the source.  hiredis (not part of  *)
(* the repository) and the Redis server are the environment: the context    *)
(* is modelled by the flags and queues of async.c (hiredis 1.1) that the    *)
(* wrapper observes -- CONNECTED, DISCONNECTING, the reply callback FIFO,   *)
(* the subscription callbacks, the output buffer -- and by what its         *)
(* handlers do: HandleWrite completes the connect and flushes the output    *)
(* buffer, HandleRead reads replies or the EOF, a disconnect frees the      *)
(* context after calling the pending callbacks with a NULL reply and, only  *)
(* when the context was CONNECTED, the disconnect callback.                 *)
(*                                                                          *)
(* The wrapper's variables are also seen as one record W, so that a chain   *)
(* of calls made inside one callback is a composition of operators on W.   *)
(***************************************************************************)
EXTENDS Naturals, Sequences, SequencesExt

CONSTANTS
    Clients,          \* the demo clients of main.cpp that may be modelled
    ConnectMayFail,   \* the non-blocking connect may complete with an error
    ServerMayClose,   \* the server may close the connection (EOF)
    MaxMessages       \* messages the server publishes on the subscribed channels

ASSUME Clients \subseteq {"ping", "getThenPing", "sub"}
ASSUME ConnectMayFail \in BOOLEAN /\ ServerMayClose \in BOOLEAN
ASSUME MaxMessages \in Nat

Channels == {"test1", "test2"}          \* the channels sub subscribes to
Commands == {"PING", "GET"} \cup Channels \* a SUBSCRIBE is named by its channel
ChannelStates == {"NEW", "ADDED", "IGNORED"}
Crashes == {"none", "pingCallback", "handleRead", "handleWrite", "redisAsyncFree"}

VARIABLES
    client,        \* which demo client this wrapper is
    context_,      \* the wrapper's redisAsyncContext* : "null" or "set"
    hstate,        \* the context: "connecting", "connected" or "freed"
    disconnecting, \* REDIS_DISCONNECTING
    obuf,          \* commands formatted but not yet written
    replies,       \* ac->replies: the reply callbacks, in command order
    subs,          \* ac->sub.channels: the channels with a callback
    channel_,      \* the wrapper's unique_ptr<Channel> is non-null
    reading, writing, chState,  \* the Channel's interest and EPoller index
    resetQueued,   \* the resetChannel() functor is in the loop's queue
    subCmdCbs_,    \* the wrapper's map of subscription callbacks
    count,         \* sub's `static int count`
    quit_,         \* EventLoop::quit_
    discRequested, \* the client called disconnect() on a connected wrapper
    failed,        \* assertions that failed
    crashed,       \* the null or dangling dereference that killed the process
    events,        \* the events of the current Channel::handleEvents dispatch
    rbuf,          \* replies read by redisBufferRead, not yet processed
    processing,    \* redisProcessCallbacks is running
    looping,       \* EventLoop::loop() has not returned
    alive,         \* the wrapper object has not been destroyed
    toServer,      \* commands written, not yet answered
    inbox,         \* server replies and messages not yet read
    eof,           \* the server closed the connection
    serverSubs,    \* channels the server has confirmed
    published      \* messages published so far

wvars == <<context_, hstate, disconnecting, obuf, replies, subs, channel_,
           reading, writing, chState, resetQueued, subCmdCbs_, count, quit_,
           discRequested, failed, crashed>>
vars == <<client, wvars, events, rbuf, processing, looping, alive,
          toServer, inbox, eof, serverSubs, published>>

(* The wrapper and its context as one record.                              *)
W == [ctx |-> context_, hs |-> hstate, disc |-> disconnecting, obuf |-> obuf,
      replies |-> replies, subs |-> subs, chan |-> channel_, rd |-> reading,
      wr |-> writing, ch |-> chState, reset |-> resetQueued,
      cbs |-> subCmdCbs_, count |-> count, quit |-> quit_,
      req |-> discRequested, failed |-> failed, crashed |-> crashed]

SetW(w) ==
    /\ context_' = w.ctx /\ hstate' = w.hs /\ disconnecting' = w.disc
    /\ obuf' = w.obuf /\ replies' = w.replies /\ subs' = w.subs
    /\ channel_' = w.chan /\ reading' = w.rd /\ writing' = w.wr
    /\ chState' = w.ch /\ resetQueued' = w.reset /\ subCmdCbs_' = w.cbs
    /\ count' = w.count /\ quit_' = w.quit /\ discRequested' = w.req
    /\ failed' = w.failed /\ crashed' = w.crashed

(* EPoller::updateChannel: a NEW or IGNORED channel is added to the epoll  *)
(* set; an ADDED one with no interest left is deleted (IGNORED).           *)
UpdatedState(s, rd, wr) ==
    CASE s \in {"NEW", "IGNORED"} -> "ADDED"
      [] ~rd /\ ~wr               -> "IGNORED"
      [] OTHER                    -> s

(* Channel::update() after an enable/disable has set the interest.         *)
Update(w, rd, wr) == [w EXCEPT !.rd = rd, !.wr = wr, !.ch = UpdatedState(w.ch, rd, wr)]

(* EPoller::removeChannel asserts the channel is ADDED or IGNORED.         *)
RemoveFails(s) == IF s \in {"ADDED", "IGNORED"} THEN {} ELSE {"removeChannel"}

(* HiredisWrapper::connected().                                            *)
connected(w) == w.chan /\ w.ctx = "set" /\ w.hs = "connected"

(* redisvAsyncCommand: refused (REDIS_ERR) once DISCONNECTING; otherwise   *)
(* the command is appended to the output buffer, its callback to           *)
(* ac->replies (a SUBSCRIBE's to ac->sub.channels), and the adapter's      *)
(* addWrite hook runs: channel_->enableWriting().                          *)
redisvAsyncCommand(w, c) ==
    IF w.disc THEN w
    ELSE LET w1 == [w EXCEPT !.obuf = Append(@, c),
                             !.replies = IF c \in Channels THEN @ ELSE Append(@, c),
                             !.subs = IF c \in Channels THEN @ \cup {c} ELSE @]
         IN  Update(w1, w1.rd, TRUE)

(* command() and commandWithPointerToCallback(): CHECK_CONNECTED returns   *)
(* REDIS_ERR; the demo's callbacks and command strings pass the other      *)
(* checks.                                                                 *)
command(w, c) == IF connected(w) THEN redisvAsyncCommand(w, c) ELSE w

ping(w) == command(w, "PING")

getKey(w) == command(w, "GET")

(* subscribe(): a channel already in subCmdCbs_ is refused; otherwise its  *)
(* callback is stored, and only then is the connection checked.            *)
subscribe(w, c) ==
    IF c \in w.cbs THEN w ELSE command([w EXCEPT !.cbs = @ \cup {c}], c)

(* disconnect(): redisAsyncDisconnect on a connected context.  The demo    *)
(* calls it only from inside a hiredis callback (REDIS_IN_CALLBACK), so    *)
(* hiredis just sets DISCONNECTING and frees the context later.            *)
disconnect(w) ==
    IF connected(w) THEN [w EXCEPT !.disc = TRUE, !.req = TRUE] ELSE w

(* The connect callbacks of main.cpp's three clients: ping() then          *)
(* disconnect(); getKey("k1"); subscribe to test1 and test2.               *)
ConnectCallback(w) ==
    CASE client = "ping"        -> disconnect(ping(w))
      [] client = "getThenPing" -> getKey(w)
      [] OTHER                  -> subscribe(subscribe(w, "test1"), "test2")

(* Mutant: one counter for the callbacks of both channels.               *)
ReplyCallbackCountingAll(w, m) ==
    CASE m = "GET"      -> disconnect(ping(w))
      [] m \in Channels -> IF w.count > 2 THEN disconnect([w EXCEPT !.count = @ + 1])
                                          ELSE [w EXCEPT !.count = @ + 1]
      [] OTHER          -> w

(* The callback of a non-NULL reply m: pingCallback logs; getKey's wrapper *)
(* passes a NIL or STRING reply to getThenPing's callback, which pings and *)
(* disconnects; test1's callback disconnects when `count++ > 2`; test2's   *)
(* only logs.                                                              *)
ReplyCallback(w, m) ==
    CASE m = "GET"   -> disconnect(ping(w))
      [] m = "test1" -> IF w.count > 2 THEN disconnect([w EXCEPT !.count = @ + 1])
                                       ELSE [w EXCEPT !.count = @ + 1]
      [] OTHER       -> w

(* ~Channel asserts !addedToLoop_ (only remove() clears it, leaving the    *)
(* channel NEW).  Its other assert, !handlingEvents_, cannot fail:         *)
(* handleEvents() sets handlingEvents_ to false on entry as well as exit.  *)
ChannelDtorFails(w) ==
    IF w.chan /\ w.ch # "NEW" THEN {"~Channel"} ELSE {}

(* Mutant: the channel is destroyed at once, inside its own dispatch.     *)
removeAndResetChannelNow(w) ==
    LET w1 == [Update(w, FALSE, FALSE) EXCEPT !.ch = "NEW"]
    IN  [w1 EXCEPT !.failed = @ \cup RemoveFails(Update(w, FALSE, FALSE).ch),
                   !.chan = FALSE]

(* Mutant: the channel is removed but resetChannel() is never queued.    *)
removeAndResetChannelNoReset(w) ==
    LET w1 == Update(w, FALSE, FALSE)
    IN  [w1 EXCEPT !.failed = @ \cup RemoveFails(w1.ch), !.ch = "NEW"]

(* removeAndResetChannel(): disableAll(), remove(), and queue              *)
(* resetChannel() on the loop instead of destroying the channel that is    *)
(* dispatching the current event.                                          *)
removeAndResetChannel(w) ==
    LET w1 == Update(w, FALSE, FALSE)
    IN  [w1 EXCEPT !.failed = @ \cup RemoveFails(w1.ch), !.ch = "NEW", !.reset = TRUE]

(* Mutant: the channel is left registered when the context goes away.    *)
onDisconnectKeepChannel(w) == [w EXCEPT !.quit = @ \/ client = "sub", !.ctx = "null"]

(* onDisconnect(): logConnection, removeAndResetChannel(), the client's    *)
(* disconnect callback (sub's quits the loop), then context_ = nullptr.    *)
onDisconnect(w) ==
    LET w1 == removeAndResetChannel(w)
    IN  [w1 EXCEPT !.quit = @ \/ client = "sub", !.ctx = "null"]

(* __redisAsyncFree: every pending callback is called with a NULL reply,   *)
(* in order: getKey's and subscribe's wrappers return, pingCallback        *)
(* dereferences reply->str.  The disconnect callback runs only when the    *)
(* context was CONNECTED; then the context and its fd are freed.           *)
redisAsyncFree(w) ==
    IF "PING" \in ToSet(w.replies) THEN [w EXCEPT !.crashed = "pingCallback"]
    ELSE LET w1 == [w EXCEPT !.replies = <<>>, !.obuf = <<>>, !.subs = {}]
             w2 == IF w.hs = "connected" THEN onDisconnect(w1) ELSE w1
         IN  [w2 EXCEPT !.hs = "freed"]

(* The end of redisProcessCallbacks: with no reply left, a DISCONNECTING   *)
(* context whose output buffer and reply queue are empty is freed.         *)
DisconnectCheck(w) ==
    IF w.disc /\ w.obuf = <<>> /\ w.replies = <<>> THEN redisAsyncFree(w) ELSE w

(* redisBufferWrite wrote everything: the delWrite hook, then addRead.     *)
BufferWritten(w) ==
    LET w1 == Update([w EXCEPT !.obuf = <<>>], w.rd, FALSE)
    IN  Update(w1, TRUE, FALSE)

(***************************************************************************)
(* Init is the state after main() has called connect(): redisAsyncConnect  *)
(* started a non-blocking connect, setChannel() made the Channel, and      *)
(* redisAsyncSetConnectCallback called the addWrite hook.                  *)
(***************************************************************************)
Init ==
    /\ client \in Clients
    /\ context_ = "set" /\ hstate = "connecting" /\ disconnecting = FALSE
    /\ obuf = <<>> /\ replies = <<>> /\ subs = {}
    /\ channel_ = TRUE /\ reading = FALSE /\ writing = TRUE /\ chState = "ADDED"
    /\ resetQueued = FALSE /\ subCmdCbs_ = {} /\ count = 0 /\ quit_ = FALSE
    /\ discRequested = FALSE /\ failed = {} /\ crashed = "none"
    /\ events = {} /\ rbuf = <<>> /\ processing = FALSE
    /\ looping = TRUE /\ alive = TRUE
    /\ toServer = <<>> /\ inbox = <<>> /\ eof = FALSE
    /\ serverSubs = {} /\ published = 0

Live == crashed = "none"

(* EventLoop::loop(): epoll_wait returns the ready events of the channel's *)
(* fd that it is interested in.  Functors run before the next poll.        *)
Poll ==
    /\ Live /\ looping /\ ~quit_ /\ events = {} /\ ~resetQueued
    /\ channel_ /\ chState = "ADDED" /\ hstate \in {"connecting", "connected"}
    /\ LET ev == (IF reading /\ hstate = "connected" /\ (inbox # <<>> \/ eof)
                  THEN {"IN"} ELSE {})
                 \cup (IF writing THEN {"OUT"} ELSE {})
       IN  /\ ev # {}
           /\ events' = ev
    /\ UNCHANGED <<client, wvars, rbuf, processing, looping, alive,
                   toServer, inbox, eof, serverSubs, published>>

(* Channel::handleEvents runs the read callback first: handleRead() ->     *)
(* redisAsyncHandleRead.  redisBufferRead either reads the EOF, and the    *)
(* context is freed, or reads the replies and calls addRead.               *)
HandleRead ==
    /\ Live /\ "IN" \in events /\ ~processing
    /\ IF inbox = <<>>
       THEN /\ SetW(redisAsyncFree(W))
            /\ events' = events \ {"IN"}
            /\ UNCHANGED <<rbuf, processing, inbox>>
       ELSE /\ SetW(Update(W, TRUE, writing))
            /\ rbuf' = inbox /\ inbox' = <<>> /\ processing' = TRUE
            /\ UNCHANGED events
    /\ UNCHANGED <<client, looping, alive, toServer, eof, serverSubs, published>>

(* redisProcessCallbacks, one reply: a message or SUBSCRIBE reply goes to  *)
(* its channel's callback, any other reply to the head of ac->replies.     *)
ProcessReply ==
    /\ Live /\ processing /\ rbuf # <<>>
    /\ LET m == Head(rbuf)
       IN  SetW(ReplyCallback(IF m \in Channels THEN W
                              ELSE [W EXCEPT !.replies = Tail(@)], m))
    /\ rbuf' = Tail(rbuf)
    /\ UNCHANGED <<client, events, processing, looping, alive,
                   toServer, inbox, eof, serverSubs, published>>

ProcessDone ==
    /\ Live /\ processing /\ rbuf = <<>>
    /\ SetW(DisconnectCheck(W))
    /\ processing' = FALSE
    /\ events' = events \ {"IN"}
    /\ UNCHANGED <<client, rbuf, looping, alive, toServer, inbox, eof,
                   serverSubs, published>>

(* The write callback, unless the read callback's disconnect ended the     *)
(* process: handleWrite() -> redisAsyncHandleWrite(context_), which does   *)
(* not survive a null or freed context.  A connecting context completes    *)
(* its connect: on failure onConnect logs and returns, and hiredis frees   *)
(* the context; on success the client's connect callback runs, and a      *)
(* DISCONNECTING context is disconnected (now, if no reply is pending)     *)
(* instead of written.  Otherwise the output buffer is written.            *)
HandleWrite ==
    /\ Live /\ "OUT" \in events /\ "IN" \notin events
    /\ events' = {}
    /\ CASE context_ = "null" \/ hstate = "freed" ->
              /\ SetW([W EXCEPT !.crashed = "handleWrite"])
              /\ UNCHANGED toServer
         [] hstate = "connecting" ->
              \E ok \in IF ConnectMayFail THEN BOOLEAN ELSE {TRUE} :
                 LET w1 == ConnectCallback([W EXCEPT !.hs = "connected"])
                 IN  CASE ~ok     -> SetW(redisAsyncFree(W)) /\ UNCHANGED toServer
                       [] w1.disc -> /\ SetW(IF w1.replies = <<>> THEN redisAsyncFree(w1)
                                                                   ELSE w1)
                                     /\ UNCHANGED toServer
                       [] OTHER   -> /\ SetW(BufferWritten(w1))
                                     /\ toServer' = toServer \o w1.obuf
         [] OTHER ->
              /\ SetW(BufferWritten(W))
              /\ toServer' = toServer \o obuf
    /\ UNCHANGED <<client, rbuf, processing, looping, alive, inbox, eof,
                   serverSubs, published>>

(* The queued functor: resetChannel() destroys the Channel.                *)
RunReset ==
    /\ Live /\ resetQueued /\ events = {}
    /\ channel_' = FALSE /\ resetQueued' = FALSE
    /\ failed' = failed \cup ChannelDtorFails(W)
    /\ UNCHANGED <<client, context_, hstate, disconnecting, obuf, replies,
                   subs, reading, writing, chState, subCmdCbs_, count, quit_,
                   discRequested, crashed, events, rbuf, processing, looping,
                   alive, toServer, inbox, eof, serverSubs, published>>

(* loop() returns once quit_ is set and the functors have run.             *)
LoopExit ==
    /\ Live /\ looping /\ quit_ /\ events = {} /\ ~resetQueued
    /\ looping' = FALSE
    /\ UNCHANGED <<client, wvars, events, rbuf, processing, alive, toServer,
                   inbox, eof, serverSubs, published>>

(* main() returns and ~HiredisWrapper runs: it asserts the channel has no  *)
(* interest, then redisAsyncFree(context_) -- a no-op on nullptr, a double *)
(* free on a context hiredis already freed; then channel_ is destroyed.    *)
Destroy ==
    /\ Live /\ ~looping /\ alive
    /\ LET w1 == [W EXCEPT !.failed = @ \cup (IF W.chan /\ (reading \/ writing)
                                              THEN {"~HiredisWrapper"} ELSE {})]
           w2 == CASE context_ = "null" -> w1
                   [] hstate = "freed"  -> [w1 EXCEPT !.crashed = "redisAsyncFree"]
                   [] OTHER             -> redisAsyncFree(w1)
       IN  SetW([w2 EXCEPT !.chan = FALSE, !.failed = @ \cup ChannelDtorFails(w2)])
    /\ alive' = FALSE
    /\ UNCHANGED <<client, events, rbuf, processing, looping, toServer,
                   inbox, eof, serverSubs, published>>

(***************************************************************************)
(* The Redis server answers commands in order (a SUBSCRIBE with its        *)
(* confirmation), publishes on confirmed channels, and may close.          *)
(***************************************************************************)
ServerAnswer ==
    /\ hstate = "connected" /\ ~eof /\ toServer # <<>>
    /\ inbox' = Append(inbox, Head(toServer))
    /\ toServer' = Tail(toServer)
    /\ serverSubs' = serverSubs \cup ({Head(toServer)} \cap Channels)
    /\ UNCHANGED <<client, wvars, events, rbuf, processing, looping, alive,
                   eof, published>>

ServerPublish ==
    /\ hstate = "connected" /\ ~eof /\ published < MaxMessages
    /\ \E c \in serverSubs : inbox' = Append(inbox, c)
    /\ published' = published + 1
    /\ UNCHANGED <<client, wvars, events, rbuf, processing, looping, alive,
                   toServer, eof, serverSubs>>

ServerClose ==
    /\ ServerMayClose /\ hstate = "connected" /\ ~eof
    /\ eof' = TRUE
    /\ UNCHANGED <<client, wvars, events, rbuf, processing, looping, alive,
                   toServer, inbox, serverSubs, published>>

Loop == Poll \/ HandleRead \/ ProcessReply \/ ProcessDone \/ HandleWrite
        \/ RunReset \/ LoopExit

Next == Loop \/ Destroy \/ ServerAnswer \/ ServerPublish \/ ServerClose

(* The loop thread runs whatever it can; the server answers every command  *)
(* it has read.  Publishing, closing and main()'s return are not forced.   *)
Spec == Init /\ [][Next]_vars /\ WF_vars(Loop) /\ WF_vars(ServerAnswer)

-----------------------------------------------------------------------------
TypeOK ==
    /\ client \in Clients
    /\ context_ \in {"null", "set"}
    /\ hstate \in {"connecting", "connected", "freed"}
    /\ disconnecting \in BOOLEAN /\ channel_ \in BOOLEAN
    /\ obuf \in Seq(Commands) /\ replies \in Seq({"PING", "GET"})
    /\ subs \subseteq Channels /\ subCmdCbs_ \subseteq Channels
    /\ reading \in BOOLEAN /\ writing \in BOOLEAN /\ chState \in ChannelStates
    /\ resetQueued \in BOOLEAN /\ quit_ \in BOOLEAN
    /\ discRequested \in BOOLEAN /\ failed \subseteq STRING /\ crashed \in Crashes
    /\ events \subseteq {"IN", "OUT"} /\ rbuf \in Seq(Commands)
    /\ processing \in BOOLEAN /\ looping \in BOOLEAN /\ alive \in BOOLEAN
    /\ toServer \in Seq(Commands) /\ inbox \in Seq(Commands)
    /\ eof \in BOOLEAN /\ serverSubs \subseteq Channels
    /\ published \in 0..MaxMessages
    \* sub's count: test1's confirmation and the messages published on it
    /\ count \in 0..(MaxMessages + 1)

(* No assertion of the wrapper, the Channel or the EPoller fails: not      *)
(* removeChannel's, not ~Channel's (the channel is reset only after it was *)
(* removed and outside its own dispatch), not ~HiredisWrapper's (the       *)
(* channel has no interest left when main() returns).                      *)
NoAssertionFails == failed = {}

(* No step of a Channel's dispatch destroys the Channel: onDisconnect,    *)
(* which runs inside the channel's own handleEvents, only queues the       *)
(* reset.  The code has no assert for this (handlingEvents_ is never set), *)
(* and a channel destroyed here would be read again by the rest of         *)
(* handleEvents: the EPOLLOUT test and the final store.                    *)
ChannelOutlivesDispatch == [][events # {} => channel_']_vars

(* A disconnect() the client asked for completes: the context is freed    *)
(* and the queued resetChannel() destroys the channel -- unless the        *)
(* process crashed on the way.                                             *)
DisconnectCompletes ==
    discRequested ~> ((hstate = "freed" /\ ~channel_) \/ crashed # "none")

====
