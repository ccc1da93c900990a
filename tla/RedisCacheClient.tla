--------------------------- MODULE RedisCacheClient ---------------------------
(* RedisCacheClient of the hiredis_demo example, as main.cpp's             *)
(* testCacheClient() drives it: start(), then trackKey() of two keys, the  *)
(* first of whose get callback sets that key once through the second       *)
(* connection.  Each HiredisWrapper is abstracted to its connection state   *)
(* and the two ordered byte streams of its socket (HiredisWrapper.tla      *)
(* checks the wrapper itself); the Redis server with CLIENT TRACKING in    *)
(* its default mode, and another client writing keys, are the environment. *)
(* A key's value is its version: the number of writes the server applied.  *)
EXTENDS Integers, Sequences, FiniteSets

CONSTANTS
    Keys,           \* the keys main.cpp tracks
    SetKey,         \* the key whose get callback calls setKey() once
    MaxExtWrites,   \* writes made by another client of the server
    ConnectMayFail  \* a non-blocking connect may complete with an error

ASSUME SetKey \in Keys /\ MaxExtWrites \in Nat /\ ConnectMayFail \in BOOLEAN

Conns == {"cache", "write"}     \* cacheConn_ and writeConn_
NoKey == "none"
None == -1
MaxVer == MaxExtWrites + 1      \* the other client's writes and main's set
Cmd(op, k) == [op |-> op, key |-> k]
Reply(cb, k, v) == [kind |-> "reply", cb |-> cb, key |-> k, ver |-> v]
Push(k) == [kind |-> "push", cb |-> "none", key |-> k, ver |-> 0]

VARIABLES
    conn,             \* per wrapper: "connecting", "connected" (REDIS_CONNECTED), "failed"
    toServer,         \* per wrapper: commands written to the socket, in order
    toClient,         \* per wrapper: replies and pushes the server sent, in order
    inited_,          \* RedisCacheClient::inited_
    pushCb,           \* setAsyncPushCallBack() has installed onPush
    regTrackTimers_,  \* keys whose runEvery(100ms) timer is still live
    cached,           \* per key: the version last passed to the user's get callback
    setOnce,          \* main's static once_flag setOnce has run
    setLost,          \* main's setKey() was refused (writeConn_ not connected)
    ver,              \* the server: each key's version
    trackingOn,       \* the server: CLIENT TRACKING ON for cacheConn_
    tracking,         \* the server: keys cacheConn_ read since their last invalidation
    extWrites         \* writes made so far by the other client

vars == <<conn, toServer, toClient, inited_, pushCb, regTrackTimers_, cached,
          setOnce, setLost, ver, trackingOn, tracking, extWrites>>
clientVars == <<inited_, pushCb, regTrackTimers_, cached, setOnce, setLost>>
serverVars == <<ver, trackingOn, tracking, extWrites>>

-----------------------------------------------------------------------------
(* HiredisWrapper::connected(): the context has REDIS_CONNECTED.           *)
connected(c) == conn[c] = "connected"

(* HiredisWrapper::command() and commandWithPointerToCallback(): refused   *)
(* with REDIS_ERR unless connected; otherwise hiredis queues the command   *)
(* and the write callback sends it, in order.                              *)
command(out, c, op, k) ==
    IF connected(c) THEN [out EXCEPT ![c] = Append(@, Cmd(op, k))] ELSE out

(* cacheConn_'s connect callback set by start(): command "HELLO 3"; it    *)
(* runs after hiredis has set REDIS_CONNECTED, so the command is accepted. *)
connectCb(out) == [out EXCEPT !["cache"] = Append(@, Cmd("HELLO", NoKey))]

(* onHello3(): the reply is ignored; command "CLIENT TRACKING ON".         *)
onHello3(out) == command(out, "cache", "TRACKING", NoKey)

(* Mutant: onPush() calls keyInvalidatedCb but does not GET the key again. *)
onPushNoRefetch(out, k) == out

(* onPush(): for the invalidated key (both asserts hold: every key the     *)
(* server tracks was read through getKeyCbs_), the user's                  *)
(* keyInvalidatedCb, which only logs, then GET the key again with its      *)
(* getKeyCbs_ callback.                                                    *)
onPush(out, k) == command(out, "cache", "GET", k)

(* RedisCacheClient::setKey(): HiredisWrapper::setKey() on writeConn_,    *)
(* a SET without expiry whose reply goes to setKeyCb.                      *)
setKey(out, k) == command(out, "write", "SET", k)

(* Mutant: main's get callback without its once_flag.                      *)
userGetKeyCbNoOnce(out, k) == IF k = SetKey THEN setKey(out, k) ELSE out

(* main.cpp's get callback of SetKey: the first time it runs,              *)
(* setKey(key, "500"); setOnce has run from then on whatever setKey()      *)
(* returned.                                                               *)
userGetKeyCb(out, k) == IF k = SetKey /\ ~setOnce THEN setKey(out, k) ELSE out

(* getKeyCbs_[k], made by trackKey(): a GET reply, NIL (the key does not   *)
(* exist) or a string, goes to the user's get callback; version v stands   *)
(* for either.                                                             *)
getKeyCb(k, v) ==
    /\ cached' = [cached EXCEPT ![k] = v]
    /\ toServer' = userGetKeyCb(toServer, k)
    /\ setOnce' = (setOnce \/ k = SetKey)
    /\ setLost' = (setLost \/ (k = SetKey /\ ~setOnce /\ ~connected("write")))

(* HiredisWrapper::setAsyncPushCallBack(): hiredis now hands pushes to     *)
(* asyncPushCb_.                                                           *)
setAsyncPushCallBack == pushCb' = TRUE

(* trackKeyCb of onHello3(): the "+OK" reply passes checkReply; install    *)
(* onPush as push callback, then inited_ = true under mu_ and notify_all.  *)
trackKeyCb ==
    /\ setAsyncPushCallBack
    /\ inited_' = TRUE

(* HiredisWrapper::asyncPushCallback(): a push goes to asyncPushCb_; before *)
(* setAsyncPushCallBack() hiredis has no push callback and drops it.       *)
asyncPushCallback(out, k) == IF pushCb THEN onPush(out, k) ELSE out

(* Mutant: the polling timer cancels itself even when inited_ is false.    *)
getKeyAfterInitedFuncOnce(k) ==
    /\ toServer' = IF inited_ THEN command(toServer, "cache", "GET", k) ELSE toServer
    /\ regTrackTimers_' = regTrackTimers_ \ {k}

(* trackKey()'s getKeyAfterInitedFunc, run by its runEvery timer on the    *)
(* loop: cond_.wait_for(1ms) on the loop thread, which is the only thread  *)
(* that sets inited_, returns inited_ as it is; if false, return and wait  *)
(* for the next tick; otherwise GET the key and cancel the timer.          *)
getKeyAfterInitedFunc(k) ==
    IF inited_
    THEN /\ toServer' = command(toServer, "cache", "GET", k)
         /\ regTrackTimers_' = regTrackTimers_ \ {k}
    ELSE UNCHANGED <<toServer, regTrackTimers_>>

(* start(): both wrappers' connect() began a non-blocking connect (the    *)
(* synchronous failure of redisAsyncConnect is not modelled); the connect  *)
(* and disconnect callbacks are set, and main sets no disconnectCb_.       *)
start == conn = [c \in Conns |-> "connecting"]

-----------------------------------------------------------------------------
(* After testCacheClient(): start() has begun both non-blocking connects   *)
(* and set cacheConn_'s callbacks; trackKey() has registered both keys'    *)
(* callbacks and started their timers.  The server holds version 0.       *)
Init ==
    /\ start
    /\ toServer = [c \in Conns |-> <<>>]
    /\ toClient = [c \in Conns |-> <<>>]
    /\ inited_ = FALSE
    /\ pushCb = FALSE
    /\ regTrackTimers_ = Keys
    /\ cached = [k \in Keys |-> None]
    /\ setOnce = FALSE
    /\ setLost = FALSE
    /\ ver = [k \in Keys |-> 0]
    /\ trackingOn = FALSE
    /\ tracking = {}
    /\ extWrites = 0

(* The connect completes (hiredis's first write event): onConnect(), and   *)
(* for cacheConn_ the connect callback.  A failed connect is only logged.  *)
Connect(c) ==
    /\ conn[c] = "connecting"
    /\ \E ok \in IF ConnectMayFail THEN BOOLEAN ELSE {TRUE} :
          IF ok
          THEN /\ conn' = [conn EXCEPT ![c] = "connected"]
               /\ toServer' = IF c = "cache"
                              THEN connectCb(toServer)
                              ELSE toServer
          ELSE /\ conn' = [conn EXCEPT ![c] = "failed"]
               /\ UNCHANGED toServer
    /\ UNCHANGED <<toClient, clientVars, serverVars>>

(* The server invalidates key k for cacheConn_ if it read k since the last *)
(* invalidation (default tracking mode), and forgets it.                   *)
Invalidate(k) ==
    /\ toClient' = [toClient EXCEPT !["cache"] =
                      IF k \in tracking THEN Append(@, Push(k)) ELSE @]
    /\ tracking' = tracking \ {k}

Written(c, r) == [toClient EXCEPT ![c] = Append(@, r)]

(* The server executes the next command of connection c.                   *)
ServerExec(c) ==
    /\ toServer[c] # <<>>
    /\ LET m == Head(toServer[c]) IN
       /\ toServer' = [toServer EXCEPT ![c] = Tail(@)]
       /\ CASE m.op = "HELLO" ->
                 /\ toClient' = Written(c, Reply("hello", NoKey, 0))
                 /\ UNCHANGED <<ver, trackingOn, tracking>>
            [] m.op = "TRACKING" ->
                 /\ toClient' = Written(c, Reply("track", NoKey, 0))
                 /\ trackingOn' = TRUE
                 /\ UNCHANGED <<ver, tracking>>
            [] m.op = "GET" ->
                 /\ toClient' = Written(c, Reply("get", m.key, ver[m.key]))
                 /\ tracking' = IF trackingOn THEN tracking \cup {m.key} ELSE tracking
                 /\ UNCHANGED <<ver, trackingOn>>
            [] m.op = "SET" ->
                 /\ ver' = [ver EXCEPT ![m.key] = @ + 1]
                 /\ toClient' = [Written(c, Reply("set", m.key, 0)) EXCEPT !["cache"] =
                                   IF m.key \in tracking THEN Append(@, Push(m.key)) ELSE @]
                 /\ tracking' = tracking \ {m.key}
                 /\ UNCHANGED trackingOn
    /\ UNCHANGED <<conn, clientVars, extWrites>>

(* Another client of the server writes key k.                              *)
ExtWrite(k) ==
    /\ extWrites < MaxExtWrites
    /\ extWrites' = extWrites + 1
    /\ ver' = [ver EXCEPT ![k] = @ + 1]
    /\ Invalidate(k)
    /\ UNCHANGED <<conn, toServer, clientVars, trackingOn>>

(* cacheConn_'s handleRead(): hiredis hands the next reply to the command *)
(* callback it was sent with (commandCallback, or the pointer callback of  *)
(* commandWithPointerToCallback), or a push to asyncPushCallback.  The     *)
(* HELLO reply runs onHello3(), the CLIENT TRACKING reply trackKeyCb, a    *)
(* GET reply the key's getKeyCbs_ entry.                                   *)
CacheRead ==
    /\ toClient["cache"] # <<>>
    /\ LET m == Head(toClient["cache"]) IN
       /\ toClient' = [toClient EXCEPT !["cache"] = Tail(@)]
       /\ CASE m.kind = "push" ->
                 /\ toServer' = asyncPushCallback(toServer, m.key)
                 /\ UNCHANGED clientVars
            [] m.cb = "hello" ->
                 /\ toServer' = onHello3(toServer)
                 /\ UNCHANGED clientVars
            [] m.cb = "track" ->
                 /\ trackKeyCb
                 /\ UNCHANGED <<toServer, regTrackTimers_, cached, setOnce, setLost>>
            [] m.cb = "get" ->
                 /\ getKeyCb(m.key, m.ver)
                 /\ UNCHANGED <<inited_, pushCb, regTrackTimers_>>
    /\ UNCHANGED <<conn, serverVars>>

(* writeConn_'s handleRead(): the SET reply reaches HiredisWrapper's       *)
(* setKeyCb, then RedisCacheClient::setKey()'s callback, which logs; main   *)
(* passed no SetCompleteCallback.                                          *)
WriteRead ==
    /\ toClient["write"] # <<>>
    /\ toClient' = [toClient EXCEPT !["write"] = Tail(@)]
    /\ UNCHANGED <<conn, toServer, clientVars, serverVars>>

(* A live runEvery timer of key k expires and the loop runs it.            *)
TimerFire(k) ==
    /\ k \in regTrackTimers_
    /\ getKeyAfterInitedFunc(k)
    /\ UNCHANGED <<conn, toClient, inited_, pushCb, cached, setOnce, setLost, serverVars>>

Next ==
    \/ \E c \in Conns : Connect(c) \/ ServerExec(c)
    \/ \E k \in Keys : ExtWrite(k) \/ TimerFire(k)
    \/ CacheRead \/ WriteRead

(* The kernel completes connects, the server answers, the loop reads its   *)
(* sockets and timers keep expiring; the other client may stop writing.    *)
Fairness ==
    /\ \A c \in Conns : WF_vars(Connect(c)) /\ WF_vars(ServerExec(c))
    /\ WF_vars(CacheRead) /\ WF_vars(WriteRead)
    /\ \A k \in Keys : WF_vars(TimerFire(k))

Spec == Init /\ [][Next]_vars /\ Fairness

-----------------------------------------------------------------------------
Msgs == [kind : {"reply", "push"}, cb : {"hello", "track", "get", "set", "none"},
         key : Keys \cup {NoKey}, ver : 0..MaxVer]

TypeOK ==
    /\ conn \in [Conns -> {"connecting", "connected", "failed"}]
    /\ toServer \in [Conns -> Seq([op : {"HELLO", "TRACKING", "GET", "SET"},
                                   key : Keys \cup {NoKey}])]
    /\ toClient \in [Conns -> Seq(Msgs)]
    /\ inited_ \in BOOLEAN /\ pushCb \in BOOLEAN /\ setOnce \in BOOLEAN /\ setLost \in BOOLEAN
    /\ regTrackTimers_ \subseteq Keys
    /\ cached \in [Keys -> {None} \cup 0..MaxVer]
    /\ ver \in [Keys -> 0..MaxVer]
    /\ trackingOn \in BOOLEAN /\ tracking \subseteq Keys
    /\ extWrites \in 0..MaxExtWrites

(* Whenever nothing is in flight on either connection, every key the      *)
(* user's get callback has seen holds the server's current value: onPush() *)
(* refetches each key the server invalidated, so a write by either client  *)
(* made after cacheConn_ read a key is never left unreported.             *)
Quiet == \A c \in Conns : toServer[c] = <<>> /\ toClient[c] = <<>>

CacheCoherentWhenQuiet ==
    Quiet => \A k \in Keys : cached[k] \in {None, ver[k]}

(* Each tracked key is fetched and, after every write, refetched: the      *)
(* runEvery timer keeps polling until trackKeyCb has set inited_, and every *)
(* invalidation brings a GET whose reply reaches the user's callback.      *)
AlwaysEventuallyFresh ==
    \A k \in Keys : []<>(cached[k] = ver[k])

====
