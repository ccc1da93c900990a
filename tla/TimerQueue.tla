----------------------------- MODULE TimerQueue -----------------------------
(***************************************************************************)
(* The timer queue of one event loop (src/src/timer_queue.cpp): the set    *)
(* timers_ of (expiration, timer) entries ordered by expiration and then  *)
(* by the timer's address, one timerfd that wakes the loop, and the       *)
(* cancelingTimers_ set that keeps a repeating timer cancelled by a       *)
(* callback of the running batch from being rescheduled.                  *)
(*                                                                         *)
(* All of it runs on the loop thread; what interleaves with it is the     *)
(* clock, the kernel timerfd, and the user code that runs on the loop     *)
(* (other channel handlers, functors, and the timer callbacks themselves) *)
(* and adds or cancels timers.  addTimer()/cancel() from other threads    *)
(* reach the loop through queueInLoop(), whose FIFO order (EventLoop)     *)
(* makes an add run before any cancel of the TimerId it returned.         *)
(*                                                                         *)
(* Time is counted in ticks; a tick is the 100 us floor of                *)
(* howMuchTimeFromNow().  Timers are numbered; the number is the address  *)
(* that breaks ties between equal expirations.                            *)
(***************************************************************************)
EXTENDS Integers, Sequences, SequencesExt

CONSTANTS
    Timers,     \* timer identities (numbers, ordered like addresses)
    Delays,     \* delays d of runAfter(d)
    Intervals,  \* intervals i of runEvery(i), all > 0
    MaxTime     \* the clock stops here

ASSUME Timers \subseteq Nat /\ Delays \subseteq Nat
ASSUME Intervals \subseteq Nat \ {0} /\ MaxTime \in Nat

VARIABLES
    now,                     \* the clock
    armedAt,                 \* absolute expiry of the timerfd, or Disarmed
    polled,                  \* epoll reported the timerfd readable
    handling,                \* the loop is inside TimerQueue::handleRead()
    created,                 \* timers made by addTimer() so far
    inQueue,                 \* timers with an entry in timers_
    expiration,              \* Timer::expiration_
    interval,                \* Timer::interval_ (0: not repeating)
    callingExpiredTimers_,   \* TimerQueue::callingExpiredTimers_
    cancelingTimers_,        \* TimerQueue::cancelingTimers_
    batch,                   \* expiredEntries of the running handleRead()
    batchNow,                \* the `now` handleRead() sampled
    ran,                     \* callbacks of the batch already run
    cancelled                \* history: timers a cancel() found alive

vars == <<now, armedAt, polled, handling, created, inQueue, expiration,
          interval, callingExpiredTimers_, cancelingTimers_, batch, batchNow,
          ran, cancelled>>

Disarmed == -1
Time == 0..(MaxTime + Max(Delays \cup Intervals))

(* Entry order of timers_: expiration first, then the timer's address.     *)
Before(a, b) ==
    \/ expiration[a] < expiration[b]
    \/ expiration[a] = expiration[b] /\ a < b

MinExpiration == Min({expiration[t] : t \in inQueue})

(* A timer is alive while a shared_ptr holds it: its entry in timers_,   *)
(* the expiredEntries vector of the running batch, or cancelingTimers_.   *)
(* TimerId's weak_ptr locks only then.                                    *)
Alive == inQueue \cup ToSet(batch) \cup cancelingTimers_

(* The kernel has counted an expiry of the timerfd.                        *)
TimerFdReadable == armedAt # Disarmed /\ armedAt <= now

(* howMuchTimeFromNow(): the delay armed, never below the 100 us floor so  *)
(* that timerfd_settime() is never handed a zero it_value (which disarms). *)
HowMuchTimeFromNow(when) == IF when - now < 1 THEN 1 ELSE when - now

(* Mutant: without the 100 us floor a due expiration hands timerfd_settime() *)
(* a zero (or failing negative) it_value: the timerfd ends up disarmed.     *)
ResetTimerFdNoFloor(when) ==
    armedAt' = IF when <= now THEN Disarmed ELSE when

(* resetTimerFd(): timerfd_settime() arms the relative delay; re-arming    *)
(* also clears an expiry count not yet read.                               *)
ResetTimerFd(when) == armedAt' = now + HowMuchTimeFromNow(when)

-----------------------------------------------------------------------------
(* TimerQueue::addTimer() posts addTimerInLoop(), which insert()s the     *)
(* entry and re-arms the timerfd when the earliest expiration changed.     *)
AddTimerInLoop(t, when, iv) ==
    LET earliestChanged == inQueue = {} \/ when < MinExpiration
    IN  /\ t \notin created
        /\ created' = created \cup {t}
        /\ expiration' = [expiration EXCEPT ![t] = when]
        /\ interval' = [interval EXCEPT ![t] = iv]
        /\ inQueue' = inQueue \cup {t}
        /\ IF earliestChanged THEN ResetTimerFd(when) ELSE UNCHANGED armedAt
        /\ UNCHANGED <<cancelingTimers_, cancelled>>

(* runAfter(d) and runEvery(i): the expiration is now + delay.             *)
AddSomeTimer ==
    \E t \in Timers :
        \/ \E d \in Delays : AddTimerInLoop(t, now + d, 0)
        \/ \E i \in Intervals : AddTimerInLoop(t, now + i, i)

(* Mutant: cancelInLoop() forgets the cancelingTimers_ branch.              *)
CancelInLoopNoRecord(t) ==
    /\ t \in created
    /\ IF t \in Alive
       THEN /\ inQueue' = inQueue \ {t}
            /\ cancelled' = cancelled \cup {t}
       ELSE UNCHANGED <<inQueue, cancelled>>
    /\ UNCHANGED <<created, expiration, interval, armedAt, cancelingTimers_>>

(* TimerQueue::cancelInLoop(): a dead timer is ignored; a live one loses  *)
(* its entry and, while a batch runs, is remembered in cancelingTimers_.   *)
CancelInLoop(t) ==
    /\ t \in created
    /\ IF t \in Alive
       THEN /\ inQueue' = inQueue \ {t}
            /\ cancelingTimers_' = IF callingExpiredTimers_
                                   THEN cancelingTimers_ \cup {t}
                                   ELSE cancelingTimers_
            /\ cancelled' = cancelled \cup {t}
       ELSE UNCHANGED <<inQueue, cancelingTimers_, cancelled>>
    /\ UNCHANGED <<created, expiration, interval, armedAt>>

(* What user code on the loop thread may do with the timer queue.         *)
UserCode ==
    \/ AddSomeTimer
    \/ \E t \in Timers : CancelInLoop(t)
    \/ UNCHANGED <<created, inQueue, expiration, interval, armedAt,
                   cancelingTimers_, cancelled>>

-----------------------------------------------------------------------------
(* Another handler or a functor of the loop adds or cancels a timer.       *)
LoopUserCode ==
    /\ ~handling
    /\ \/ AddSomeTimer
       \/ \E t \in Timers : CancelInLoop(t)
    /\ UNCHANGED <<now, polled, handling, callingExpiredTimers_, batch,
                   batchNow, ran>>

(* epoll_wait() reports the timerfd channel readable.                      *)
PollTimerFd ==
    /\ ~handling
    /\ ~polled
    /\ TimerFdReadable
    /\ polled' = TRUE
    /\ UNCHANGED <<now, armedAt, handling, created, inQueue, expiration,
                   interval, callingExpiredTimers_, cancelingTimers_, batch,
                   batchNow, ran, cancelled>>

(* handleRead() up to the first callback: sample now, readTimerFd() (which *)
(* drains the expiry count, or fails if a re-arm cleared it), move the     *)
(* entries up to the sentinel (now, UINTPTR_MAX) out of timers_, and set   *)
(* callingExpiredTimers_.                                                  *)
HandleReadBegin ==
    LET expired == {t \in inQueue : expiration[t] <= now}
    IN  /\ polled
        /\ ~handling
        /\ polled' = FALSE
        /\ handling' = TRUE
        /\ batchNow' = now
        /\ armedAt' = IF TimerFdReadable THEN Disarmed ELSE armedAt
        /\ batch' = SetToSortSeq(expired, Before)
        /\ inQueue' = inQueue \ expired
        /\ ran' = 0
        /\ callingExpiredTimers_' = TRUE
        /\ UNCHANGED <<now, created, expiration, interval, cancelingTimers_,
                       cancelled>>

(* Mutant: the loop over expiredEntries runs one past its end.             *)
RunExpiredPastEnd ==
    /\ handling
    /\ ran <= Len(batch)
    /\ ran' = ran + 1
    /\ UserCode
    /\ UNCHANGED <<now, polled, handling, callingExpiredTimers_, batch, batchNow>>

(* The next expired timer's callback runs; it may add or cancel timers.    *)
RunExpired ==
    /\ handling
    /\ ran < Len(batch)
    /\ ran' = ran + 1
    /\ UserCode
    /\ UNCHANGED <<now, polled, handling, callingExpiredTimers_, batch, batchNow>>

(* The rest of handleRead(): clear callingExpiredTimers_, reset() (restart *)
(* every repeating expired timer not in cancelingTimers_ at batchNow plus  *)
(* its interval, then re-arm the timerfd to the earliest entry), and clear *)
(* cancelingTimers_.                                                       *)
HandleReadEnd ==
    LET restarted == {t \in ToSet(batch) :
                        interval[t] > 0 /\ t \notin cancelingTimers_}
        newExpiration == [t \in Timers |->
                            IF t \in restarted THEN batchNow + interval[t]
                                               ELSE expiration[t]]
        newQueue == inQueue \cup restarted
    IN  /\ handling
        /\ ran = Len(batch)
        /\ callingExpiredTimers_' = FALSE
        /\ expiration' = newExpiration
        /\ inQueue' = newQueue
        /\ armedAt' = IF newQueue # {}
                      THEN now + HowMuchTimeFromNow(
                               Min({newExpiration[t] : t \in newQueue}))
                      ELSE armedAt
        /\ cancelingTimers_' = {}
        /\ batch' = <<>>
        /\ ran' = 0
        /\ handling' = FALSE
        /\ UNCHANGED <<now, polled, created, interval, batchNow, cancelled>>

(* The clock advances.                                                     *)
Tick ==
    /\ now < MaxTime
    /\ now' = now + 1
    /\ UNCHANGED <<armedAt, polled, handling, created, inQueue, expiration,
                   interval, callingExpiredTimers_, cancelingTimers_, batch,
                   batchNow, ran, cancelled>>

(* The clock has reached the bound of the model and the loop is idle.      *)
TimeHorizon ==
    /\ now = MaxTime
    /\ ~handling
    /\ ~polled
    /\ ~TimerFdReadable
    /\ UNCHANGED vars

-----------------------------------------------------------------------------
(* callingExpiredTimers_ is not initialised by the constructor: before the *)
(* first handleRead() it holds whatever the allocation held.              *)
Init ==
    /\ now = 0
    /\ armedAt = Disarmed
    /\ polled = FALSE
    /\ handling = FALSE
    /\ created = {}
    /\ inQueue = {}
    /\ expiration = [t \in Timers |-> 0]
    /\ interval = [t \in Timers |-> 0]
    /\ callingExpiredTimers_ \in BOOLEAN
    /\ cancelingTimers_ = {}
    /\ batch = <<>>
    /\ batchNow = 0
    /\ ran = 0
    /\ cancelled = {}

Next ==
    \/ LoopUserCode
    \/ PollTimerFd
    \/ HandleReadBegin
    \/ RunExpired
    \/ HandleReadEnd
    \/ Tick
    \/ TimeHorizon

Spec == Init /\ [][Next]_vars

-----------------------------------------------------------------------------
TypeOK ==
    /\ now \in 0..MaxTime
    /\ armedAt \in Time \cup {Disarmed}
    /\ polled \in BOOLEAN
    /\ handling \in BOOLEAN
    /\ created \subseteq Timers
    /\ inQueue \subseteq created
    /\ expiration \in [Timers -> Time]
    /\ interval \in [Timers -> {0} \cup Intervals]
    /\ callingExpiredTimers_ \in BOOLEAN
    /\ cancelingTimers_ \subseteq created
    /\ batch \in Seq(Timers)
    /\ batchNow \in 0..MaxTime
    /\ ran \in 0..Len(batch)
    /\ cancelled \subseteq created

(* No timer is starved: outside handleRead(), while timers_ has entries,  *)
(* the timerfd is armed to expire no later than the earliest of them, or  *)
(* one tick from now when that one is already due.  Adding a timer, the   *)
(* 100 us floor, and the re-arm at the end of reset() keep it so.          *)
TimerFdCoversQueue ==
    (~handling /\ inQueue # {})
        => /\ armedAt # Disarmed
           /\ armedAt <= IF MinExpiration > now THEN MinExpiration ELSE now + 1

(* cancel() of a live timer is final: a cancelled repeating timer is never *)
(* given an entry in timers_ again, even when the cancel() comes from a   *)
(* callback of the batch the timer itself is running in.                  *)
CancelledNeverRescheduled == \A t \in cancelled : t \notin inQueue

=============================================================================
