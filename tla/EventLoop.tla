----------------------------- MODULE EventLoop -----------------------------
(***************************************************************************)
(* The reactor of mini_muduo (src/src/event_loop.cpp): one loop thread     *)
(* that polls, dispatches the ready channels and then runs the batch of    *)
(* pending functors, and other threads that post functors with            *)
(* queueInLoop() and stop the loop with quit().  The cross-thread queue is *)
(* guarded by a mutex; an eventfd (the wakeup channel) interrupts poll.   *)
(*                                                                         *)
(* The channels besides the wakeup channel are abstracted to one "io"     *)
(* channel whose handler may post a functor or call quit() on the loop    *)
(* thread.  A functor is a record [src, n]: who posted it and its number. *)
(***************************************************************************)
EXTENDS Naturals, Sequences

CONSTANTS
    Threads,       \* threads other than the loop thread
    LoopThread,    \* the loop's own thread (a model value)
    MaxPosts,      \* functors each other thread posts
    MaxLoopTasks,  \* functors the loop thread posts from handlers/functors
    MaxIoEvents    \* readiness events of the io channel

ASSUME LoopThread \notin Threads
ASSUME MaxPosts \in Nat /\ MaxLoopTasks \in Nat /\ MaxIoEvents \in Nat

VARIABLES
    loopPc,                  \* where the loop thread is in loop()
    quit_,                   \* EventLoop::quit_ (atomic)
    callingPendingFunctors_, \* EventLoop::callingPendingFunctors_
    pendingFunctors_,        \* EventLoop::pendingFunctors_ (under mu_)
    functors,                \* local batch swapped out in callPendingFunctors
    activeChannels,          \* channels returned by the last poll
    eventFd,                 \* the wakeup eventfd counter is non-zero
    ioReady,                 \* the io channel's fd is readable
    ioEvents,                \* io readiness events delivered so far
    threadPc,                \* per other thread: "idle" or owes a "wake"
    posted                   \* functors posted so far, per poster

vars == <<loopPc, quit_, callingPendingFunctors_, pendingFunctors_, functors,
          activeChannels, eventFd, ioReady, ioEvents, threadPc, posted>>

Posters == Threads \cup {LoopThread}
Task == [src : Posters, n : 1..(IF MaxPosts > MaxLoopTasks
                                THEN MaxPosts ELSE MaxLoopTasks)]
Channels == {"wakeup", "io"}
LoopPcs == {"top", "poll", "handle", "functors", "done"}

NextTask(p) == [src |-> p, n |-> posted[p] + 1]

(* The fds poll() would report right now (level triggered).                *)
ReadyChannels ==
    {c \in Channels : (c = "wakeup" /\ eventFd) \/ (c = "io" /\ ioReady)}

-----------------------------------------------------------------------------
(* Mutant: queueInLoop() wakes only when called off the loop thread.       *)
QueueInLoopOnLoopNoWake ==
    /\ posted[LoopThread] < MaxLoopTasks
    /\ pendingFunctors_' = Append(pendingFunctors_, NextTask(LoopThread))
    /\ posted' = [posted EXCEPT ![LoopThread] = @ + 1]
    /\ UNCHANGED eventFd

(* EventLoop::queueInLoop() called on the loop thread: the push and the    *)
(* conditional wakeup happen with no other loop step in between.           *)
QueueInLoopOnLoop ==
    /\ posted[LoopThread] < MaxLoopTasks
    /\ pendingFunctors_' = Append(pendingFunctors_, NextTask(LoopThread))
    /\ posted' = [posted EXCEPT ![LoopThread] = @ + 1]
    /\ eventFd' = (eventFd \/ callingPendingFunctors_)

(* EventLoop::quit() on the loop thread: no wakeup.                         *)
QuitOnLoop ==
    /\ quit_' = TRUE
    /\ UNCHANGED <<pendingFunctors_, posted, eventFd>>

(* What a handler or a functor running on the loop thread may do.           *)
LoopCallback ==
    \/ QueueInLoopOnLoop /\ UNCHANGED quit_
    \/ QuitOnLoop
    \/ UNCHANGED <<quit_, pendingFunctors_, posted, eventFd>>

-----------------------------------------------------------------------------
(* Top of the while (!quit_) loop in EventLoop::loop().                    *)
LoopTop ==
    /\ loopPc = "top"
    /\ loopPc' = IF quit_ THEN "done" ELSE "poll"
    /\ UNCHANGED <<quit_, callingPendingFunctors_, pendingFunctors_, functors,
                   activeChannels, eventFd, ioReady, ioEvents, threadPc, posted>>

(* EPoller::poll() returns the ready channels without waiting.             *)
Poll ==
    /\ loopPc = "poll"
    /\ ReadyChannels # {}
    /\ activeChannels' = ReadyChannels
    /\ loopPc' = "handle"
    /\ UNCHANGED <<quit_, callingPendingFunctors_, pendingFunctors_, functors,
                   eventFd, ioReady, ioEvents, threadPc, posted>>

(* EPoller::poll() returns after kDefaultPollTimeout with nothing ready.   *)
PollTimeout ==
    /\ loopPc = "poll"
    /\ ReadyChannels = {}
    /\ activeChannels' = {}
    /\ loopPc' = "handle"
    /\ UNCHANGED <<quit_, callingPendingFunctors_, pendingFunctors_, functors,
                   eventFd, ioReady, ioEvents, threadPc, posted>>

(* Channel::handleEvents of the wakeup channel: readFromEventFd() resets   *)
(* the eventfd counter to zero.                                            *)
HandleWakeup ==
    /\ loopPc = "handle"
    /\ "wakeup" \in activeChannels
    /\ activeChannels' = activeChannels \ {"wakeup"}
    /\ eventFd' = FALSE
    /\ UNCHANGED <<loopPc, quit_, callingPendingFunctors_, pendingFunctors_,
                   functors, ioReady, ioEvents, threadPc, posted>>

(* Channel::handleEvents of the io channel: the handler consumes the       *)
(* readiness and runs a user callback on the loop thread.                  *)
HandleIo ==
    /\ loopPc = "handle"
    /\ "io" \in activeChannels
    /\ activeChannels' = activeChannels \ {"io"}
    /\ ioReady' = FALSE
    /\ LoopCallback
    /\ UNCHANGED <<loopPc, callingPendingFunctors_, functors, ioEvents, threadPc>>

(* Mutant: the batch is copied out of the queue instead of swapped.        *)
SwapFunctorsCopy ==
    /\ loopPc = "handle"
    /\ activeChannels = {}
    /\ callingPendingFunctors_' = TRUE
    /\ functors' = pendingFunctors_
    /\ loopPc' = "functors"
    /\ UNCHANGED <<quit_, pendingFunctors_, activeChannels, eventFd, ioReady,
                   ioEvents, threadPc, posted>>

(* All active channels handled: go on to callPendingFunctors().  It sets   *)
(* callingPendingFunctors_ and swaps the queue out under the lock.         *)
SwapFunctors ==
    /\ loopPc = "handle"
    /\ activeChannels = {}
    /\ callingPendingFunctors_' = TRUE
    /\ functors' = pendingFunctors_
    /\ pendingFunctors_' = <<>>
    /\ loopPc' = "functors"
    /\ UNCHANGED <<quit_, activeChannels, eventFd, ioReady, ioEvents,
                   threadPc, posted>>

(* One functor of the batch runs.                                          *)
RunFunctor ==
    /\ loopPc = "functors"
    /\ functors # <<>>
    /\ functors' = Tail(functors)
    /\ LoopCallback
    /\ UNCHANGED <<loopPc, callingPendingFunctors_, activeChannels, ioReady,
                   ioEvents, threadPc>>

(* The batch is done: callingPendingFunctors_ is cleared.                  *)
EndFunctors ==
    /\ loopPc = "functors"
    /\ functors = <<>>
    /\ callingPendingFunctors_' = FALSE
    /\ loopPc' = "top"
    /\ UNCHANGED <<quit_, pendingFunctors_, functors, activeChannels, eventFd,
                   ioReady, ioEvents, threadPc, posted>>

-----------------------------------------------------------------------------
(* Mutant: the poster's bound on its own posts is off by one.              *)
PostPastBound(t) ==
    /\ threadPc[t] = "idle"
    /\ posted[t] <= MaxPosts
    /\ pendingFunctors_' = Append(pendingFunctors_, NextTask(t))
    /\ posted' = [posted EXCEPT ![t] = @ + 1]
    /\ threadPc' = [threadPc EXCEPT ![t] = "wake"]
    /\ UNCHANGED <<loopPc, quit_, callingPendingFunctors_, functors,
                   activeChannels, eventFd, ioReady, ioEvents>>

(* queueInLoop() from another thread, first half: push under mu_.          *)
Post(t) ==
    /\ threadPc[t] = "idle"
    /\ posted[t] < MaxPosts
    /\ pendingFunctors_' = Append(pendingFunctors_, NextTask(t))
    /\ posted' = [posted EXCEPT ![t] = @ + 1]
    /\ threadPc' = [threadPc EXCEPT ![t] = "wake"]
    /\ UNCHANGED <<loopPc, quit_, callingPendingFunctors_, functors,
                   activeChannels, eventFd, ioReady, ioEvents>>

(* Mutant: quit() from another thread does not wake the loop.             *)
QuitNoWake(t) ==
    /\ threadPc[t] = "idle"
    /\ ~quit_
    /\ quit_' = TRUE
    /\ UNCHANGED <<loopPc, callingPendingFunctors_, pendingFunctors_, functors,
                   activeChannels, eventFd, ioReady, ioEvents, threadPc, posted>>

(* quit() from another thread, first half: store quit_.                    *)
Quit(t) ==
    /\ threadPc[t] = "idle"
    /\ ~quit_
    /\ quit_' = TRUE
    /\ threadPc' = [threadPc EXCEPT ![t] = "wake"]
    /\ UNCHANGED <<loopPc, callingPendingFunctors_, pendingFunctors_, functors,
                   activeChannels, eventFd, ioReady, ioEvents, posted>>

(* Second half of both: !isInLoopThread(), so wakeup() writes the eventfd. *)
Wakeup(t) ==
    /\ threadPc[t] = "wake"
    /\ eventFd' = TRUE
    /\ threadPc' = [threadPc EXCEPT ![t] = "idle"]
    /\ UNCHANGED <<loopPc, quit_, callingPendingFunctors_, pendingFunctors_,
                   functors, activeChannels, ioReady, ioEvents, posted>>

(* The kernel makes the io channel's fd readable.                          *)
IoArrive ==
    /\ ~ioReady
    /\ ioEvents < MaxIoEvents
    /\ ioReady' = TRUE
    /\ ioEvents' = ioEvents + 1
    /\ UNCHANGED <<loopPc, quit_, callingPendingFunctors_, pendingFunctors_,
                   functors, activeChannels, eventFd, threadPc, posted>>

(* loop() has returned and every other thread has finished.                *)
Terminated ==
    /\ loopPc = "done"
    /\ \A t \in Threads : threadPc[t] = "idle" /\ posted[t] = MaxPosts
    /\ UNCHANGED vars

-----------------------------------------------------------------------------
Init ==
    /\ loopPc = "top"
    /\ quit_ = FALSE
    /\ callingPendingFunctors_ = FALSE
    /\ pendingFunctors_ = <<>>
    /\ functors = <<>>
    /\ activeChannels = {}
    /\ eventFd = FALSE
    /\ ioReady = FALSE
    /\ ioEvents = 0
    /\ threadPc = [t \in Threads |-> "idle"]
    /\ posted = [p \in Posters |-> 0]

LoopStep ==
    \/ LoopTop \/ Poll \/ HandleWakeup \/ HandleIo
    \/ SwapFunctors \/ RunFunctor \/ EndFunctors

Next ==
    \/ LoopStep
    \/ PollTimeout
    \/ \E t \in Threads : Post(t) \/ Quit(t) \/ Wakeup(t)
    \/ IoArrive
    \/ Terminated

(* The loop thread never stops while it has a step (the poll timeout is   *)
(* left unfair: progress must not depend on it), and a thread inside      *)
(* queueInLoop()/quit() finishes the call.                                 *)
Fairness ==
    /\ WF_vars(LoopStep)
    /\ \A t \in Threads : WF_vars(Wakeup(t))

Spec == Init /\ [][Next]_vars /\ Fairness

-----------------------------------------------------------------------------
TypeOK ==
    /\ loopPc \in LoopPcs
    /\ quit_ \in BOOLEAN
    /\ callingPendingFunctors_ \in BOOLEAN
    /\ pendingFunctors_ \in Seq(Task)
    /\ functors \in Seq(Task)
    /\ activeChannels \subseteq Channels
    /\ eventFd \in BOOLEAN
    /\ ioReady \in BOOLEAN
    /\ ioEvents \in 0..MaxIoEvents
    /\ threadPc \in [Threads -> {"idle", "wake"}]
    /\ \A p \in Posters : posted[p] \in 0..(IF p = LoopThread THEN MaxLoopTasks ELSE MaxPosts)

(* The wakeup contract of queueInLoop()/quit(): whenever the loop thread   *)
(* would block in epoll_wait with nothing ready, it has no functor waiting *)
(* and no quit request pending, unless another thread is still about to   *)
(* write the eventfd.  A violation is a lost wakeup: the functor (or the   *)
(* quit) waits for an unrelated event or for the 10 s poll timeout.        *)
NoLostWakeup ==
    (loopPc = "poll" /\ ReadyChannels = {})
        => \/ pendingFunctors_ = <<>> /\ ~quit_
           \/ \E t \in Threads : threadPc[t] = "wake"

(* quit() from any thread makes loop() return without relying on the poll *)
(* timeout.                                                                *)
QuitTerminatesLoop == quit_ ~> (loopPc = "done")

(* The loop implements a FIFO task queue: each posted functor runs once,  *)
(* in posting order, and every functor posted while the loop runs is      *)
(* eventually run (checked through the refinement in MCEventLoop).        *)
TaskQueue == INSTANCE LoopTaskQueue
    WITH queue <- functors \o pendingFunctors_,
         stopped <- (loopPc = "done"),
         posted <- posted

TaskQueueSpec == TaskQueue!Spec

=============================================================================
