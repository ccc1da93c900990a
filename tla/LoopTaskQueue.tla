---------------------------- MODULE LoopTaskQueue ----------------------------
(***************************************************************************)
(* What EventLoop promises its posters (spec section 5): functors posted   *)
(* by a thread run in FIFO order, each exactly once, and every posted     *)
(* functor eventually runs unless the loop has stopped.                    *)
(***************************************************************************)
EXTENDS Naturals, Sequences

CONSTANTS Posters

VARIABLES queue, stopped, posted

Post(p) ==
    /\ queue' = Append(queue, [src |-> p, n |-> posted[p] + 1])
    /\ posted' = [posted EXCEPT ![p] = @ + 1]
    /\ UNCHANGED stopped

Run ==
    /\ ~stopped
    /\ queue # <<>>
    /\ queue' = Tail(queue)
    /\ UNCHANGED <<stopped, posted>>

(* A running functor may itself post one, in the same step.                *)
RunAndPost(p) ==
    /\ ~stopped
    /\ queue # <<>>
    /\ queue' = Append(Tail(queue), [src |-> p, n |-> posted[p] + 1])
    /\ posted' = [posted EXCEPT ![p] = @ + 1]
    /\ UNCHANGED stopped

Stop ==
    /\ ~stopped
    /\ stopped' = TRUE
    /\ UNCHANGED <<queue, posted>>

Init ==
    /\ queue = <<>>
    /\ stopped = FALSE
    /\ posted = [p \in Posters |-> 0]

Next == (\E p \in Posters : Post(p) \/ RunAndPost(p)) \/ Run \/ Stop

avars == <<queue, stopped, posted>>

Spec == Init /\ [][Next]_avars /\ WF_avars(Run)

=============================================================================
