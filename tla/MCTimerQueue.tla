---------------------------- MODULE MCTimerQueue ----------------------------
(* Three timers; runAfter with delay 0 (due at once) or 2, runEvery with  *)
(* interval 1 or 2, over a clock of 5 ticks: enough for two timers to     *)
(* expire in one batch, for a repeating timer to fire twice, and for a    *)
(* callback to cancel or add a timer mid-batch.                           *)
EXTENDS TimerQueue
=============================================================================
