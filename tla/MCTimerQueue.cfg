CONSTANTS
    Timers = {1, 2, 3}
    Delays = {0, 2}
    Intervals = {1, 2}
    MaxTime = 5

SPECIFICATION Spec

INVARIANT TypeOK
INVARIANT TimerFdCoversQueue
INVARIANT CancelledNeverRescheduled
