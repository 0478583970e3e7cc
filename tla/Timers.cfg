\* Three timers of 0, 2 and 3 ticks, two ticks in a millisecond, waits of at
\* most 2 ms; a callback may set, stop, restart and destroy timers, its own
\* included. The program stops where a freed timer or an erased entry is used.
SPECIFICATION FairSpec
CONSTANTS
    t1 = t1  t2 = t2  t3 = t3
    Timers = {t1, t2, t3}
    Expire <- MCExpire
    Tick = 2  MaxWait = 2  MaxTime = 5
INVARIANTS TypeOK IteratorValid FiresOncePerSet WakesInTime
PROPERTIES LeavesNoneDue ArmedFires
CHECK_DEADLOCK FALSE
