\* Three timers; delays that fit in U32, the shortest no longer than the
\* thread may be late.
CONSTANTS
    Timer = {t1, t2, t3}
    NULL = NULL
    Seconds = {1, 4}
    UsPerSecond = 1
    UsPerMs = 2
    MinWaitMs = 1
    IdleWaitMs = 3
    U32 = 16
    MaxLate = 1
SPECIFICATION FairSpec
INVARIANT TypeOK
PROPERTIES FiresInOrder NothingDueLeft NeverOversleeps NoCatchUp EventuallyFires
