\* A delay of 3 seconds does not fit in U32.
CONSTANTS
    Timer = {t1, t2}
    NULL = NULL
    Seconds = {1, 3}
    UsPerSecond = 3
    UsPerMs = 2
    MinWaitMs = 1
    IdleWaitMs = 3
    U32 = 8
    MaxLate = 1
SPECIFICATION Spec
INVARIANT NeverEarly
