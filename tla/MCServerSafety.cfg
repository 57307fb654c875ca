CONSTANTS
    FD = {f1, f2}
    Conn = {c1, c2}
    Session = {s1}
    Request = {r1, r2}
    Timer = {t1, t2, t3, t4}
    NULL = NULL
    SocketTimeout = 1
    SessionTimeout = 1
    ReferMod = 3
    Jumps <- NoJumps
    MaxIdle = 1
    MaxLeft = 3
    MaxUnsent = 1
    MaxBacklog = 1
SPECIFICATION Spec
SYMMETRY Symmetry
VIEW UpToTimerNames
INVARIANTS TypeOK NoUseOfFreedMemory ConnsExact TimersExact RefersExact InterestMatchesUnsent
PROPERTIES EventsCurrent
