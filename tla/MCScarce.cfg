\* One descriptor, one session, two requests and two failing allocations.
CONSTANTS
    FD = {f1}
    Conn = {c1}
    Session = {s1}
    Request = {r1, r2}
    Timer = {t1, t2, t3}
    NULL = NULL
    SocketTimeout = 1
    SessionTimeout = 2
    ReferMod = 3
    Jumps <- Forward
    MaxIdle = 2
    MaxLeft = 2
    MaxUnsent = 1
    MaxBacklog = 1
    MaxFailures = 2
SPECIFICATION ScarceSpec
VIEW View
INVARIANT NoUseOfFreedMemory
PROPERTIES SessionKept ClosedPeerReleased WaitingPeerAccepted IdleSessionDestroyed
