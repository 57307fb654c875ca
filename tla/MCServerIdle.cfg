CONSTANTS
    FD = {f1}
    Conn = {c1}
    Session = {s1}
    Request = {r1}
    Timer = {t1, t2, t3}
    NULL = NULL
    SocketTimeout = 1
    SessionTimeout = 1
    ReferMod = 3
    Jumps <- NoJumps
    MaxIdle = 1
    MaxLeft = 2
    MaxUnsent = 0
    MaxBacklog = 1
SPECIFICATION FairSpec
PROPERTIES IdleConnClosed
