SPECIFICATION Spec
CONSTANTS
    c1 = c1
    c2 = c2
    f1 = f1
    a1 = a1
    a2 = a2
    Client = {c1, c2}
    File = {f1}
    Address = {a1, a2}
    NULL = NULL
    Large <- MCLarge
    FileAge = 1
    YearAge = 2
    FreshAddresses = FALSE
    MaxNow = 4
    MaxVersion = 3
INVARIANTS
    NotModifiedIsTrue
CHECK_DEADLOCK FALSE
