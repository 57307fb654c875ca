CONSTANTS
    v1 = v1
    v2 = v2
    NULL = NULL
    Key <- MCKey
    Value <- MCValue
    Size = 2
    StrHash <- MCStrHash
SPECIFICATION Spec
INVARIANTS TypeOK TableExact
PROPERTY ImplementsMap
CHECK_DEADLOCK FALSE
