\* Bodies within the first recv, beyond it, and too large; answers of one and
\* of two buffers, at once or later.
CONSTANTS
    Bodies <- MCBodies
    BufSize = 3
    MaxContent = 3
    Shapes <- MCShapes
    MaxAsk = 3
SPECIFICATION Spec
INVARIANTS TypeOK SendLenExact
PROPERTIES ImplementsExchange EveryRequestAnswered
CHECK_DEADLOCK FALSE
