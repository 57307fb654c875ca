SPECIFICATION Spec
CONSTANTS
    c1 = c1
    h1 = h1
    c2 = c2
    Conn = {c1, c2}
    Handler = {h1}
    NULL = NULL
    Uri <- MCUri
    Slash = "/"
    Prefix <- MCPrefix
    Favicon <- MCFavicon
    Length = {0, 1}
SYMMETRY Symmetry
INVARIANTS
    TypeOK
    PreroutingDecides
    InSync
CHECK_DEADLOCK FALSE
