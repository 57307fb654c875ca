\* A url of at most 59 characters.
CONSTANTS
    Asked <- MCAsked
    Char <- MCChar
    Hex <- MCHex
    Prefix <- MCPrefix
    StaticPath <- MCStaticPath
    Garbage <- MCGarbage
    MaxUrl = 60
SPECIFICATION Spec
INVARIANTS ParsesBack StatusFits AllOrNothing 
CHECK_DEADLOCK FALSE
