CONSTANTS
    W = 2
    Values <- MCValues
    Garbage <- MCGarbage
    SignCanFail = TRUE

SPECIFICATION Spec

INVARIANT ReadsWithinSig

\* The conversion runs once and the response is sent.
CHECK_DEADLOCK FALSE
