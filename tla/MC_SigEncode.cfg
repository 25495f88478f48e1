CONSTANTS
    W = 2
    Values <- MCValues
    Garbage <- MCGarbage
    SignCanFail = FALSE

SPECIFICATION Spec

INVARIANT TypeOK
INVARIANT EncodingMatchesSignature
 
INVARIANT ReadsWithinSig

\* The conversion runs once and the response is sent.
CHECK_DEADLOCK FALSE
