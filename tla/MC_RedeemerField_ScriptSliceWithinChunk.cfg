CONSTANTS
    SizeWidth = 16
    LenFields <- MCLenFields

SPECIFICATION Spec

INVARIANT ScriptSliceWithinChunk

\* The length is located once per request.
CHECK_DEADLOCK FALSE
