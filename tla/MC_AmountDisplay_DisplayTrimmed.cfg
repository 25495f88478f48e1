CONSTANTS
    Decimals = 2
    Amounts <- MCAmounts
    BufLen = 14

SPECIFICATION Spec

INVARIANT DisplayTrimmed


\* The trim loop runs once and the command goes on.
CHECK_DEADLOCK FALSE
