CONSTANTS
    Decimals = 2
    Amounts <- MCAmounts
    BufLen = 14

SPECIFICATION Spec

INVARIANT TypeOK
INVARIANT NoTrailingDot
INVARIANT FractionalAmountsExact

\* The trim loop runs once and the command goes on.
CHECK_DEADLOCK FALSE
