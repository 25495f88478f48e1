\* Production build: the display path runs before hashing.
CONSTANTS
    c1 = c1
    c2 = c2
    None = None
    Content <- MCContent
    OwnScripts <- MCOwnScripts
    NMax = 12
    MaxFaults = 2
    AutoApprove = FALSE

SPECIFICATION Spec

INVARIANT TypeOK
INVARIANT SignedOnlyAfterApproval
INVARIANT CleanRunHashesCommittedData
 
PROPERTY EventuallyAnswered
PROPERTY ImplementsAbstract

\* A command ends after its response: handler_withdraw returns.
CHECK_DEADLOCK FALSE
