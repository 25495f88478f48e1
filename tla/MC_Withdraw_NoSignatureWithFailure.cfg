\* Production build; checks NoSignatureWithFailure alone.
CONSTANTS
    c1 = c1
    c2 = c2
    None = None
    Content <- MCContent
    OwnScripts <- MCOwnScripts
    NMax = 12
    MaxFaults = 2
    AutoApprove = FALSE

SPECIFICATION Spec

INVARIANT NoSignatureWithFailure

CHECK_DEADLOCK FALSE
