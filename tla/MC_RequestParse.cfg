CONSTANTS
    MaxSteps = 2
    PathLens <- MCPathLens
    Sizes <- MCSizes

SPECIFICATION Spec

INVARIANT TypeOK
INVARIANT AcceptedRequestWellFormed

\* A parse ends rejected or accepted.
CHECK_DEADLOCK FALSE
