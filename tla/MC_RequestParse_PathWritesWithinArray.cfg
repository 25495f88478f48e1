CONSTANTS
    MaxSteps = 2
    PathLens <- MCPathLens
    Sizes <- MCSizes

SPECIFICATION Spec

INVARIANT PathWritesWithinArray


\* A parse ends rejected or accepted.
CHECK_DEADLOCK FALSE
