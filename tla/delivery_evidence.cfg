SPECIFICATION Spec
CHECK_DEADLOCK FALSE
CONSTANTS
    Patch = {p1, p2}
    None = None
    MaxAttempts = 2
    MaxVersion = 2
    MaxMisplaced = 2
SYMMETRY PatchSymmetry
INVARIANTS
    AcceptedRunWasTested
    PublishedRunVerifies
PROPERTIES
    DraftRestsOnExecutions
