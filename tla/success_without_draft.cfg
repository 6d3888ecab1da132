SPECIFICATION Spec
CONSTANTS
    MaxAttempts = 1
    Digest = {d1, d2}
    NoDigest = NoDigest
    Patches = 1
    RepeatLast = TRUE
    DeepAgents = FALSE
    WithDocker = FALSE
    Faults <- CrashOnly
INVARIANTS
    ClosedSuccessHasDraft
