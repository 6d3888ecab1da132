SPECIFICATION ConcurrentSpec
CONSTANTS
    MaxAttempts = 2
    MaxCleanups = 1
    Digest = {d1, d2}
    NoDigest = NoDigest
    Patches = 1
    RepeatLast = FALSE
    DeepAgents = FALSE
    WithDocker = TRUE
    Faults <- CrashOnly
CHECK_DEADLOCK FALSE
SYMMETRY DigestSymmetry
INVARIANTS
    JournalCoversDocker
    OwnTeardownIsTrue
    SuccessIsTornDown
PROPERTIES
    DraftFollowsTeardown
