SPECIFICATION Spec
CONSTANTS
    MaxAttempts = 2
    Digest = {d1, d2}
    NoDigest = NoDigest
    Patches = 1
    RepeatLast = TRUE
    DeepAgents = TRUE
    WithDocker = TRUE
    Faults <- AllFaults
SYMMETRY DigestSymmetry
INVARIANTS
    TypeOK
    WriteAhead
    CleanupNeverRefused
    DraftIsExactCandidate
    ClosedIsClean
    StrandedDraftIsReported
PROPERTIES
    PublishAfterTeardown
    OutcomeNeverUpgraded
    CompleteCloseoutVerifies
    ImplementsDraftDelivery
