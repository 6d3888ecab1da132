SPECIFICATION FairSpec
CONSTANTS
    MaxAttempts = 1
    Digest = {d1, d2}
    NoDigest = NoDigest
    Patches = 1
    RepeatLast = TRUE
    DeepAgents = TRUE
    WithDocker = TRUE
    Faults <- AllFaults
PROPERTIES
    InvocationEnds
    EventuallyReclaimed
    EventuallySettled
