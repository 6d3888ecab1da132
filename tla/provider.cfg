SPECIFICATION FairSpec
CHECK_DEADLOCK FALSE
CONSTANTS
    Edit = {e1, e2}
    Faults <- EveryFault
INVARIANTS
    DiffSeesWhatWasValidated
    OnlyThePatchReachesTheWorkspace
    ReturnedCandidateVerifies
    NoSurvivor
    EvidenceIsHonest
PROPERTIES
    ImplementsProviderContract
    AttemptEnds
