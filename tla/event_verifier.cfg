SPECIFICATION FairSpec
CONSTANTS
    Candidates <- EveryCandidate
    Stressed <- FewCandidates
    MaxBrokerFaults = 2
    MaxRuns = 2
INVARIANTS
    TypeOK
    LogicIsEnoughForOneRecord
    RefusedOnlyForItsForm
    DecisionsAreOfThisRun
    VetoHasACause
PROPERTIES
    RunEnds
CHECK_DEADLOCK FALSE
