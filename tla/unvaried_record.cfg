SPECIFICATION Spec
CONSTANTS
    Candidates <- JoiningCandidates
    Stressed = {}
    MaxBrokerFaults = 0
    MaxRuns = 1
INVARIANTS
    AcceptedIsRight
CHECK_DEADLOCK FALSE
