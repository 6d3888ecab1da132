\* Every change of at most three of six paths, between the worker's tree and
\* the verifier's workspace.  A refused or accepted candidate is the end.
SPECIFICATION Spec
CONSTANTS
    old = old
    new = new
    near = near
    out = out
    odd = odd
    hidden = hidden
    Path <- Paths
    Permitted = {old, new, near, odd}
    Odd = {odd}
    Ignored = {hidden}
    ScenarioPaths = {old, new}
    MaxChangedPaths = 2
    Bases <- SomeBases
    Drafts <- SomeDrafts
    MaxEdits = 3
CHECK_DEADLOCK FALSE
INVARIANTS
    AcceptedChangeStaysInPolicy
    CandidateIsTheWorkersTree
    ValidatedPatchApplies
    OrdinaryRepairIsAccepted
