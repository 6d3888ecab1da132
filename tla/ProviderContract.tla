--------------------------- MODULE ProviderContract ---------------------------
(***************************************************************************)
(* What DeepAgentsCandidateProvider.create_candidate promises the          *)
(* controller about one attempt: IncidentController assumes no more in     *)
(* StartProvider, ProviderReturns, ProviderFails and Crash.  It adds the   *)
(* worker process, which IncidentController does not look at.              *)
(***************************************************************************)
EXTENDS Naturals

VARIABLES
    step,        \* where the attempt is
    root,        \* the worker directory exists
    incomplete,  \* an execution record admits that it may
    running      \* a worker process runs

vars == <<step, root, incomplete, running>>

Init ==
    /\ step = "proposing"
    /\ root = FALSE /\ incomplete = FALSE /\ running = FALSE

\* An exception while the directory is prepared leaves it as it is.
Prepare ==
    /\ step = "proposing"
    /\ \/ step' = "working" /\ root' = TRUE
       \/ step' = "raised" /\ root' \in BOOLEAN
    /\ UNCHANGED <<incomplete, running>>

Work ==
    /\ step = "working"
    /\ running' \in BOOLEAN
    /\ UNCHANGED <<step, root, incomplete>>

\* A candidate is returned only when worker and directory are gone.
Return ==
    /\ step = "working" /\ ~running
    /\ step' = "proposed" /\ root' = FALSE
    /\ UNCHANGED <<incomplete, running>>

\* An exception: the worker is gone, and the directory is gone or the record
\* says so, unless the record could not be written either.
Raise ==
    /\ step = "working" /\ ~running
    /\ step' = "raised"
    /\ \/ root' = FALSE /\ UNCHANGED incomplete
       \/ root' = TRUE /\ incomplete' \in BOOLEAN
    /\ UNCHANGED running

\* KeyboardInterrupt and the death of the controller leave the worker alone.
Abort ==
    /\ \/ step = "working" /\ step' = "aborted"
       \/ step # "crashed" /\ step' = "crashed"
    /\ root' \in BOOLEAN /\ incomplete' \in BOOLEAN
    /\ UNCHANGED running

Survive ==
    /\ step \in {"aborted", "crashed"} /\ running
    /\ running' \in BOOLEAN /\ root' \in {root, TRUE}
    /\ UNCHANGED <<step, incomplete>>

Next == Prepare \/ Work \/ Return \/ Raise \/ Abort \/ Survive

Spec == Init /\ [][Next]_vars
===============================================================================
