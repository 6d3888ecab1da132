------------------------ MODULE DeepAgentsAttemptProofs ------------------------
(***************************************************************************)
(* Theorems about DeepAgentsAttempt, for every set of edits and of faults. *)
(* IInv is inductive (Invariance); the safety properties are parts or      *)
(* consequences of it, and every step of an attempt is a step or a         *)
(* stutter of ProviderContract.                                            *)
(***************************************************************************)
EXTENDS DeepAgentsAttempt, Integers, TLAPS

-----------------------------------------------------------------------------
(***************************************************************************)
(* The two steps with more to them than a case distinction.                *)
(***************************************************************************)
\* git apply of the retained patch to a clean workspace gives the patch's
\* tree, and tree_digest sees all of it, because no edit is a cache
\* (apply_candidate).
LEMMA PatchedDigest ==
    ASSUME AttemptAssumption, workspace = {}, patchFile \subseteq Edit
    PROVE  /\ Patched(patchFile) = patchFile
           /\ TreeDigest(Patched(patchFile)) = Patched(patchFile)
<1>1. Patched(patchFile) = patchFile
  BY DEF Patched
<1>2. "cache" \notin Edit
  BY DEF AttemptAssumption, Litter
<1>3. TreeDigest(patchFile) = patchFile
  BY <1>2 DEF TreeDigest
<1> QED
  BY <1>1, <1>3

\* Applying the patch, wholly or in part, keeps the invariant
\* (apply_candidate).
LEMMA ApplyPatchKeeps ==
    ASSUME AttemptAssumption, IInv, ApplyPatch
    PROVE  IInv'
<1> USE DEF IInv, TypeOK, WorkerFollowsStep, OutcomeFollowsStep,
            CandidateFollowsPatch, PatchFollowsStep, RemovalFollowsStep,
            RecordFollowsStep, DiffSeesWhatWasValidated,
            OnlyThePatchReachesTheWorkspace
<1> USE DEF Preparing, Trying, Finally, Left, Alive, Exception, Outcome,
            Record, NoRecord, Evidence, Acceptable, artifacts, directory
<1>1. /\ pc = "apply" /\ workspace = {} /\ record = NoRecord
      /\ patchFile # {} /\ patchFile \subseteq Edit
      /\ patchFile \subseteq Item /\ execution.patch = patchFile
  BY DEF ApplyPatch
<1>2. UNCHANGED <<removed, request, patchFile, record, root, sandbox, result,
                  worker, expired>>
  BY DEF ApplyPatch
<1>3. CASE /\ workspace' = Patched(patchFile)
           /\ execution' =
                [execution EXCEPT !.outcome = "CANDIDATE_RETURNED",
                                  !.digest = TreeDigest(workspace')]
           /\ pc' = "cleanup" /\ exc' = exc
  <2>1. /\ workspace' = patchFile
        /\ TreeDigest(workspace') = workspace'
    BY <1>1, <1>3, PatchedDigest
  <2>2. execution' = [outcome |-> "CANDIDATE_RETURNED", patch |-> patchFile,
                      digest |-> patchFile]
    BY <1>1, <1>3, <2>1
  <2> QED
    BY <1>1, <1>2, <1>3, <2>1, <2>2
<1>4. CASE /\ \E kind \in Exception \ {"none"} : Fail(kind)
           /\ \E part \in SUBSET patchFile : workspace' = Patched(part)
  <2>1. workspace' \subseteq patchFile
    BY <1>1, <1>4 DEF Patched
  <2>2. /\ pc' = "cleanup" /\ exc' \in Exception \ {"none"}
        /\ execution' = [execution EXCEPT !.outcome = "FAILED"]
    BY <1>4 DEF Fail
  <2> QED
    BY <1>1, <1>2, <2>1, <2>2
<1>5. CASE /\ \E kind \in Exception \ {"none"} : Fail(kind)
           /\ UNCHANGED workspace
  <2>1. /\ pc' = "cleanup" /\ exc' \in Exception \ {"none"}
        /\ execution' = [execution EXCEPT !.outcome = "FAILED"]
    BY <1>5 DEF Fail
  <2> QED
    BY <1>1, <1>2, <1>5, <2>1
<1> QED
  BY <1>3, <1>4, <1>5 DEF ApplyPatch

\* Removing the worker directory, wholly or in part, keeps the invariant (the
\* finally clause of create_candidate).
LEMMA RemoveWorkerRootKeeps ==
    ASSUME AttemptAssumption, IInv, RemoveWorkerRoot
    PROVE  IInv'
<1> USE DEF IInv, TypeOK, WorkerFollowsStep, OutcomeFollowsStep,
            CandidateFollowsPatch, PatchFollowsStep, RemovalFollowsStep,
            RecordFollowsStep, DiffSeesWhatWasValidated,
            OnlyThePatchReachesTheWorkspace
<1> USE DEF Preparing, Trying, Finally, Left, Alive, Exception, Outcome,
            Record, NoRecord, Evidence, artifacts
<1>1. /\ pc = "cleanup" /\ pc' = "record" /\ record = NoRecord
      /\ UNCHANGED <<workspace, request, patchFile, record, worker, expired>>
  BY DEF RemoveWorkerRoot
<1>2. /\ root' \in BOOLEAN /\ sandbox' \subseteq Item
      /\ result' \in {"absent", "valid", "malformed"}
  <2>1. CASE root' = FALSE /\ sandbox' = {} /\ result' = "absent"
    BY <2>1
  <2>2. CASE /\ root' = root /\ sandbox' \in SUBSET sandbox
             /\ result' \in {result, "absent"}
    BY <2>2
  <2> QED
    BY <2>1, <2>2 DEF RemoveWorkerRoot
<1>3. removed' = ~root'
  BY DEF RemoveWorkerRoot, CleanupComplete
<1>4. CASE /\ ~removed' /\ exc = "none" /\ exc' = "FlowError"
           /\ execution' = [execution EXCEPT !.outcome = "FAILED"]
  <2>1. worker \notin Alive
    BY <1>1, <1>4
  <2> QED
    BY <1>1, <1>2, <1>3, <1>4, <2>1
<1>5. CASE /\ removed' \/ exc # "none"
           /\ exc' = exc /\ execution' = execution
  <2>1. TypeOK'
    BY <1>1, <1>2, <1>3, <1>5
  <2>2. RemovalFollowsStep' /\ RecordFollowsStep'
    BY <1>1, <1>2, <1>3, <1>5
  <2>3. WorkerFollowsStep' /\ OutcomeFollowsStep'
    BY <1>1, <1>5
  <2>4. /\ CandidateFollowsPatch' /\ PatchFollowsStep'
        /\ DiffSeesWhatWasValidated' /\ OnlyThePatchReachesTheWorkspace'
    BY <1>1, <1>5
  <2> QED
    BY <2>1, <2>2, <2>3, <2>4
<1>6. IF root' /\ exc = "none"
      THEN /\ exc' = "FlowError"
           /\ execution' = [execution EXCEPT !.outcome = "FAILED"]
      ELSE exc' = exc /\ execution' = execution
  <2>1. CleanupFailure(~root') <=> root' /\ exc = "none"
    BY DEF CleanupFailure
  <2>2. IF CleanupFailure(~root')
        THEN /\ exc' = "FlowError"
             /\ execution' = [execution EXCEPT !.outcome = "FAILED"]
        ELSE UNCHANGED <<exc, execution>>
    BY DEF RemoveWorkerRoot
  <2> QED
    BY <2>1, <2>2
<1> QED
  BY <1>2, <1>3, <1>4, <1>5, <1>6

-----------------------------------------------------------------------------
(***************************************************************************)
(* The invariant.                                                          *)
(***************************************************************************)
\* It holds when create_candidate is called.
LEMMA InitialInvariant == Init => IInv
<1> SUFFICES ASSUME Init PROVE IInv
  OBVIOUS
<1> USE DEF Init, Preparing, Trying, Finally, Left, Alive
<1>1. TypeOK
  BY DEF TypeOK, Exception, Outcome
<1>2. /\ WorkerFollowsStep /\ OutcomeFollowsStep /\ CandidateFollowsPatch
      /\ PatchFollowsStep /\ RemovalFollowsStep
  BY DEF WorkerFollowsStep, OutcomeFollowsStep, CandidateFollowsPatch,
         PatchFollowsStep, RemovalFollowsStep
<1>3. RecordFollowsStep
  BY DEF RecordFollowsStep
<1>4. DiffSeesWhatWasValidated /\ OnlyThePatchReachesTheWorkspace
  BY DEF DiffSeesWhatWasValidated, OnlyThePatchReachesTheWorkspace
<1> QED
  BY <1>1, <1>2, <1>3, <1>4 DEF IInv

\* Every step of the controller, the worker and the environment keeps it.
LEMMA StepInvariant ==
    ASSUME IInv, [Next]_vars
    PROVE  IInv'
<1> USE AttemptAssumption
<1> USE DEF IInv, TypeOK, WorkerFollowsStep, OutcomeFollowsStep,
            CandidateFollowsPatch, PatchFollowsStep, RemovalFollowsStep,
            RecordFollowsStep, DiffSeesWhatWasValidated,
            OnlyThePatchReachesTheWorkspace
<1> USE DEF Preparing, Trying, Finally, Left, Alive, Exception, Outcome,
            Record, NoRecord, Evidence, Item, Acceptable, controller,
            directory, artifacts
<1>1. CASE MakeWorkerRoot
  BY <1>1 DEF MakeWorkerRoot, Goto, FailEarly, Regular
<1>2. CASE CopyWorkspace
  BY <1>2 DEF CopyWorkspace, Goto, FailEarly, Regular
<1>3. CASE WriteRequest
  BY <1>3 DEF WriteRequest, Goto, FailEarly
<1>4. CASE CommitBaseline
  BY <1>4 DEF CommitBaseline, Goto, FailEarly
<1>5. CASE SpawnWorker
  BY <1>5 DEF SpawnWorker, Goto, Fail
<1>6. CASE WorkerReturns
  BY <1>6 DEF WorkerReturns, Goto, Fail
<1>7. CASE WaitTimesOut
  BY <1>7 DEF WaitTimesOut, Goto
<1>8. CASE GraceEnds
  BY <1>8 DEF GraceEnds, Fail
<1>9. CASE KillWorker
  BY <1>9 DEF KillWorker, Fail
<1>10. CASE ReadResult
  BY <1>10 DEF ReadResult, Goto, Fail
<1>11. CASE DiscardBackups
  BY <1>11 DEF DiscardBackups, Goto, Fail, Regular
<1>12. CASE RemoveCaches
  BY <1>12 DEF RemoveCaches, Goto, Fail, Regular
<1>13. CASE DerivePatch
  BY <1>13 DEF DerivePatch, Goto, Fail, Shown
<1>14. CASE ApplyPatch
  BY <1>14, ApplyPatchKeeps
<1>15. CASE RemoveWorkerRoot
  BY <1>15, RemoveWorkerRootKeeps
<1>16. CASE WriteExecution
  BY <1>16 DEF WriteExecution, Goto
<1>17. CASE WorkerStarts
  BY <1>17 DEF WorkerStarts
<1>18. CASE WorkerEdits
  BY <1>18 DEF WorkerEdits, Forbidden, Litter
<1>19. CASE WorkerAnswers
  BY <1>19 DEF WorkerAnswers
<1>20. CASE WorkerExits
  BY <1>20 DEF WorkerExits
<1>21. CASE WorkerTerminates
  BY <1>21 DEF WorkerTerminates
<1>22. CASE Interrupt
  BY <1>22 DEF Interrupt
<1>23. CASE Crash
  BY <1>23 DEF Crash
<1>24. CASE DeadlinePasses
  BY <1>24 DEF DeadlinePasses
<1>25. CASE UNCHANGED vars
  BY <1>25 DEF vars
<1> QED
  BY <1>1, <1>2, <1>3, <1>4, <1>5, <1>6, <1>7, <1>8, <1>9, <1>10, <1>11,
     <1>12, <1>13, <1>14, <1>15, <1>16, <1>17, <1>18, <1>19, <1>20, <1>21,
     <1>22, <1>23, <1>24, <1>25 DEF Next, Controller, Worker

\* IInv is an invariant of an attempt.
THEOREM Invariance == Spec => []IInv
<1>1. Init => IInv
  BY InitialInvariant
<1>2. IInv /\ [Next]_vars => IInv'
  BY StepInvariant
<1> QED
  BY <1>1, <1>2, PTL DEF Spec

-----------------------------------------------------------------------------
(***************************************************************************)
(* The safety properties.                                                  *)
(***************************************************************************)
\* Every variable of an attempt keeps its type.
THEOREM TypeCorrect == Spec => []TypeOK
<1>1. IInv => TypeOK
  BY DEF IInv
<1> QED
  BY <1>1, Invariance, PTL

\* git reads the tree that was validated: the worker has ended, and no link or
\* editor backup is left (create_candidate after run_deepagents_process).
THEOREM ValidatedTreeIsRead == Spec => []DiffSeesWhatWasValidated
<1>1. IInv => DiffSeesWhatWasValidated
  BY DEF IInv
<1> QED
  BY <1>1, Invariance, PTL

\* The workspace holds nothing but permitted edits of the retained patch
\* (apply_candidate).
THEOREM WorkspaceComesFromPatch == Spec => []OnlyThePatchReachesTheWorkspace
<1>1. IInv => OnlyThePatchReachesTheWorkspace
  BY DEF IInv
<1> QED
  BY <1>1, Invariance, PTL

\* A returned candidate is kept by retain_candidate_patch, verifies, and has
\* the digest of the workspace and of the clean tree with its patch.
THEOREM CandidateVerifies == Spec => []ReturnedCandidateVerifies
<1>1. ASSUME IInv PROVE ReturnedCandidateVerifies
  <2> SUFFICES ASSUME pc = "returned"
               PROVE  /\ Retained /\ ExecutionVerifies
                      /\ Candidate.digest = TreeDigest(workspace)
                      /\ Candidate.digest = TestedDigest
    BY DEF ReturnedCandidateVerifies
  <2>1. /\ execution.outcome = "CANDIDATE_RETURNED"
        /\ removed /\ record = Evidence
    BY <1>1 DEF IInv, OutcomeFollowsStep
  <2>2. /\ Acceptable(patchFile) /\ execution.patch = patchFile
        /\ workspace = patchFile /\ execution.digest = workspace
    BY <1>1, <2>1 DEF IInv, CandidateFollowsPatch
  <2>3. Retained
    BY <2>2 DEF Retained, Candidate
  <2>4. ExecutionVerifies
    BY <2>1 DEF ExecutionVerifies, Candidate, Evidence
  <2>5. TreeDigest(workspace) = workspace
    <3>1. "cache" \notin Edit
      BY AttemptAssumption DEF AttemptAssumption, Litter
    <3> QED
      BY <2>2, <3>1 DEF TreeDigest, Acceptable
  <2> QED
    BY <2>2, <2>3, <2>4, <2>5 DEF Candidate, TestedDigest
<1> QED
  BY <1>1, Invariance, PTL

\* Only an interrupted or a dead controller leaves a worker running
\* (run_deepagents_process).
THEOREM WorkersEnd == Spec => []NoSurvivor
<1>1. IInv => NoSurvivor
  BY DEF IInv, WorkerFollowsStep, NoSurvivor
<1> QED
  BY <1>1, Invariance, PTL

\* The execution record does not claim more than is so (the finally clause of
\* create_candidate).
THEOREM RecordsAreHonest == Spec => []EvidenceIsHonest
<1>1. ASSUME IInv PROVE EvidenceIsHonest
  <2>1. CASE record = NoRecord
    BY <2>1 DEF EvidenceIsHonest, NoRecord
  <2>2. CASE record # NoRecord
    <3>1. /\ record = Evidence /\ pc \in {"returned", "raised"}
          /\ execution.outcome = "RUNNING" => exc \in {"Interrupt", "FlowError"}
      BY <1>1, <2>2 DEF IInv, RecordFollowsStep
    <3>2. record.outcome = execution.outcome /\ record.complete = removed
      BY <3>1 DEF Evidence
    <3>3. record.complete /\ record.outcome # "RUNNING" => ~root
      BY <1>1, <3>2 DEF IInv, RemovalFollowsStep
    <3>4. record.outcome = "CANDIDATE_RETURNED" =>
              worker \notin Alive /\ (record.complete \/ pc = "raised")
      BY <1>1, <3>1, <3>2 DEF IInv, WorkerFollowsStep, OutcomeFollowsStep
    <3> QED
      BY <3>1, <3>2, <3>3, <3>4 DEF EvidenceIsHonest
  <2> QED
    BY <2>1, <2>2
<1> QED
  BY <1>1, Invariance, PTL

-----------------------------------------------------------------------------
(***************************************************************************)
(* The refinement of ProviderContract.                                     *)
(***************************************************************************)
\* create_candidate starts as the contract does.
LEMMA InitialSimulation == Init => Contract!Init
<1> SUFFICES ASSUME Init PROVE Contract!Init
  OBVIOUS
<1>1. Step = "proposing"
  BY DEF Init, Step, Preparing, Trying, Finally
<1>2. ~Root /\ ~Incomplete /\ ~Running
  BY DEF Init, Root, Incomplete, Running, Preparing, Alive
<1> QED
  BY <1>1, <1>2 DEF Contract!Init

\* Every step is a step of the contract or leaves what it sees unchanged.
LEMMA StepSimulation ==
    ASSUME IInv, [Next]_vars
    PROVE  [Contract!Next]_Contract!vars
<1> USE DEF IInv, TypeOK, WorkerFollowsStep, OutcomeFollowsStep,
            RemovalFollowsStep, RecordFollowsStep
<1> USE DEF Preparing, Trying, Finally, Left, Alive, NoRecord, Evidence,
            controller, directory, artifacts, Step, Root, Incomplete, Running
<1> USE DEF Contract!Next, Contract!vars, Contract!Prepare, Contract!Work,
            Contract!Return, Contract!Raise, Contract!Abort,
            Contract!Survive
<1>1. CASE MakeWorkerRoot
  BY <1>1 DEF MakeWorkerRoot, Goto, FailEarly
<1>2. CASE CopyWorkspace
  BY <1>2 DEF CopyWorkspace, Goto, FailEarly
<1>3. CASE WriteRequest
  BY <1>3 DEF WriteRequest, Goto, FailEarly
<1>4. CASE CommitBaseline
  BY <1>4 DEF CommitBaseline, Goto, FailEarly
<1>5. CASE SpawnWorker
  BY <1>5 DEF SpawnWorker, Goto, Fail
<1>6. CASE WorkerReturns
  BY <1>6 DEF WorkerReturns, Goto, Fail
<1>7. CASE WaitTimesOut
  BY <1>7 DEF WaitTimesOut, Goto
<1>8. CASE GraceEnds
  BY <1>8 DEF GraceEnds, Fail
<1>9. CASE KillWorker
  BY <1>9 DEF KillWorker, Fail
<1>10. CASE ReadResult
  BY <1>10 DEF ReadResult, Goto, Fail
<1>11. CASE DiscardBackups
  BY <1>11 DEF DiscardBackups, Goto, Fail
<1>12. CASE RemoveCaches
  BY <1>12 DEF RemoveCaches, Goto, Fail
<1>13. CASE DerivePatch
  BY <1>13 DEF DerivePatch, Goto, Fail
<1>14. CASE ApplyPatch
  BY <1>14 DEF ApplyPatch, Fail
<1>15. CASE RemoveWorkerRoot
  BY <1>15 DEF RemoveWorkerRoot, CleanupComplete, CleanupFailure
<1>16. CASE WriteExecution
  BY <1>16 DEF WriteExecution, Goto
<1>17. CASE WorkerStarts
  BY <1>17 DEF WorkerStarts
<1>18. CASE WorkerEdits
  BY <1>18 DEF WorkerEdits
<1>19. CASE WorkerAnswers
  BY <1>19 DEF WorkerAnswers
<1>20. CASE WorkerExits
  BY <1>20 DEF WorkerExits
<1>21. CASE WorkerTerminates
  BY <1>21 DEF WorkerTerminates
<1>22. CASE Interrupt
  BY <1>22 DEF Interrupt
<1>23. CASE Crash
  BY <1>23 DEF Crash
<1>24. CASE DeadlinePasses
  BY <1>24 DEF DeadlinePasses
<1>25. CASE UNCHANGED vars
  BY <1>25 DEF vars
<1> QED
  BY <1>1, <1>2, <1>3, <1>4, <1>5, <1>6, <1>7, <1>8, <1>9, <1>10, <1>11,
     <1>12, <1>13, <1>14, <1>15, <1>16, <1>17, <1>18, <1>19, <1>20, <1>21,
     <1>22, <1>23, <1>24, <1>25 DEF Next, Controller, Worker

\* An attempt implements the contract that IncidentController relies on.
THEOREM AttemptKeepsContract == Spec => ImplementsProviderContract
<1>1. Init => Contract!Init
  BY InitialSimulation
<1>2. IInv /\ [Next]_vars => [Contract!Next]_Contract!vars
  BY StepSimulation
<1> QED
  BY <1>1, <1>2, Invariance, PTL
     DEF Spec, ImplementsProviderContract, Contract!Spec

-----------------------------------------------------------------------------
(***************************************************************************)
(* How many steps an attempt can take.                                     *)
(***************************************************************************)
\* What create_candidate has still to do at most, in steps of its own.
Remaining ==
    IF pc = "start" THEN 14
    ELSE IF pc = "copy" THEN 13
    ELSE IF pc = "request" THEN 12
    ELSE IF pc = "baseline" THEN 11
    ELSE IF pc = "spawn" THEN 10
    ELSE IF pc = "wait" THEN 9
    ELSE IF pc = "grace" THEN 8
    ELSE IF pc = "read" THEN 7
    ELSE IF pc = "validate" THEN 6
    ELSE IF pc = "caches" THEN 5
    ELSE IF pc = "diff" THEN 4
    ELSE IF pc = "apply" THEN 3
    ELSE IF pc = "cleanup" THEN 2
    ELSE IF pc = "record" THEN 1
    ELSE 0

\* The controller goes forward, to a later step or out of the attempt.
LEMMA ControllerAdvances ==
    ASSUME TypeOK, Controller
    PROVE  Remaining' < Remaining
<1> USE DEF Remaining
<1>1. CASE MakeWorkerRoot \/ CopyWorkspace \/ WriteRequest \/ CommitBaseline
  <2>1. \/ pc = "start" /\ pc' \in {"copy", "raised"}
        \/ pc = "copy" /\ pc' \in {"request", "raised"}
        \/ pc = "request" /\ pc' \in {"baseline", "raised"}
        \/ pc = "baseline" /\ pc' \in {"spawn", "raised"}
    BY <1>1 DEF MakeWorkerRoot, CopyWorkspace, WriteRequest, CommitBaseline,
       Goto, FailEarly
  <2>2. QED
    BY <2>1
<1>2. CASE SpawnWorker \/ WorkerReturns \/ WaitTimesOut
  <2>1. \/ pc = "spawn" /\ pc' \in {"wait", "cleanup"}
        \/ pc = "wait" /\ pc' \in {"read", "grace", "cleanup"}
    BY <1>2 DEF SpawnWorker, WorkerReturns, WaitTimesOut, Goto, Fail
  <2>2. QED
    BY <2>1
<1>3. CASE GraceEnds \/ KillWorker
  <2>1. pc = "grace" /\ pc' = "cleanup"
    BY <1>3 DEF GraceEnds, KillWorker, Fail
  <2>2. QED
    BY <2>1
<1>4. CASE ReadResult
  <2>1. pc = "read" /\ pc' \in {"validate", "cleanup"}
    BY <1>4 DEF ReadResult, Goto, Fail
  <2>2. QED
    BY <2>1
<1>5. CASE DiscardBackups \/ RemoveCaches \/ DerivePatch
  <2>1. \/ pc = "validate" /\ pc' \in {"caches", "cleanup"}
        \/ pc = "caches" /\ pc' \in {"diff", "cleanup"}
        \/ pc = "diff" /\ pc' \in {"apply", "cleanup"}
    BY <1>5 DEF DiscardBackups, RemoveCaches, DerivePatch, Goto, Fail
  <2>2. QED
    BY <2>1
<1>6. CASE ApplyPatch \/ RemoveWorkerRoot \/ WriteExecution
  <2>1. \/ pc = "apply" /\ pc' = "cleanup"
        \/ pc = "cleanup" /\ pc' = "record"
        \/ pc = "record" /\ pc' \in {"returned", "raised"}
    BY <1>6 DEF ApplyPatch, RemoveWorkerRoot, WriteExecution, Goto, Fail
  <2>2. QED
    BY <2>1
<1>7. QED
  BY <1>1, <1>2, <1>3, <1>4, <1>5, <1>6 DEF Controller

\* Nothing that happens to the controller sends it back.
LEMMA OthersDoNotSendBack ==
    ASSUME TypeOK, Worker \/ Interrupt \/ Crash \/ DeadlinePasses
    PROVE  Remaining' <= Remaining
<1>1. CASE Worker \/ DeadlinePasses
  <2>1. pc' = pc
    BY <1>1 DEF Worker, WorkerStarts, WorkerEdits, WorkerAnswers,
       WorkerExits, WorkerTerminates, DeadlinePasses, controller
  <2>2. QED
    BY <2>1 DEF Remaining
<1>2. CASE Interrupt
  <2>1. \/ pc \in Preparing /\ pc' = "raised"
        \/ pc \in Trying \cup {"cleanup"} /\ pc' = "cleanup"
        \/ pc \in Finally /\ pc' = "raised"
    BY <1>2 DEF Interrupt
  <2>2. QED
    BY <2>1 DEF Remaining, Preparing, Trying, Finally
<1>3. CASE Crash
  BY <1>3 DEF Crash, Remaining
<1>4. QED
  BY <1>1, <1>2, <1>3

\* However the worker behaves, and for every set of edits and of faults,
\* create_candidate takes at most fourteen steps: each of them is forward,
\* and neither the worker, an interrupt, the death of the controller nor the
\* deadline sends it back.  What AttemptEnds adds to this is that it never
\* waits for ever on the way.
THEOREM AttemptIsBounded ==
    Spec => /\ [](Remaining \in 0 .. 14)
            /\ [][/\ Controller => Remaining' < Remaining
                  /\ Remaining' <= Remaining]_vars
<1>1. IInv => Remaining \in 0 .. 14
  BY DEF Remaining
<1>2. IInv /\ [Next]_vars => [/\ Controller => Remaining' < Remaining
                              /\ Remaining' <= Remaining]_vars
  <2> SUFFICES ASSUME IInv, Next
               PROVE  /\ Controller => Remaining' < Remaining
                      /\ Remaining' <= Remaining
    OBVIOUS
  <2>1. TypeOK
    BY DEF IInv
  <2>2. Remaining \in Int /\ Remaining' \in Int
    BY DEF Remaining
  <2>3. CASE Controller
    <3>1. Remaining' < Remaining
      BY <2>1, <2>3, ControllerAdvances
    <3>2. QED
      BY <2>2, <3>1
  <2>4. CASE ~Controller
    BY <2>1, <2>4, OthersDoNotSendBack, Zenon DEF Next
  <2>5. QED
    BY <2>3, <2>4
<1>3. QED
  BY <1>1, <1>2, Invariance, PTL DEF Spec
=============================================================================
