--------------------------- MODULE DeepAgentsAttempt ---------------------------
(***************************************************************************)
(* One attempt of DeepAgentsCandidateProvider.create_candidate             *)
(* (scripts/runner.py) beside the worker process it starts                 *)
(* (scripts/deepagents_worker.py).                                         *)
(*                                                                         *)
(* A tree is the set of items by which it differs from the shadow Git      *)
(* baseline; a patch is the set of items it carries, and the digest of a   *)
(* tree is that set itself.  A step is what lies between two effects that  *)
(* the other process or a later reader can see.                            *)
(***************************************************************************)
EXTENDS Naturals

CONSTANTS
    Edit,      \* text changes inside the permitted paths
    Faults     \* kinds of fault that may happen

\* What a worker can leave in its tree besides such edits:
Forbidden == {"outside",   \* a change outside the permitted paths
              "irregular"} \* a binary, a mode change, too many bytes or paths
Litter == {"linked",       \* a link or another irregular file
           "backup",       \* an editor backup of an unchanged baseline file
           "otherBackup",  \* an editor backup of something else
           "cache",        \* __pycache__, *.pyc, *.pyo
           "ignored"}      \* a new file that the tree's .gitignore hides
Item == Edit \cup Forbidden \cup Litter

FaultKind == {"crash", "interrupt", "filesystem", "io"}

ASSUME AttemptAssumption ==
    /\ Edit \cap (Forbidden \cup Litter) = {}
    /\ Faults \subseteq FaultKind

Exception == {"none", "PolicyDenied", "Timeout", "FlowError", "Interrupt"}
Outcome == {"RUNNING", "CANDIDATE_RETURNED", "FAILED"}
NoRecord == [outcome |-> "NONE", patch |-> {}, digest |-> {},
             complete |-> FALSE]
Record == [outcome : Outcome, patch : SUBSET Item, digest : SUBSET Item,
           complete : BOOLEAN]

VARIABLES
    \* the controller: where create_candidate is, the exception on its way,
    \* the execution dictionary (outcome, patch_sha256, candidate_digest) and
    \* worker_root.exists() after rmtree
    pc, exc, execution, removed,
    \* the attempt's workspace, and the artifacts of the attempt
    workspace, request, patchFile, record,
    \* the worker directory: whether it exists, its tree, its result.json
    root, sandbox, result,
    \* the worker process; whether the run's deadline has passed
    worker, expired

controller == <<pc, exc, execution, removed>>
directory == <<root, sandbox, result>>
artifacts == <<request, patchFile, record>>
vars == <<controller, workspace, artifacts, directory, worker, expired>>

Preparing == {"start", "copy", "request", "baseline"}
Trying == {"spawn", "wait", "grace", "read", "validate", "caches", "diff",
           "apply"}
Finally == {"cleanup", "record"}
Left == {"returned", "raised", "dead"}
Alive == {"starting", "editing", "answered"}

TypeOK ==
    /\ pc \in Preparing \cup Trying \cup Finally \cup Left
    /\ exc \in Exception
    /\ execution \in [outcome : Outcome, patch : SUBSET Item,
                      digest : SUBSET Item]
    /\ removed \in BOOLEAN /\ request \in BOOLEAN /\ root \in BOOLEAN
    /\ workspace \subseteq Item
    /\ patchFile \subseteq Item
    /\ record \in Record \cup {NoRecord}
    /\ sandbox \subseteq Item
    /\ result \in {"absent", "valid", "malformed"}
    /\ worker \in Alive \cup {"none", "exited", "failed", "killed"}
    /\ expired \in BOOLEAN

\* run_flow has just made a fresh workspace from the repository.
Init ==
    /\ pc = "start" /\ exc = "none"
    /\ execution = [outcome |-> "RUNNING", patch |-> {}, digest |-> {}]
    /\ removed = FALSE
    /\ workspace = {} /\ request = FALSE /\ patchFile = {}
    /\ record = NoRecord
    /\ root = FALSE /\ sandbox = {} /\ result = "absent"
    /\ worker = "none" /\ expired = FALSE

-----------------------------------------------------------------------------
Goto(step) == pc' = step /\ exc' = exc

\* An exception inside the try block: the except clause notes it, unless it
\* is a KeyboardInterrupt, and the finally clause follows.
Fail(kind) ==
    /\ exc' = kind
    /\ pc' = "cleanup"
    /\ execution' = [execution EXCEPT !.outcome = "FAILED"]

\* An exception before the try block leaves create_candidate at once.
FailEarly ==
    /\ exc' \in {"PolicyDenied", "Timeout", "FlowError"}
    /\ pc' = "raised"

\* validate_deepagents_workspace accepts a tree.
Regular(tree) == "linked" \notin tree

\* What git diff shows of a tree: everything but the files it ignores.
Shown(tree) == tree \ {"ignored"}

\* validate_deepagents_patch_bytes accepts a patch.
Acceptable(patch) == patch # {} /\ patch \subseteq Edit

-----------------------------------------------------------------------------
(***************************************************************************)
(* Faulty variants of definitions below, used by no specification: each is *)
(* a plausible mistake that the property named with it must notice.        *)
(***************************************************************************)
\* DiffSeesWhatWasValidated: the answer is taken when result.json appears.
WorkerReturnsEarly ==
    /\ pc = "wait"
    /\ \/ result # "absent" /\ Goto("read") /\ UNCHANGED execution
       \/ worker = "failed" /\ Fail("FlowError")
    /\ UNCHANGED <<removed, workspace, artifacts, directory, worker, expired>>

\* OnlyThePatchReachesTheWorkspace: the tree is copied instead of patched.
PatchedTree(patch) == sandbox

\* ReturnedCandidateVerifies: the digest is that of the worker's tree.
DigestOfSandbox(tree) == sandbox

\* NoSurvivor: SIGTERM is taken to have ended the worker.
KillForgotten ==
    /\ pc = "grace" /\ worker \in Alive
    /\ Fail("Timeout")
    /\ UNCHANGED <<removed, workspace, artifacts, directory, worker, expired>>

\* AttemptEnds: after SIGTERM the controller waits without a limit.
KillNever ==
    /\ pc = "grace" /\ worker \in Alive
    /\ UNCHANGED vars

\* EvidenceIsHonest: the record says what rmtree was asked to do.
RemovedAssumed(gone) == TRUE

\* ImplementsProviderContract: an incomplete cleanup is only recorded.
CleanupFailureRecorded(gone) == FALSE

-----------------------------------------------------------------------------
(***************************************************************************)
(* create_candidate before its try block.                                  *)
(***************************************************************************)
MakeWorkerRoot ==
    /\ pc = "start"
    /\ \/ ~root /\ Regular(workspace) /\ root' = TRUE /\ Goto("copy")
       \/ FailEarly /\ root' \in {root, TRUE}
    /\ UNCHANGED <<execution, removed, workspace, artifacts, sandbox, result,
                   worker, expired>>

CopyWorkspace ==
    /\ pc = "copy"
    /\ \/ sandbox' = workspace \ {"cache"} /\ Regular(sandbox')
          /\ Goto("request")
       \/ FailEarly /\ UNCHANGED sandbox
    /\ UNCHANGED <<execution, removed, workspace, artifacts, root, result,
                   worker, expired>>

WriteRequest ==
    /\ pc = "request"
    /\ \/ request' = TRUE /\ Goto("baseline")
       \/ FailEarly /\ UNCHANGED request
    /\ UNCHANGED <<execution, removed, workspace, patchFile, record,
                   directory, worker, expired>>

\* initialize_shadow_git: three git calls, each within the deadline.
CommitBaseline ==
    /\ pc = "baseline"
    /\ \/ ~expired /\ Goto("spawn")
       \/ FailEarly
    /\ UNCHANGED <<execution, removed, workspace, artifacts, directory,
                   worker, expired>>

-----------------------------------------------------------------------------
(***************************************************************************)
(* The worker process.                                                     *)
(***************************************************************************)
\* It checks its arguments and the request before it builds the agent.
WorkerStarts ==
    /\ worker = "starting"
    /\ worker' = IF request /\ root THEN "editing" ELSE "failed"
    /\ UNCHANGED <<controller, workspace, artifacts, directory, expired>>

\* A file tool of the agent.  The controller does not rely on the permissions
\* that the worker gives its tools.  A write after the directory was removed
\* may bring it back.
WorkerEdits ==
    /\ worker = "editing"
    /\ \E item \in Item : sandbox' \in {sandbox \cup {item}, sandbox \ {item}}
    /\ root' = TRUE
    /\ UNCHANGED <<controller, workspace, artifacts, result, worker, expired>>

\* The last effect of run: result.json replaces its temporary file.
WorkerAnswers ==
    /\ worker = "editing" /\ root
    /\ result' \in {"valid", "malformed"}
    /\ worker' = "answered"
    /\ UNCHANGED <<controller, workspace, artifacts, root, sandbox, expired>>

\* A zero exit code without a result is possible; so is a non-zero one with it.
WorkerExits ==
    /\ worker \in Alive
    /\ worker' \in {"exited", "failed"}
    /\ UNCHANGED <<controller, workspace, artifacts, directory, expired>>

\* SIGTERM was sent, and the worker does not handle it.
WorkerTerminates ==
    /\ pc = "grace" /\ worker \in Alive
    /\ worker' = "killed"
    /\ UNCHANGED <<controller, workspace, artifacts, directory, expired>>

-----------------------------------------------------------------------------
(***************************************************************************)
(* run_deepagents_process.                                                 *)
(***************************************************************************)
\* The timeout is computed inside the try block: an expired deadline raises.
SpawnWorker ==
    /\ pc = "spawn"
    /\ \/ ~expired /\ worker' = "starting" /\ Goto("wait")
          /\ UNCHANGED execution
       \/ /\ \/ expired /\ Fail("Timeout")
             \/ ~expired /\ Fail("FlowError")
          /\ UNCHANGED worker
    /\ UNCHANGED <<removed, workspace, artifacts, directory, expired>>

WorkerReturns ==
    /\ pc = "wait"
    /\ \/ worker = "exited" /\ Goto("read") /\ UNCHANGED execution
       \/ worker = "failed" /\ Fail("FlowError")
    /\ UNCHANGED <<removed, workspace, artifacts, directory, worker, expired>>

\* communicate times out, perhaps just as the worker ends; SIGTERM is sent.
WaitTimesOut ==
    /\ pc = "wait"
    /\ Goto("grace")
    /\ UNCHANGED <<execution, removed, workspace, artifacts, directory,
                   worker, expired>>

\* A worker that ends in the three seconds of grace has still timed out.
GraceEnds ==
    /\ pc = "grace" /\ worker \notin Alive
    /\ Fail("Timeout")
    /\ UNCHANGED <<removed, workspace, artifacts, directory, worker, expired>>

\* SIGKILL to the process group, and communicate without a timeout.
KillWorker ==
    /\ pc = "grace" /\ worker \in Alive
    /\ worker' = "killed"
    /\ Fail("Timeout")
    /\ UNCHANGED <<removed, workspace, artifacts, directory, expired>>

-----------------------------------------------------------------------------
(***************************************************************************)
(* From the worker's tree to a candidate.                                  *)
(***************************************************************************)
ReadResult ==
    /\ pc = "read"
    /\ CASE result = "valid" -> Goto("validate") /\ UNCHANGED execution
         [] result = "malformed" -> Fail("PolicyDenied")
         [] OTHER -> Fail("FlowError")
    /\ UNCHANGED <<removed, workspace, artifacts, directory, worker, expired>>

\* validate_deepagents_workspace, then remove_identical_editor_backups, which
\* stops at the first backup that it does not recognise.
DiscardBackups ==
    /\ pc = "validate"
    /\ \/ /\ Regular(sandbox) /\ "otherBackup" \notin sandbox
          /\ sandbox' = sandbox \ {"backup"}
          /\ Goto("caches") /\ UNCHANGED execution
       \/ /\ ~Regular(sandbox) \/ "otherBackup" \in sandbox
          /\ sandbox' \in {sandbox} \cup
                (IF Regular(sandbox) THEN {sandbox \ {"backup"}} ELSE {})
          /\ Fail("PolicyDenied")
       \/ "filesystem" \in Faults /\ Fail("FlowError") /\ UNCHANGED sandbox
    /\ UNCHANGED <<removed, workspace, artifacts, root, result, worker,
                   expired>>

\* remove_candidate_caches ignores what rmtree cannot remove; the tree is
\* validated again.
RemoveCaches ==
    /\ pc = "caches"
    /\ \/ sandbox' = sandbox \ {"cache"}
       \/ "filesystem" \in Faults /\ UNCHANGED sandbox
    /\ IF Regular(sandbox') THEN Goto("diff") /\ UNCHANGED execution
                            ELSE Fail("PolicyDenied")
    /\ UNCHANGED <<removed, workspace, artifacts, root, result, worker,
                   expired>>

\* shadow_git_diff, validate_deepagents_patch_bytes, patch_path.write_bytes.
DerivePatch ==
    /\ pc = "diff"
    /\ LET patch == Shown(sandbox) IN
       \/ /\ ~expired /\ Acceptable(patch)
          /\ patchFile' = patch
          /\ execution' = [execution EXCEPT !.patch = patch]
          /\ Goto("apply")
       \/ /\ \/ expired /\ Fail("Timeout")
             \/ \E kind \in {"Timeout", "FlowError"} : Fail(kind)
             \/ ~Acceptable(patch) /\ Fail("PolicyDenied")
          /\ UNCHANGED patchFile
       \/ /\ "io" \in Faults /\ Acceptable(patch)
          /\ patchFile' \in SUBSET patch
          /\ Fail("FlowError")
    /\ UNCHANGED <<removed, workspace, request, record, directory, worker,
                   expired>>

\* The workspace after git apply of a patch, and tree_digest, which leaves
\* caches out.
Patched(patch) == workspace \cup patch
TreeDigest(tree) == tree \ {"cache"}

\* apply_candidate: git apply --check, git apply within its timeout, and the
\* comparison of paths and digests; the candidate is what it returns.
ApplyPatch ==
    /\ pc = "apply"
    /\ \/ /\ ~expired
          /\ workspace' = Patched(patchFile)
          /\ execution' = [execution EXCEPT !.outcome = "CANDIDATE_RETURNED",
                                            !.digest = TreeDigest(workspace')]
          /\ pc' = "cleanup" /\ exc' = exc
       \/ /\ \/ expired /\ Fail("Timeout")
             \/ Fail("PolicyDenied")
          /\ UNCHANGED workspace
       \/ /\ ~expired
          /\ \E part \in SUBSET patchFile : workspace' = Patched(part)
          /\ \E kind \in {"Timeout", "FlowError"} : Fail(kind)
    /\ UNCHANGED <<removed, artifacts, directory, worker, expired>>

-----------------------------------------------------------------------------
(***************************************************************************)
(* The finally clause.                                                     *)
(***************************************************************************)
\* What the record says of the removal, and whether it replaces the return of
\* a candidate by a FlowError.
CleanupComplete(gone) == gone
CleanupFailure(gone) == ~gone /\ exc = "none"

\* rmtree(ignore_errors=True): a live worker can make it stop half-way.
RemoveWorkerRoot ==
    /\ pc = "cleanup"
    /\ \/ root' = FALSE /\ sandbox' = {} /\ result' = "absent"
       \/ /\ "filesystem" \in Faults \/ worker \in Alive
          /\ root' = root
          /\ sandbox' \in SUBSET sandbox
          /\ result' \in {result, "absent"}
    /\ removed' = CleanupComplete(~root')
    /\ IF CleanupFailure(~root')
       THEN /\ exc' = "FlowError"
            /\ execution' = [execution EXCEPT !.outcome = "FAILED"]
       ELSE UNCHANGED <<exc, execution>>
    /\ pc' = "record"
    /\ UNCHANGED <<workspace, artifacts, worker, expired>>

Evidence == [outcome |-> execution.outcome, patch |-> execution.patch,
             digest |-> execution.digest, complete |-> removed]

\* An error of write_json replaces the exception, or the candidate.
WriteExecution ==
    /\ pc = "record"
    /\ \/ /\ record' = Evidence
          /\ Goto(IF exc = "none" THEN "returned" ELSE "raised")
       \/ /\ "io" \in Faults
          /\ record' \in {record, Evidence}
          /\ pc' = "raised" /\ exc' = "FlowError"
    /\ UNCHANGED <<execution, removed, workspace, request, patchFile,
                   directory, worker, expired>>

-----------------------------------------------------------------------------
(***************************************************************************)
(* The environment.                                                        *)
(***************************************************************************)
\* KeyboardInterrupt: no except clause here catches it, and the worker, in a
\* session of its own, does not get the signal.
Interrupt ==
    /\ "interrupt" \in Faults
    /\ exc' = "Interrupt"
    /\ \/ pc \in Preparing /\ pc' = "raised"
       \/ pc \in Trying \cup {"cleanup"} /\ pc' = "cleanup"
       \/ pc \in Finally /\ pc' = "raised"
    /\ UNCHANGED <<execution, removed, workspace, artifacts, directory,
                   worker, expired>>

Crash ==
    /\ "crash" \in Faults /\ pc \notin Left
    /\ pc' = "dead" /\ exc' = "none"
    /\ UNCHANGED <<execution, removed, workspace, artifacts, directory,
                   worker, expired>>

DeadlinePasses ==
    /\ ~expired /\ pc \notin Left
    /\ expired' = TRUE
    /\ UNCHANGED <<controller, workspace, artifacts, directory, worker>>

Controller ==
    \/ MakeWorkerRoot \/ CopyWorkspace \/ WriteRequest \/ CommitBaseline
    \/ SpawnWorker \/ WorkerReturns \/ WaitTimesOut \/ GraceEnds \/ KillWorker
    \/ ReadResult \/ DiscardBackups \/ RemoveCaches \/ DerivePatch
    \/ ApplyPatch \/ RemoveWorkerRoot \/ WriteExecution

Worker == WorkerStarts \/ WorkerEdits \/ WorkerAnswers \/ WorkerExits
          \/ WorkerTerminates

Next == Controller \/ Worker \/ Interrupt \/ Crash \/ DeadlinePasses

Spec == Init /\ [][Next]_vars

\* The controller is one thread, and every call it waits for has a timeout.
FairSpec == Spec /\ WF_vars(Controller)

-----------------------------------------------------------------------------
(***************************************************************************)
(* What later steps of the controller read.                                *)
(***************************************************************************)
Candidate == [patch |-> execution.patch, digest |-> execution.digest]

\* retain_candidate_patch keeps the candidate: its patch file is unchanged.
Retained == Acceptable(patchFile) /\ Candidate.patch = patchFile

\* verify_deepagents_real_model_artifacts finds no issue in the execution.
ExecutionVerifies ==
    /\ record.outcome = "CANDIDATE_RETURNED" /\ record.complete
    /\ record.patch = Candidate.patch
    /\ record.digest = Candidate.digest

\* independent_verify: the digest of a clean tree after the retained patch.
TestedDigest == patchFile

-----------------------------------------------------------------------------
(***************************************************************************)
(* Properties.                                                             *)
(***************************************************************************)
\* The tree that becomes a patch is the tree that was validated: when git
\* reads it, no link, no unexplained backup and no live worker is there,
\* whatever the worker did until it ended (create_candidate after
\* run_deepagents_process).
DiffSeesWhatWasValidated ==
    pc \in {"caches", "diff", "apply"} =>
        /\ worker = "exited"
        /\ sandbox \cap {"linked", "backup", "otherBackup"} = {}

\* Whatever is in the controller's workspace came through the retained patch,
\* and that patch has only permitted edits, also after a git apply that was
\* killed half-way (apply_candidate).
OnlyThePatchReachesTheWorkspace ==
    /\ workspace \subseteq patchFile
    /\ patchFile \subseteq Edit

\* When create_candidate returns, retain_candidate_patch keeps its patch, the
\* execution record is one that verify_deepagents_real_model_artifacts accepts,
\* and the candidate's digest is that of the workspace the tests will use and
\* of the clean tree in which independent_verify applies the patch again.
ReturnedCandidateVerifies ==
    pc = "returned" =>
        /\ Retained /\ ExecutionVerifies
        /\ Candidate.digest = TreeDigest(workspace)
        /\ Candidate.digest = TestedDigest

\* A worker outlives its attempt only when the controller died or was
\* interrupted: every other way out of create_candidate has seen it end.
NoSurvivor ==
    pc \in {"returned", "raised"} /\ worker \in Alive =>
        execution.outcome = "RUNNING"

\* The execution record never claims too much: if it calls the cleanup
\* complete and no worker runs or was abandoned, there is no worker directory;
\* an incomplete cleanup never goes with a returned candidate; and only an
\* interrupted attempt is left recorded as RUNNING.
EvidenceIsHonest ==
    /\ record.complete /\ record.outcome # "RUNNING" => ~root
    /\ record.outcome = "CANDIDATE_RETURNED" =>
           /\ worker \notin Alive
           /\ record.complete \/ pc = "raised"
    /\ record.outcome = "RUNNING" => exc \in {"Interrupt", "FlowError"}

\* An attempt ends, whatever the worker does and even if it ignores SIGTERM.
AttemptEnds == <>(pc \in Left)

\* What ProviderContract sees of an attempt.
Step ==
    CASE pc \in Preparing -> "proposing"
      [] pc \in Trying \cup Finally -> "working"
      [] pc = "returned" -> "proposed"
      [] pc = "dead" -> "crashed"
      [] OTHER -> IF execution.outcome = "RUNNING" /\ worker # "none"
                  THEN "aborted" ELSE "raised"
Root == pc \notin Preparing /\ (root \/ pc \notin Left)
Incomplete == record # NoRecord /\ ~record.complete
Running == worker \in Alive

Contract == INSTANCE ProviderContract WITH
    step <- Step, root <- Root, incomplete <- Incomplete, running <- Running

\* An attempt keeps what ProviderContract promises the controller
\* (create_candidate as run_flow sees it).
ImplementsProviderContract == Contract!Spec

-----------------------------------------------------------------------------
(***************************************************************************)
(* The inductive invariant from which the invariants above follow.         *)
(***************************************************************************)
\* A worker runs only while it is waited for, or after an interrupt.
WorkerFollowsStep ==
    /\ pc \in Preparing \cup {"spawn"} => worker = "none"
    /\ pc \in {"read", "validate", "caches", "diff", "apply"} =>
           worker = "exited"
    /\ execution.outcome # "RUNNING" => worker \notin Alive

\* The outcome in memory tells how the try block was left.
OutcomeFollowsStep ==
    /\ pc \in Preparing \cup Trying =>
           execution.outcome = "RUNNING" /\ exc = "none"
    /\ pc \in Finally /\ execution.outcome = "RUNNING" => exc = "Interrupt"
    /\ pc \in Finally /\ exc = "none" =>
           execution.outcome = "CANDIDATE_RETURNED"
    /\ pc = "record" /\ exc = "none" => removed
    /\ pc = "returned" =>
           /\ execution.outcome = "CANDIDATE_RETURNED"
           /\ removed /\ record = Evidence

\* A candidate is the retained patch, applied to the clean workspace.
CandidateFollowsPatch ==
    execution.outcome = "CANDIDATE_RETURNED" =>
        /\ Acceptable(patchFile) /\ execution.patch = patchFile
        /\ workspace = patchFile /\ execution.digest = workspace

\* Nothing is in the workspace before the patch, nor in the patch before the
\* worker's tree was read.
PatchFollowsStep ==
    /\ pc \in Preparing \cup Trying => workspace = {}
    /\ pc \in Preparing \cup (Trying \ {"apply"}) => patchFile = {}
    /\ pc = "apply" => Acceptable(patchFile) /\ execution.patch = patchFile

\* What was seen to be removed stays removed unless a worker was abandoned.
RemovalFollowsStep ==
    /\ pc \in Preparing \cup Trying \cup {"cleanup"} => ~removed
    /\ removed /\ execution.outcome # "RUNNING" => ~root
    /\ pc = "record" /\ ~removed => root

\* The record is written once, at the end, from what is in memory.
RecordFollowsStep ==
    /\ record \in {NoRecord, Evidence}
    /\ pc \notin {"returned", "raised"} => record = NoRecord
    /\ record # NoRecord /\ execution.outcome = "RUNNING" =>
           exc \in {"Interrupt", "FlowError"}

IInv ==
    /\ TypeOK
    /\ WorkerFollowsStep /\ OutcomeFollowsStep
    /\ CandidateFollowsPatch /\ PatchFollowsStep
    /\ RemovalFollowsStep /\ RecordFollowsStep
    /\ DiffSeesWhatWasValidated /\ OnlyThePatchReachesTheWorkspace
===============================================================================
