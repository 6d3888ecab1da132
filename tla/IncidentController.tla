------------------------- MODULE IncidentController -------------------------
(***************************************************************************)
(* One incident run of scripts/runner.py: run_flow from the first durable  *)
(* control.json to its closeout, the Docker clients it supervises, the     *)
(* death of the controller process between any two steps, a signal that    *)
(* unwinds it, and cleanup_existing, the recovery that starts from the run *)
(* directory.                                                              *)
(*                                                                         *)
(* A step is what lies between two effects that survive the process: an    *)
(* atomic write_json, a Docker call, or the creation or removal of a       *)
(* directory.  Payloads are abstracted: a candidate is its digest, a check *)
(* is whether it passed, a Docker resource is <<attempt, phase>>.          *)
(***************************************************************************)
EXTENDS Integers, FiniteSets

CONSTANTS
    MaxAttempts,    \* max_attempts of this run
    Digest,         \* candidate digests (sha256 of the patched tree)
    NoDigest,       \* Python's None
    Patches,        \* number of patches the fixture provider holds
    RepeatLast,     \* the scenario's repeat_last_patch
    DeepAgents,     \* the candidate provider is DeepAgentsCandidateProvider
    WithDocker,     \* run --with-docker: the Compose veto is part of the test
    Faults          \* kinds of fault that may still happen at the start

FaultKind == {"crash", "interrupt", "docker", "filesystem", "unlink", "io"}

ASSUME ConstantsAssumption ==
    /\ MaxAttempts \in 1 .. 5
    /\ NoDigest \notin Digest
    /\ Patches \in Nat
    /\ RepeatLast \in BOOLEAN
    /\ DeepAgents \in BOOLEAN
    /\ WithDocker \in BOOLEAN
    /\ Faults \subseteq FaultKind

Attempt == 1 .. MaxAttempts
ContainerPhase == {"attempt-unit", "attempt-verifier",
                   "independent-unit", "independent-verifier"}
Phase == ContainerPhase \cup {"compose"}
Key == Attempt \X Phase

State == {"RECEIVED", "VALIDATED", "COLLECTING_EVIDENCE", "PATCHING",
          "TESTING", "READY_TO_PUBLISH", "REJECTED", "TIMED_OUT", "FAILED",
          "CLOSED", "CLEANUP_FAILED"}
Outcome == {"RUNNING", "SUCCEEDED", "REJECTED", "TIMED_OUT", "FAILED",
            "CLEANUP_FAILED"}
Exception == {"none", "PolicyDenied", "Timeout", "FlowError", "Interrupt"}

Control == [attempts : 0 .. MaxAttempts, state : State, outcome : Outcome,
            digest : Digest \cup {NoDigest}, preClean : BOOLEAN,
            clean : BOOLEAN]
Result == [attempt : Attempt, digest : Digest, passed : BOOLEAN,
           compose : BOOLEAN]
Verification == [accepted : BOOLEAN, digest : Digest \cup {NoDigest},
                 tested : Digest \cup {NoDigest}]

VARIABLES
    \* the controller process
    pc, control, candidate, phase, checks, exc, records, sweep, cleanOk,
    \* the artifacts of the run directory
    disk, intents, results, verification, draft, closeout, notice,
    sdkIncomplete,
    \* its directory trees
    attemptDirs, workspaces, workerRoots, verifierTree,
    \* the Docker daemon and its clients
    inflight, resources, stray, orphans, late, unreadable,
    \* time and faults
    expired, faults

memory == <<candidate, phase, checks, records, sweep, cleanOk>>
reports == <<closeout, notice>>
artifacts == <<intents, results, verification, draft, sdkIncomplete>>
trees == <<attemptDirs, workspaces, workerRoots, verifierTree>>
docker == <<inflight, resources, stray, orphans, late, unreadable>>
environment == <<expired, faults>>

vars == <<pc, control, exc, memory, disk, reports, artifacts, trees, docker,
          environment>>

RunStep == {"received", "validated", "loop", "patching", "proposing",
            "working", "proposed", "testing", "intent", "launch", "running",
            "reap", "compose", "composing", "composeDown", "result",
            "verify", "untree", "verdict", "retry", "gate", "eligible",
            "succeed", "publish", "published", "handler"}
SweepStep == {"sweepContainers", "sweepCompose", "sweepWorkspaces"}
CloseStep == {"revoke", "closeout", "close", "notify"}

ControlTypeOK ==
    /\ control \in Control
    /\ disk \in Control

MemoryTypeOK ==
    /\ pc \in RunStep \cup SweepStep \cup CloseStep \cup {"idle"}
    /\ candidate \in Digest \cup {NoDigest}
    /\ phase \in Phase
    /\ exc \in Exception
    /\ records \subseteq Attempt
    /\ sweep \in {"delivery", "closeout"}

FlagTypeOK ==
    /\ checks \in BOOLEAN
    /\ cleanOk \in BOOLEAN
    /\ verifierTree \in BOOLEAN
    /\ expired \in BOOLEAN

ArtifactTypeOK ==
    /\ intents \subseteq Key
    /\ results \subseteq Result
    /\ verification \in Verification
    /\ draft \in Digest \cup {NoDigest}
    /\ closeout \in [complete : BOOLEAN, stranded : BOOLEAN]
    /\ notice \in Outcome \cup {"NONE"}
    /\ sdkIncomplete \subseteq Attempt

ResourceTypeOK ==
    /\ attemptDirs \subseteq Attempt
    /\ workspaces \subseteq attemptDirs
    /\ workerRoots \subseteq attemptDirs
    /\ inflight \subseteq Key
    /\ resources \subseteq Key
    /\ stray \subseteq Key
    /\ orphans \subseteq stray
    /\ late \subseteq Key
    /\ unreadable \subseteq Key
    /\ faults \subseteq FaultKind

\* Every variable has its type; a worker directory and a workspace exist only
\* inside an attempt directory.
TypeOK == /\ ControlTypeOK /\ MemoryTypeOK /\ FlagTypeOK
          /\ ArtifactTypeOK /\ ResourceTypeOK

(***************************************************************************)
(* run_flow writes control.json before it enters its try block.            *)
(***************************************************************************)
Init ==
    /\ pc = "received"
    /\ control = [attempts |-> 0, state |-> "RECEIVED", outcome |-> "RUNNING",
                  digest |-> NoDigest, preClean |-> FALSE, clean |-> FALSE]
    /\ disk = control
    /\ candidate = NoDigest /\ phase = "attempt-unit" /\ checks = FALSE
    /\ exc = "none" /\ records = {} /\ sweep = "delivery" /\ cleanOk = FALSE
    /\ intents = {} /\ results = {} /\ draft = NoDigest
    /\ verification = [accepted |-> FALSE, digest |-> NoDigest,
                       tested |-> NoDigest]
    /\ closeout = [complete |-> FALSE, stranded |-> FALSE]
    /\ notice = "NONE" /\ sdkIncomplete = {}
    /\ attemptDirs = {} /\ workspaces = {} /\ workerRoots = {}
    /\ verifierTree = FALSE
    /\ inflight = {} /\ resources = {} /\ late = {}
    /\ stray = {} /\ orphans = {} /\ unreadable = {}
    /\ expired = FALSE /\ faults = Faults

-----------------------------------------------------------------------------
(***************************************************************************)
(* Shorthand.                                                              *)
(***************************************************************************)
attempt == control.attempts
Current == <<attempt, phase>>

Goto(step) == pc' = step /\ exc' = exc

\* An exception leaves the try block; independent_verify's finally runs first.
Raise(kind) ==
    /\ exc' = kind
    /\ pc' = IF pc \in {"intent", "launch", "running", "reap"} /\ verifierTree
             THEN "untree" ELSE "handler"

\* SIGINT surfaces as KeyboardInterrupt wherever the process is; what a call
\* that fails by itself can raise, and what a write of a file can.
Interruption == IF "interrupt" \in faults THEN {"Interrupt"} ELSE {}
Raisable == {"PolicyDenied", "Timeout", "FlowError"} \cup Interruption
WriteFailure ==
    (IF "io" \in faults THEN {"FlowError"} ELSE {}) \cup Interruption

\* control.json is replaced atomically by what the process holds in memory,
\* then an event is logged; a failing write or log raises in the try block.
Save(c, step) ==
    /\ control' = c
    /\ \/ disk' = c /\ Goto(step)
       \/ /\ disk' \in {c, disk}
          /\ \E kind \in WriteFailure : Raise(kind)

\* cleanup_resources starts, for the delivery gate or for closeout.
Sweep(purpose) ==
    /\ pc' = "sweepContainers"
    /\ sweep' = purpose
    /\ cleanOk' = TRUE

HasCandidate(a) ==
    \/ DeepAgents
    \/ Patches # 0 /\ (a <= Patches \/ RepeatLast)

\* The digests, the two test verdicts and the cleanup gate of
\* delivery_eligibility_issues, read from what run_flow holds and has written.
Eligible ==
    /\ \E r \in results : /\ r.attempt = attempt
                          /\ r.digest = candidate
                          /\ r.passed
    /\ verification.accepted
    /\ verification.digest = candidate
    /\ verification.tested = candidate
    /\ control.preClean

\* What makes cleanup_existing refuse a run directory it did not tamper with.
Refused ==
    \/ \E k \in intents : k[1] > disk.attempts
    \/ \E r \in results :
           \/ r.attempt > disk.attempts
           \/ r.compose /\ <<r.attempt, "compose">> \notin intents

(***************************************************************************)
(* remove_workspaces finds an attempt by its workspace and removes the     *)
(* whole attempt directory.  An error can stop it before the workspace is  *)
(* gone, or after, when the attempt directory itself is what remains.      *)
(***************************************************************************)
RemoveTrees ==
    /\ attemptDirs' = attemptDirs \ workspaces
    /\ workerRoots' = workerRoots \ workspaces
    /\ workspaces' = {}
    /\ verifierTree' = FALSE

LeaveTrees ==
    /\ faults \cap {"filesystem", "interrupt"} # {}
    /\ \E kept \in SUBSET workspaces, left \in SUBSET workspaces,
          tree \in {FALSE, verifierTree} :
         /\ kept \subseteq left
         /\ left # {} \/ tree
         /\ attemptDirs' = attemptDirs \ (workspaces \ left)
         /\ workerRoots' = workerRoots \ (workspaces \ left)
         /\ workspaces' = kept
         /\ verifierTree' = tree

ContainerKey(k) == k[2] \in ContainerPhase
OutOfRange == \E k \in intents : ContainerKey(k) /\ k[1] > disk.attempts

RemoveKeys(keys) ==
    /\ resources' = resources \ keys
    /\ late' = late \ keys

Verdict(kind) ==
    CASE kind = "PolicyDenied" -> "REJECTED"
      [] kind = "Timeout" -> "TIMED_OUT"
      [] OTHER -> "FAILED"

-----------------------------------------------------------------------------
(***************************************************************************)
(* Faulty variants of actions below.  No specification uses them: each is  *)
(* a plausible mistake that the property named with it must notice.        *)
(***************************************************************************)
\* TypeOK: the loop does not stop at max_attempts.
BeginAttemptUnbounded ==
    /\ pc = "loop"
    /\ ~expired /\ HasCandidate(attempt + 1)
    /\ Save([control EXCEPT !.attempts = attempt + 1, !.state = "PATCHING"],
            "patching")
    /\ UNCHANGED <<memory, reports, artifacts, trees, docker, environment>>

\* CleanupNeverRefused: the Compose intent is kept in memory.
JournalComposeInMemory ==
    /\ pc = "testing"
    /\ records' = IF WithDocker THEN records \cup {attempt} ELSE records
    /\ phase' = "attempt-unit"
    /\ Goto("intent")
    /\ UNCHANGED <<control, disk, candidate, checks, sweep, cleanOk, reports,
                   artifacts, trees, docker, environment>>

\* WriteAhead: the container intent is kept in memory.
JournalContainerInMemory ==
    /\ pc = "intent"
    /\ Goto("launch")
    /\ UNCHANGED <<control, disk, memory, reports, artifacts, trees, docker,
                   environment>>

\* ClosedIsClean, OwnTeardownIsTrue: the verdict of the last sweep replaces
\* the earlier ones.
SweepComposeForgets ==
    /\ pc = "sweepCompose"
    /\ LET projects == {<<a, "compose">> : a \in records} IN
       \/ RemoveKeys(projects) /\ cleanOk' = TRUE
       \/ /\ projects # {} /\ "docker" \in faults
          /\ \E gone \in SUBSET (projects \cap (resources \cup late)) :
               RemoveKeys(gone)
          /\ cleanOk' = FALSE
    /\ pc' = "sweepWorkspaces"
    /\ UNCHANGED <<control, disk, exc, candidate, phase, checks, records,
                   sweep, reports, artifacts, trees, inflight, stray, orphans,
                   unreadable, environment>>

\* InvocationEnds: cleanup is repeated until it is complete.
SweepWorkspacesUntilClean ==
    /\ pc = "sweepWorkspaces"
    /\ \/ /\ RemoveTrees
          /\ cleanOk /\ sdkIncomplete = {}
          /\ pc' = IF sweep = "delivery" THEN "gate" ELSE "revoke"
       \/ /\ RemoveTrees \/ LeaveTrees
          /\ ~cleanOk \/ sdkIncomplete # {} \/ workspaces' # {}
          /\ pc' = "sweepContainers"
    /\ cleanOk' = TRUE
    /\ UNCHANGED <<control, disk, exc, candidate, phase, checks, records,
                   sweep, reports, artifacts, docker, environment>>

\* PublishAfterTeardown: the cleanup before delivery is taken as complete.
RecordPreDeliveryAlways ==
    /\ pc = "gate"
    /\ Save([control EXCEPT !.preClean = TRUE], "eligible")
    /\ UNCHANGED <<memory, reports, artifacts, trees, docker, environment>>

\* DraftFollowsTeardown, SuccessIsTornDown (ConcurrentCleanup): the gate relies
\* on the cleanup of the attempt before.
WriteVerificationSkipsCleanup ==
    /\ pc = "verdict"
    /\ \E d \in Digest :
         /\ verification' = [accepted |-> checks /\ d = candidate,
                             digest |-> d, tested |-> candidate]
         /\ IF checks /\ d = candidate
            THEN /\ control' = [control EXCEPT !.digest = candidate]
                 /\ pc' = "gate" /\ cleanOk' = TRUE
            ELSE pc' = "retry" /\ UNCHANGED <<control, cleanOk>>
    /\ UNCHANGED <<disk, exc, candidate, phase, checks, records, sweep, reports,
                   intents, results, draft, sdkIncomplete, trees, docker,
                   environment>>

\* DraftIsExactCandidate: a late exception forgets the candidate's digest.
HandleExceptionForgets ==
    /\ pc = "handler"
    /\ control' = [control EXCEPT !.state = Verdict(exc),
                                  !.outcome = Verdict(exc),
                                  !.digest = NoDigest]
    /\ disk' \in {control'} \cup (IF "io" \in faults THEN {disk} ELSE {})
    /\ exc' = "none"
    /\ Sweep("closeout")
    /\ UNCHANGED <<candidate, phase, checks, records, reports, artifacts,
                   trees, docker, environment>>

\* ImplementsDraftDelivery: a failed delivery is tried once more.
HandleExceptionRetries ==
    /\ pc = "handler"
    /\ exc' = "none"
    /\ IF control.outcome = "SUCCEEDED"
       THEN pc' = "publish" /\ UNCHANGED <<control, disk, sweep, cleanOk>>
       ELSE /\ control' = [control EXCEPT !.state = Verdict(exc),
                                          !.outcome = Verdict(exc)]
            /\ disk' = control'
            /\ Sweep("closeout")
    /\ UNCHANGED <<candidate, phase, checks, records, reports, artifacts,
                   trees, docker, environment>>

\* EventuallySettled: the draft is revoked only after failed cleanup.
RevokeDraftIfUnclean ==
    /\ pc = "revoke"
    /\ draft' = IF cleanOk THEN draft ELSE NoDigest
    /\ Goto("closeout")
    /\ UNCHANGED <<control, disk, memory, reports, intents, results,
                   verification, sdkIncomplete, trees, docker, environment>>

\* StrandedDraftIsReported: the draft is looked for only after failed cleanup.
WriteCloseoutIfUnclean ==
    /\ pc = "closeout"
    /\ closeout' = [complete |-> cleanOk,
                    stranded |-> ~cleanOk /\ draft # NoDigest]
    /\ Goto("close")
    /\ UNCHANGED <<control, disk, memory, notice, artifacts, trees, docker,
                   environment>>

\* OutcomeNeverUpgraded: a cleanup that completes at last makes a success of
\* a run that had passed the gate, whatever was on record.
CloseControlRestores ==
    /\ pc = "close"
    /\ control' = [control EXCEPT
                      !.clean = cleanOk,
                      !.outcome = IF ~cleanOk THEN "CLEANUP_FAILED"
                                  ELSE IF control.preClean THEN "SUCCEEDED"
                                  ELSE control.outcome,
                      !.state = IF cleanOk THEN "CLOSED"
                                ELSE "CLEANUP_FAILED"]
    /\ disk' = control'
    /\ Goto("notify")
    /\ UNCHANGED <<memory, reports, artifacts, trees, docker, environment>>

\* CompleteCloseoutVerifies: the notification is sent once.
MockNotifyOnce ==
    /\ pc = "notify"
    /\ notice' = IF notice = "NONE" THEN control.outcome ELSE notice
    /\ pc' = "idle" /\ exc' = "none"
    /\ UNCHANGED <<control, disk, memory, closeout, artifacts, trees, docker,
                   environment>>

\* EventuallyReclaimed: the Compose records are rebuilt from the results.
CleanupExistingFromResults ==
    /\ pc = "idle"
    /\ ~Refused
    /\ control' = disk
    /\ records' = {r.attempt : r \in {r \in results : r.compose}}
    /\ Sweep("closeout") /\ exc' = exc
    /\ candidate' = NoDigest /\ phase' = "attempt-unit" /\ checks' = FALSE
    /\ UNCHANGED <<disk, reports, artifacts, trees, docker, environment>>

-----------------------------------------------------------------------------
(***************************************************************************)
(* The attempt loop up to the candidate.                                   *)
(***************************************************************************)
ValidateIncident ==
    /\ pc = "received"
    /\ \/ /\ ~expired
          /\ Save([control EXCEPT !.state = "VALIDATED"], "validated")
       \/ /\ Raise("PolicyDenied")
          /\ UNCHANGED <<control, disk>>
    /\ UNCHANGED <<memory, reports, artifacts, trees, docker, environment>>

CollectEvidence ==
    /\ pc = "validated"
    /\ \/ /\ ~expired
          /\ Save([control EXCEPT !.state = "COLLECTING_EVIDENCE"], "loop")
       \/ /\ Raise("PolicyDenied")
          /\ UNCHANGED <<control, disk>>
    /\ UNCHANGED <<memory, reports, artifacts, trees, docker, environment>>

BeginAttempt ==
    /\ pc = "loop"
    /\ attempt < MaxAttempts /\ ~expired /\ HasCandidate(attempt + 1)
    /\ Save([control EXCEPT !.attempts = attempt + 1, !.state = "PATCHING"],
            "patching")
    /\ UNCHANGED <<memory, reports, artifacts, trees, docker, environment>>

AttemptsExhausted ==
    /\ pc = "loop"
    /\ attempt = MaxAttempts \/ (~expired /\ ~HasCandidate(attempt + 1))
    /\ control' = [control EXCEPT !.state = "FAILED", !.outcome = "FAILED"]
    /\ \/ disk' = control' /\ Sweep("closeout") /\ exc' = exc
       \/ /\ disk' \in {control', disk}
          /\ \E kind \in WriteFailure : Raise(kind)
          /\ UNCHANGED <<sweep, cleanOk>>
    /\ UNCHANGED <<candidate, phase, checks, records, reports, artifacts,
                   trees, docker, environment>>

\* The source is validated before the copy, the copy after it.
CreateWorkspace ==
    /\ pc = "patching"
    /\ \/ /\ attemptDirs' = attemptDirs \cup {attempt}
          /\ workspaces' = workspaces \cup {attempt}
          /\ \/ Goto("proposing")
             \/ \E kind \in {"PolicyDenied"} \cup Interruption : Raise(kind)
       \/ /\ Raise("PolicyDenied")
          /\ UNCHANGED <<attemptDirs, workspaces>>
    /\ UNCHANGED <<control, disk, memory, reports, artifacts, workerRoots,
                   verifierTree, docker, environment>>

\* Only the Deep Agents provider makes a worker directory in the attempt.  It
\* prepares the directory outside its try: an exception there leaves it behind.
StartProvider ==
    /\ pc = "proposing"
    /\ \/ /\ workerRoots' = IF DeepAgents THEN workerRoots \cup {attempt}
                            ELSE workerRoots
          /\ Goto("working")
       \/ /\ DeepAgents
          /\ workerRoots' \in {workerRoots, workerRoots \cup {attempt}}
          /\ \E kind \in Raisable : Raise(kind)
    /\ UNCHANGED <<control, disk, memory, reports, artifacts, attemptDirs,
                   workspaces, verifierTree, docker, environment>>

\* create_candidate returns or raises; its finally removes the worker
\* directory and, unless that write fails, records whether it is gone.  After
\* a signal the worker may still write there, and another may stop finally.
ProviderReturns ==
    /\ pc = "working"
    /\ \E d \in Digest : candidate' = d
    /\ workerRoots' = workerRoots \ {attempt}
    /\ Goto("proposed")
    /\ UNCHANGED <<control, disk, phase, checks, records, sweep, cleanOk,
                   reports, artifacts, attemptDirs, workspaces, verifierTree,
                   docker, environment>>

ProviderFails ==
    /\ pc = "working"
    /\ \/ /\ workerRoots' = workerRoots \ {attempt}
          /\ UNCHANGED sdkIncomplete
       \/ /\ DeepAgents /\ faults \cap {"filesystem", "interrupt"} # {}
          /\ \/ sdkIncomplete' = sdkIncomplete \cup {attempt}
             \/ /\ faults \cap {"io", "interrupt"} # {}
                /\ UNCHANGED sdkIncomplete
          /\ UNCHANGED workerRoots
    /\ \E kind \in Raisable : Raise(kind)
    /\ UNCHANGED <<control, disk, memory, reports, intents, results,
                   verification, draft, attemptDirs, workspaces, verifierTree,
                   docker, environment>>

\* The contract, path, source and attempt checks before TESTING is written.
AcceptCandidate ==
    /\ pc = "proposed"
    /\ \/ /\ Save([control EXCEPT !.state = "TESTING"], "testing")
          /\ checks' = TRUE
       \/ /\ Raise("PolicyDenied")
          /\ UNCHANGED <<control, disk, checks>>
    /\ UNCHANGED <<candidate, phase, records, sweep, cleanOk, reports,
                   artifacts, trees, docker, environment>>

\* A signal may come between the intent and the record of it in memory.
JournalCompose ==
    /\ pc = "testing"
    /\ intents' = IF WithDocker THEN intents \cup {<<attempt, "compose">>}
                  ELSE intents
    /\ \/ /\ records' = IF WithDocker THEN records \cup {attempt} ELSE records
          /\ Goto("intent")
       \/ /\ "interrupt" \in faults /\ WithDocker
          /\ Raise("Interrupt")
          /\ UNCHANGED records
    /\ phase' = "attempt-unit"
    /\ UNCHANGED <<control, disk, candidate, checks, sweep, cleanOk, reports,
                   results, verification, draft, sdkIncomplete, trees, docker,
                   environment>>

-----------------------------------------------------------------------------
(***************************************************************************)
(* One candidate container: journal the intent, run the client, reap.      *)
(***************************************************************************)
JournalContainer ==
    /\ pc = "intent"
    /\ IF Current \in intents
       THEN Raise("PolicyDenied") /\ UNCHANGED intents
       ELSE Goto("launch") /\ intents' = intents \cup {Current}
    /\ UNCHANGED <<control, disk, memory, reports, results, verification,
                   draft, sdkIncomplete, trees, docker, environment>>

\* The client's timeout is computed inside the try: an expired deadline goes
\* through the reaping of a container that was never launched.
LaunchContainer ==
    /\ pc = "launch"
    /\ IF expired
       THEN pc' = "reap" /\ exc' = "Timeout" /\ UNCHANGED inflight
       ELSE Goto("running") /\ inflight' = inflight \cup {Current}
    /\ UNCHANGED <<control, disk, memory, reports, artifacts, trees,
                   resources, stray, orphans, late, unreadable, environment>>

\* docker run --rm returns: the container ran and is gone, or never existed.
ContainerReturns ==
    /\ pc = "running"
    /\ \/ /\ Current \in resources
          /\ \E passed \in BOOLEAN : checks' = (checks /\ passed)
       \/ /\ Current \in inflight
          /\ checks' = FALSE
    /\ resources' = resources \ {Current}
    /\ inflight' = inflight \ {Current}
    /\ Goto("reap")
    /\ UNCHANGED <<control, disk, candidate, phase, records, sweep, cleanOk,
                   reports, artifacts, trees, stray, orphans, late, unreadable,
                   environment>>

\* TimeoutExpired or a signal kills the client: what it asked the daemon for
\* may stay, and the cidfile it had opened may stay without the container's id.
ContainerTimesOut ==
    /\ pc = "running"
    /\ stray' = stray \cup ({Current} \cap inflight)
    /\ inflight' = inflight \ {Current}
    /\ unreadable' \in {unreadable, unreadable \cup {Current}}
    /\ pc' = "reap"
    /\ exc' \in {"Timeout"} \cup Interruption
    /\ UNCHANGED <<control, disk, memory, reports, artifacts, trees,
                   resources, orphans, late, environment>>

\* _cleanup_candidate_test_container in a finally: its FlowError replaces
\* whatever exception was on its way.  It refuses an invalid cidfile.
ReapContainer ==
    /\ pc = "reap"
    /\ \/ /\ Current \notin unreadable
          /\ resources' = resources \ {Current}
          /\ late' = late \ {Current}
          /\ exc' = exc
       \/ /\ Current \in unreadable \/ "docker" \in faults
          /\ exc' = "FlowError"
          /\ UNCHANGED <<resources, late>>
    /\ LET next == CASE phase = "attempt-unit" -> "attempt-verifier"
                     [] phase = "independent-unit" -> "independent-verifier"
                     [] OTHER -> phase
       IN  IF exc' # "none"
           THEN /\ pc' = IF verifierTree THEN "untree" ELSE "handler"
                /\ UNCHANGED phase
           ELSE /\ phase' = next
                /\ pc' = CASE next # phase -> "intent"
                           [] phase = "independent-verifier" -> "untree"
                           [] OTHER -> IF WithDocker
                                       THEN IF checks THEN "compose"
                                            ELSE "composeDown"
                                       ELSE "result"
    /\ UNCHANGED <<control, disk, candidate, checks, records, sweep, cleanOk,
                   reports, artifacts, trees, inflight, stray, orphans,
                   unreadable, environment>>

-----------------------------------------------------------------------------
(***************************************************************************)
(* The Compose veto.                                                       *)
(***************************************************************************)
ComposeUp ==
    /\ pc = "compose"
    /\ IF expired
       THEN Raise("Timeout") /\ UNCHANGED <<phase, inflight>>
       ELSE /\ phase' = "compose"
            /\ inflight' = inflight \cup {<<attempt, "compose">>}
            /\ Goto("composing")
    /\ UNCHANGED <<control, disk, candidate, checks, records, sweep, cleanOk,
                   reports, artifacts, trees, resources, stray, orphans, late,
                   unreadable, environment>>

\* compose up stops its services when the verifier service exits; it does
\* not remove them.
ComposeReturns ==
    /\ pc = "composing"
    /\ \/ /\ Current \in resources
          /\ \E passed \in BOOLEAN : checks' = passed
       \/ /\ Current \in inflight
          /\ checks' = FALSE
    /\ inflight' = inflight \ {Current}
    /\ Goto("composeDown")
    /\ UNCHANGED <<control, disk, candidate, phase, records, sweep, cleanOk,
                   reports, artifacts, trees, resources, stray, orphans, late,
                   unreadable, environment>>

ComposeTimesOut ==
    /\ pc = "composing"
    /\ stray' = stray \cup ({Current} \cap inflight)
    /\ inflight' = inflight \ {Current}
    /\ \E kind \in {"Timeout"} \cup Interruption : Raise(kind)
    /\ UNCHANGED <<control, disk, memory, reports, artifacts, trees,
                   resources, orphans, late, unreadable, environment>>

\* compose_cleanup checks the inventory again after down.
ComposeDown ==
    /\ pc = "composeDown"
    /\ \/ /\ resources' = resources \ {<<attempt, "compose">>}
          /\ late' = late \ {<<attempt, "compose">>}
          /\ Goto("result")
       \/ /\ "docker" \in faults
          /\ \E kind \in {"FlowError", "Timeout"} : Raise(kind)
          /\ UNCHANGED <<resources, late>>
    /\ UNCHANGED <<control, disk, memory, reports, artifacts, trees, inflight,
                   stray, orphans, unreadable, environment>>

WriteResult ==
    /\ pc = "result"
    /\ results' = results \cup
           {[attempt |-> attempt, digest |-> candidate, passed |-> checks,
             compose |-> phase = "compose"]}
    /\ Goto(IF checks THEN "verify" ELSE "retry")
    /\ UNCHANGED <<control, disk, memory, reports, intents, verification,
                   draft, sdkIncomplete, trees, docker, environment>>

-----------------------------------------------------------------------------
(***************************************************************************)
(* independent_verify: a clean workspace, the retained patch, both         *)
(* containers again, and the digest of the tree it got.  The try that      *)
(* removes the workspace begins after create_workspace.                    *)
(***************************************************************************)
BeginIndependent ==
    /\ pc = "verify"
    /\ verifierTree' = TRUE
    /\ phase' = "independent-unit"
    /\ checks' = TRUE
    /\ \/ Goto("intent")
       \/ /\ exc' \in Raisable
          /\ pc' \in {"untree", "handler"}
    /\ UNCHANGED <<control, disk, candidate, records, sweep, cleanOk, reports,
                   artifacts, attemptDirs, workspaces, workerRoots, docker,
                   environment>>

RemoveVerifierTree ==
    /\ pc = "untree"
    /\ \/ /\ verifierTree' = FALSE
          /\ Goto(IF exc = "none" THEN "verdict" ELSE "handler")
       \/ /\ "filesystem" \in faults
          /\ exc' = "FlowError" /\ pc' = "handler"
          /\ UNCHANGED verifierTree
    /\ UNCHANGED <<control, disk, memory, reports, artifacts, attemptDirs,
                   workspaces, workerRoots, docker, environment>>

WriteVerification ==
    /\ pc = "verdict"
    /\ \E d \in Digest :
         /\ verification' = [accepted |-> checks /\ d = candidate,
                             digest |-> d, tested |-> candidate]
         /\ IF checks /\ d = candidate
            THEN /\ control' = [control EXCEPT !.digest = candidate]
                 /\ Sweep("delivery")
            ELSE /\ pc' = "retry"
                 /\ UNCHANGED <<control, sweep, cleanOk>>
    /\ exc' = exc
    /\ UNCHANGED <<disk, candidate, phase, checks, records, reports, intents,
                   results, draft, sdkIncomplete, trees, docker, environment>>

\* A failed attempt removes its workspace before the next one starts.
Retry ==
    /\ pc = "retry"
    /\ \/ RemoveTrees /\ Goto("loop")
       \/ /\ LeaveTrees
          /\ \E kind \in {"FlowError"} \cup Interruption : Raise(kind)
    /\ UNCHANGED <<control, disk, memory, reports, artifacts, docker,
                   environment>>

-----------------------------------------------------------------------------
(***************************************************************************)
(* cleanup_resources, for the delivery gate and for closeout.  Containers  *)
(* are found through the durable intents, validated against the attempt    *)
(* counter on disk; Compose projects through the records the process       *)
(* holds.  One resource that cannot be removed does not stop the others;   *)
(* a container whose cidfile is invalid cannot be removed, and while a     *)
(* client outlives its controller the cidfile may be empty.                *)
(***************************************************************************)
SweepContainers ==
    /\ pc = "sweepContainers"
    /\ LET journaled == {k \in intents : ContainerKey(k)}
           present == journaled \cap (resources \cup late) IN
       \/ /\ ~OutOfRange /\ journaled \cap unreadable = {}
          /\ RemoveKeys(journaled)
          /\ UNCHANGED cleanOk
       \/ /\ \/ OutOfRange
             \/ journaled \cap (unreadable \cup orphans) # {}
             \/ journaled # {} /\ "docker" \in faults
          /\ \E kept \in SUBSET present :
               /\ present \cap unreadable \subseteq kept
               /\ OutOfRange => kept = present
               /\ ~OutOfRange /\ "docker" \notin faults =>
                      kept \subseteq unreadable
               /\ RemoveKeys(present \ kept)
          /\ cleanOk' = FALSE
    /\ pc' = "sweepCompose"
    /\ UNCHANGED <<control, disk, exc, candidate, phase, checks, records,
                   sweep, reports, artifacts, trees, inflight, stray, orphans,
                   unreadable, environment>>

\* compose_cleanup looks again after down: a client that outlives its
\* controller may have added to the project meanwhile.
SweepCompose ==
    /\ pc = "sweepCompose"
    /\ LET projects == {<<a, "compose">> : a \in records} IN
       \/ /\ RemoveKeys(projects)
          /\ UNCHANGED cleanOk
       \/ /\ projects # {} /\ "docker" \in faults
          /\ \E gone \in SUBSET (projects \cap (resources \cup late)) :
               RemoveKeys(gone)
          /\ cleanOk' = FALSE
       \/ /\ projects \cap orphans # {}
          /\ RemoveKeys(projects)
          /\ cleanOk' = FALSE
    /\ pc' = "sweepWorkspaces"
    /\ UNCHANGED <<control, disk, exc, candidate, phase, checks, records,
                   sweep, reports, artifacts, trees, inflight, stray, orphans,
                   unreadable, environment>>

\* The last part also reads every Deep Agents execution record.
SweepWorkspaces ==
    /\ pc = "sweepWorkspaces"
    /\ \/ RemoveTrees /\ cleanOk' = (cleanOk /\ sdkIncomplete = {})
       \/ LeaveTrees /\ cleanOk' = FALSE
    /\ pc' = IF sweep = "delivery" THEN "gate" ELSE "revoke"
    /\ UNCHANGED <<control, disk, exc, candidate, phase, checks, records,
                   sweep, reports, artifacts, docker, environment>>

-----------------------------------------------------------------------------
(***************************************************************************)
(* Delivery.                                                               *)
(***************************************************************************)
RecordPreDelivery ==
    /\ pc = "gate"
    /\ \/ /\ cleanOk
          /\ Save([control EXCEPT !.preClean = TRUE], "eligible")
       \/ /\ ~cleanOk
          /\ control' = [control EXCEPT !.preClean = FALSE]
          /\ \/ disk' = control' /\ Raise("FlowError")
             \/ /\ disk' \in {control', disk}
                /\ \E kind \in WriteFailure : Raise(kind)
    /\ UNCHANGED <<memory, reports, artifacts, trees, docker, environment>>

CheckEligibility ==
    /\ pc = "eligible"
    /\ IF Eligible THEN Goto("succeed") ELSE Raise("PolicyDenied")
    /\ UNCHANGED <<control, disk, memory, reports, artifacts, trees, docker,
                   environment>>

MarkSucceeded ==
    /\ pc = "succeed"
    /\ Save([control EXCEPT !.state = "READY_TO_PUBLISH",
                            !.outcome = "SUCCEEDED", !.digest = candidate],
            "publish")
    /\ UNCHANGED <<memory, reports, artifacts, trees, docker, environment>>

MockPublish ==
    /\ pc = "publish"
    /\ IF Eligible
       THEN draft' = candidate /\ Goto("published")
       ELSE Raise("PolicyDenied") /\ UNCHANGED draft
    /\ UNCHANGED <<control, disk, memory, reports, intents, results,
                   verification, sdkIncomplete, trees, docker, environment>>

FinishPublish ==
    /\ pc = "published"
    /\ Sweep("closeout") /\ exc' = exc
    /\ UNCHANGED <<control, disk, candidate, phase, checks, records, reports,
                   artifacts, trees, docker, environment>>

-----------------------------------------------------------------------------
(***************************************************************************)
(* Exceptions of the try block.                                            *)
(***************************************************************************)
DeadlineExpires ==
    /\ expired
    /\ \/ pc \in {"received", "validated", "proposing"}
       \/ pc = "loop" /\ attempt < MaxAttempts
    /\ Raise("Timeout")
    /\ UNCHANGED <<control, disk, memory, reports, artifacts, trees, docker,
                   environment>>

\* A write of another artifact, or the logging of an event, fails.
WriteFails ==
    /\ "io" \in faults
    /\ pc \in {"validated", "proposed", "testing", "intent", "result",
               "verify", "retry", "verdict", "gate", "publish", "published"}
    /\ Raise("FlowError")
    /\ UNCHANGED <<control, disk, memory, reports, artifacts, trees, docker,
                   environment>>

\* A signal between two steps of the try block.  Where a Docker client runs
\* it is what ends the client (ContainerTimesOut, ComposeTimesOut).
Interrupt ==
    /\ "interrupt" \in faults
    /\ \/ pc \in RunStep \ {"running", "composing", "handler"}
       \/ pc \in SweepStep /\ sweep = "delivery"
    /\ Raise("Interrupt")
    /\ UNCHANGED <<control, disk, memory, reports, artifacts, trees, docker,
                   environment>>

\* The except clauses; when their own write fails, finally still runs with
\* the outcome the process holds.
HandleException ==
    /\ pc = "handler"
    /\ exc # "Interrupt"
    /\ control' = [control EXCEPT !.state = Verdict(exc),
                                  !.outcome = Verdict(exc)]
    /\ \/ disk' = control' /\ exc' = "none"
       \/ "io" \in faults /\ UNCHANGED disk /\ exc' = "none"
       \/ "interrupt" \in faults /\ disk' \in {control', disk}
          /\ exc' = "Interrupt"
    /\ Sweep("closeout")
    /\ UNCHANGED <<candidate, phase, checks, records, reports, artifacts,
                   trees, docker, environment>>

\* No clause catches KeyboardInterrupt: finally runs with the outcome that
\* the process held when it came, or came before a clause could assign one.
Unwind ==
    /\ pc = "handler"
    /\ exc = "Interrupt" \/ "interrupt" \in faults
    /\ exc' = "Interrupt"
    /\ Sweep("closeout")
    /\ UNCHANGED <<control, disk, candidate, phase, checks, records, reports,
                   artifacts, trees, docker, environment>>

-----------------------------------------------------------------------------
(***************************************************************************)
(* closeout and mock_notify.  The draft is revoked before the verdict is   *)
(* written; an OSError of the unlink is swallowed and only reported.       *)
(***************************************************************************)
RevokeDraft ==
    /\ pc = "revoke"
    /\ \/ /\ ~cleanOk \/ control.outcome # "SUCCEEDED"
          /\ draft' = NoDigest
       \/ /\ ~cleanOk \/ control.outcome # "SUCCEEDED"
          /\ "unlink" \in faults
          /\ UNCHANGED draft
       \/ /\ cleanOk /\ control.outcome = "SUCCEEDED"
          /\ UNCHANGED draft
    /\ Goto("closeout")
    /\ UNCHANGED <<control, disk, memory, reports, intents, results,
                   verification, sdkIncomplete, trees, docker, environment>>

WriteCloseout ==
    /\ pc = "closeout"
    /\ closeout' = [complete |-> cleanOk,
                    stranded |-> /\ ~cleanOk \/ control.outcome # "SUCCEEDED"
                                 /\ draft # NoDigest]
    /\ Goto("close")
    /\ UNCHANGED <<control, disk, memory, notice, artifacts, trees, docker,
                   environment>>

CloseControl ==
    /\ pc = "close"
    /\ control' = [control EXCEPT
                      !.clean = cleanOk,
                      !.outcome = IF cleanOk THEN control.outcome
                                  ELSE "CLEANUP_FAILED",
                      !.state = IF cleanOk THEN "CLOSED"
                                ELSE "CLEANUP_FAILED"]
    /\ disk' = control'
    /\ Goto("notify")
    /\ UNCHANGED <<memory, reports, artifacts, trees, docker, environment>>

MockNotify ==
    /\ pc = "notify"
    /\ notice' = control.outcome
    /\ pc' = "idle" /\ exc' = "none"
    /\ UNCHANGED <<control, disk, memory, closeout, artifacts, trees, docker,
                   environment>>

Controller ==
    \/ ValidateIncident \/ CollectEvidence \/ BeginAttempt
    \/ AttemptsExhausted \/ CreateWorkspace \/ StartProvider
    \/ ProviderReturns \/ ProviderFails \/ AcceptCandidate \/ JournalCompose
    \/ JournalContainer \/ LaunchContainer \/ ContainerReturns
    \/ ContainerTimesOut \/ ReapContainer
    \/ ComposeUp \/ ComposeReturns \/ ComposeTimesOut \/ ComposeDown
    \/ WriteResult \/ BeginIndependent \/ RemoveVerifierTree
    \/ WriteVerification \/ Retry
    \/ SweepContainers \/ SweepCompose \/ SweepWorkspaces
    \/ RecordPreDelivery \/ CheckEligibility \/ MarkSucceeded
    \/ MockPublish \/ FinishPublish
    \/ DeadlineExpires \/ WriteFails \/ Interrupt \/ HandleException
    \/ Unwind
    \/ RevokeDraft \/ WriteCloseout \/ CloseControl \/ MockNotify

-----------------------------------------------------------------------------
(***************************************************************************)
(* Death of the controller and the operator's cleanup.                     *)
(***************************************************************************)
\* The process forgets everything; a Docker client it started lives on.  No
\* finally is left to a signal that comes during the closeout.
Crash ==
    /\ \/ "crash" \in faults
       \/ /\ "interrupt" \in faults
          /\ pc \in CloseStep \/ (pc \in SweepStep /\ sweep = "closeout")
    /\ pc # "idle"
    /\ pc' = "idle"
    /\ control' = disk
    /\ candidate' = NoDigest /\ phase' = "attempt-unit" /\ checks' = FALSE
    /\ exc' = "none" /\ records' = {} /\ sweep' = "delivery"
    /\ cleanOk' = FALSE
    /\ stray' = stray \cup inflight
    /\ orphans' = orphans \cup inflight
    /\ inflight' = {}
    /\ UNCHANGED <<disk, reports, artifacts, trees, resources, late,
                   unreadable, environment>>

\* cleanup_existing: control and the Compose records come from the disk.
CleanupExisting ==
    /\ pc = "idle"
    /\ ~Refused
    /\ control' = disk
    /\ records' = {a \in Attempt : <<a, "compose">> \in intents}
    /\ Sweep("closeout") /\ exc' = exc
    /\ candidate' = NoDigest /\ phase' = "attempt-unit" /\ checks' = FALSE
    /\ UNCHANGED <<disk, reports, artifacts, trees, docker, environment>>

-----------------------------------------------------------------------------
(***************************************************************************)
(* The Docker daemon, time, and the end of the faults.                     *)
(***************************************************************************)
DaemonCreates ==
    /\ inflight # {}
    /\ resources' = resources \cup inflight
    /\ inflight' = {}
    /\ UNCHANGED <<pc, control, exc, memory, disk, reports, artifacts, trees,
                   stray, orphans, late, unreadable, environment>>

\* A client nobody waits for: its resource appears late, or never.
StrayEnds ==
    /\ \E k \in stray :
         /\ stray' = stray \ {k}
         /\ orphans' = orphans \ {k}
         /\ late' \in {late, late \cup {k}}
    /\ UNCHANGED <<pc, control, exc, memory, disk, reports, artifacts, trees,
                   inflight, resources, unreadable, environment>>

DeadlinePasses ==
    /\ ~expired
    /\ expired' = TRUE
    /\ UNCHANGED <<pc, control, exc, memory, disk, reports, artifacts, trees,
                   docker, faults>>

FaultsCease ==
    /\ faults # {}
    /\ faults' = {}
    /\ UNCHANGED <<pc, control, exc, memory, disk, reports, artifacts, trees,
                   docker, expired>>

Environment == DaemonCreates \/ StrayEnds \/ DeadlinePasses \/ FaultsCease

Next == Controller \/ Crash \/ CleanupExisting \/ Environment

Spec == Init /\ [][Next]_vars

(***************************************************************************)
(* The controller is one thread of straight-line code over calls that all  *)
(* have a timeout, so it never stays before a step for ever; stray clients *)
(* end; the operator repeats cleanup; and faults do not last for ever.     *)
(***************************************************************************)
FairSpec ==
    /\ Spec
    /\ WF_vars(Controller) /\ WF_vars(CleanupExisting)
    /\ WF_vars(StrayEnds) /\ WF_vars(FaultsCease)

-----------------------------------------------------------------------------
(***************************************************************************)
(* Safety.                                                                 *)
(***************************************************************************)
\* Whatever Docker runs, or may still start, was journaled before it was
\* asked for, and the journal lies within the attempt counter on disk: a
\* crash at any point leaves a directory from which cleanup finds it.
WriteAhead ==
    /\ inflight \cup resources \cup stray \cup late \subseteq intents
    /\ \A k \in intents : k[1] <= disk.attempts
    /\ \A a \in attemptDirs : a <= disk.attempts

\* cleanup_existing refuses inconsistent run directories for good; the
\* controller itself, however it died, never leaves one.
CleanupNeverRefused == pc = "idle" => ~Refused

\* The draft is the digest of the attempt that control.json names, which
\* passed its own tests and the clean re-application, with cleanup recorded.
DraftIsExactCandidate ==
    draft # NoDigest =>
        /\ \E r \in results : /\ r.attempt = disk.attempts
                              /\ r.digest = draft
                              /\ r.passed
        /\ verification = [accepted |-> TRUE, digest |-> draft,
                           tested |-> draft]
        /\ disk.digest = draft
        /\ disk.preClean

\* CLOSED on disk means that nothing the controller waited for is left: no
\* container or Compose project, no candidate workspace, no verifier tree,
\* and no execution record that admits a left-over worker directory.
ClosedIsClean ==
    disk.state = "CLOSED" =>
        /\ inflight \cup resources = {}
        /\ workspaces = {}
        /\ ~verifierTree
        /\ sdkIncomplete = {}

\* A run that closed without success has no draft, except one whose unlink
\* failed, and then closeout.json says that the draft is not absent.
StrandedDraftIsReported ==
    /\ disk.state \in {"CLOSED", "CLEANUP_FAILED"}
    /\ disk.outcome # "SUCCEEDED"
    /\ draft # NoDigest
    => closeout.stranded

\* The draft appears only when every resource of the run is gone already,
\* and at most once in the life of the run directory.
PublishAfterTeardown ==
    [][draft' \notin {draft, NoDigest} =>
          /\ draft = NoDigest
          /\ disk.outcome = "SUCCEEDED" /\ disk.state = "READY_TO_PUBLISH"
          /\ inflight \cup resources = {}
          /\ workspaces = {} /\ ~verifierTree]_vars

\* A durable verdict is only ever downgraded: no crash, retry of cleanup or
\* late exception turns a run that ended otherwise into a success.  A run on
\* record as RUNNING becomes a success only by the process that holds the
\* candidate, tested, verified and cleaned up after: run_flow at its end, or
\* its closeout when a signal came in that write.  A cleanup, which reads
\* the record back and holds no candidate, leaves RUNNING what it is.
OutcomeNeverUpgraded ==
    [][/\ disk.outcome \notin {"RUNNING", "SUCCEEDED"} =>
             disk'.outcome \in {disk.outcome, "CLEANUP_FAILED"}
       /\ disk.outcome = "SUCCEEDED" => disk'.outcome # "RUNNING"
       /\ disk.outcome = "RUNNING" /\ disk'.outcome = "SUCCEEDED" =>
             Eligible /\ disk'.digest = candidate]_vars

(***************************************************************************)
(* verify_run, for what this module keeps: the check an operator runs on a *)
(* closed directory, and the issues it can report.                         *)
(***************************************************************************)
VerifyRun ==
    LET Issue(name, found) == IF found THEN {name} ELSE {}
        succeeded == disk.outcome = "SUCCEEDED"
    IN  UNION {Issue("verification", succeeded /\ ~verification.accepted),
               Issue("prerequisite", succeeded /\ ~disk.preClean),
               Issue("no draft", succeeded /\ draft = NoDigest),
               Issue("digest",
                     succeeded /\ draft \notin {NoDigest, disk.digest}),
               Issue("draft", ~succeeded /\ draft # NoDigest),
               Issue("notification", notice # disk.outcome),
               Issue("cleanup", ~closeout.complete),
               Issue("workspace", workspaces # {})}

\* A closeout that ran to its end and reported complete cleanup leaves a
\* directory in which verify_run finds nothing, with two exceptions: a draft
\* that closeout.json does not call absent, and, where a crash or a signal
\* came between the success and the delivery, the missing draft.
CompleteCloseoutVerifies ==
    [][MockNotify /\ cleanOk =>
          VerifyRun' \subseteq
              (IF closeout.stranded THEN {"draft"} ELSE {}) \cup
              (IF candidate = NoDigest \/ exc = "Interrupt"
               THEN {"no draft"} ELSE {})]_vars

-----------------------------------------------------------------------------
(***************************************************************************)
(* The inductive invariant behind the safety properties.                   *)
(***************************************************************************)
TestStep == {"intent", "launch", "running", "reap", "compose", "composing",
             "composeDown", "result"}
DeliveryStep == {"eligible", "succeed", "publish"}
CandidateStep == {"proposed", "testing", "verify", "untree", "verdict",
                  "retry"} \cup TestStep
AttemptStep == {"patching", "proposing", "working", "gate", "published"}
                   \cup CandidateStep \cup DeliveryStep

Attempting == pc \in AttemptStep \/ (pc \in SweepStep /\ sweep = "delivery")

\* Within an attempt the counter on disk is the one in memory.
AttemptIsDurable ==
    /\ disk.attempts <= control.attempts
    /\ Attempting => attempt >= 1 /\ disk.attempts = attempt
    /\ pc \in {"proposing", "working"} => attempt \in attemptDirs
    /\ pc \in CandidateStep => candidate \in Digest

\* A Docker client runs only while the process waits for it.
ClientIsWatched ==
    inflight \subseteq
        IF pc \in {"running", "composing"} THEN {Current} ELSE {}

\* Nothing is launched before its intent is on disk.
IntentFirst ==
    /\ pc = "launch" => Current \in intents
    /\ pc \in TestStep \cup {"verify"} /\ WithDocker =>
          <<attempt, "compose">> \in intents
    /\ pc \in TestStep /\ phase = "compose" => WithDocker
    /\ pc \in {"compose", "composing", "composeDown"} => WithDocker

\* The records held in memory name every Compose project that may exist; an
\* intent whose record was never made has nothing to clean up.
RecordsCoverCompose ==
    /\ pc # "idle" =>
          \A k \in inflight \cup resources :
              ~ContainerKey(k) => k[1] \in records
    /\ pc \in TestStep \cup {"verify"} /\ WithDocker => attempt \in records

\* Every result on disk lies within the counter and the journal.
ResultsAreBacked ==
    \A r \in results : /\ r.attempt <= disk.attempts
                       /\ r.compose => <<r.attempt, "compose">> \in intents

\* cleanOk speaks for the sweeps that are behind the process, and delivery
\* goes on only while it does.
GateIsClean == pc \in DeliveryStep => cleanOk

ContainersAreSwept ==
    cleanOk /\ pc \in {"sweepCompose", "sweepWorkspaces"} =>
        \A k \in resources : ~ContainerKey(k)

DockerIsSwept ==
    cleanOk /\ pc \in {"sweepWorkspaces", "gate"} \cup DeliveryStep
                          \cup CloseStep =>
        resources = {}

TreesAreSwept ==
    cleanOk /\ pc \in {"gate"} \cup DeliveryStep \cup CloseStep =>
        /\ workspaces = {}
        /\ ~verifierTree
        /\ sdkIncomplete = {}

\* The steps of a closeout, and what follows it.
CloseoutStep == (pc \in SweepStep /\ sweep = "closeout")
                    \/ pc \in CloseStep \cup {"idle"}

\* Nothing but closeout writes a final state, and nothing follows it but
\* closeout, which reads it back from the disk.
Ended == {"CLOSED", "CLEANUP_FAILED"}

ClosedIsOver ==
    control.state \in Ended \/ disk.state \in Ended =>
        CloseoutStep /\ control = disk

\* closeout.json says what control.json is going to say.
CloseoutIsTrue ==
    /\ pc \in {"close", "notify"} => closeout.complete = cleanOk
    /\ pc = "close" =>
          closeout.stranded = /\ ~cleanOk \/ control.outcome # "SUCCEEDED"
                              /\ draft # NoDigest
    /\ pc = "notify" => disk = control /\ disk.state \in Ended

\* A success, on disk or in memory, is of a verified candidate, after a
\* complete cleanup ...
SuccessIsBacked ==
    \A c \in {control, disk} :
        c.outcome = "SUCCEEDED" => verification.accepted /\ c.preClean

\* ... and has its draft when it comes to the closeout, unless the process
\* that was to write it died or was interrupted.
SuccessHasDraft ==
    /\ pc = "published" => draft # NoDigest
    /\ /\ CloseoutStep /\ pc # "idle"
       /\ control.outcome = "SUCCEEDED" /\ draft = NoDigest
       => \/ candidate = NoDigest \/ exc = "Interrupt"
          \/ pc \in {"closeout", "close"} /\ ~cleanOk

\* A draft is written only from an eligible candidate ...
EligibleAtPublish == pc \in {"succeed", "publish"} => Eligible

\* ... by a process whose record of success is on disk ...
PublishIsDurable ==
    pc = "publish" =>
        /\ disk = control
        /\ control.state = "READY_TO_PUBLISH"
        /\ control.outcome = "SUCCEEDED"
        /\ control.digest = candidate

\* ... and what the record says of the candidate stays as it is.
DraftIsLast ==
    draft # NoDigest =>
        /\ pc \in {"published", "handler"} \/ CloseoutStep
        /\ control.attempts = disk.attempts
        /\ control.digest = disk.digest
        /\ control.preClean = disk.preClean

Undecided == \/ pc \in RunStep \ {"publish", "published", "handler"}
             \/ pc \in SweepStep /\ sweep = "delivery"

\* A live attempt has no verdict; a verdict on disk is the one the process
\* holds, or can still be turned into a failure.
VerdictStands ==
    /\ Undecided => control.outcome = "RUNNING"
    /\ disk.outcome \notin {"RUNNING", "SUCCEEDED"} =>
          /\ pc = "handler" \/ CloseoutStep
          /\ control.outcome = disk.outcome
          /\ pc = "handler" => /\ exc \in {"FlowError", "Interrupt"}
                               /\ disk.outcome = "FAILED"
    /\ disk.outcome = "SUCCEEDED" =>
          /\ pc \in {"publish", "published", "handler"} \/ CloseoutStep
          /\ control.outcome # "RUNNING"

\* A success that is not on disk yet is of the candidate the process holds.
SuccessIsEarned ==
    control.outcome = "SUCCEEDED" /\ disk.outcome = "RUNNING" =>
        Eligible /\ control.digest = candidate

-----------------------------------------------------------------------------
(***************************************************************************)
(* Liveness under FairSpec.                                                *)
(***************************************************************************)
\* Every invocation, of run or of cleanup, comes to its end.
InvocationEnds == pc # "idle" ~> pc = "idle"

\* When faults stop, repeated cleanup reclaims every container, Compose
\* project and workspace, also those that appeared after an earlier CLOSED;
\* all but a container whose cidfile never got its id.
EventuallyReclaimed ==
    <>[](/\ inflight \cup resources \cup stray \cup late \subseteq unreadable
         /\ workspaces = {}
         /\ ~verifierTree)

\* ... and settles the record: CLOSED unless a Deep Agents execution record
\* holds an incomplete cleanup or a cidfile is invalid, which nothing ever
\* repairs; no draft without success; and a notification that names the
\* durable outcome.
EventuallySettled ==
    <>[](/\ disk.state = IF sdkIncomplete \cup unreadable = {} THEN "CLOSED"
                         ELSE "CLEANUP_FAILED"
         /\ draft # NoDigest => disk.outcome = "SUCCEEDED"
         /\ notice = disk.outcome)

-----------------------------------------------------------------------------
(***************************************************************************)
(* The run implements DraftDelivery.  Before the draft exists the stage is *)
(* where the live process is on its way to it; a process that died or      *)
(* turned to its closeout can no longer get there.                         *)
(***************************************************************************)
TowardsDraft ==
    /\ pc \notin {"idle", "handler", "publish", "published"} \cup CloseStep
    /\ pc \in SweepStep => sweep = "delivery"
    /\ pc = "untree" => exc = "none"
    /\ pc = "reap" => exc = "none"

Stage == CASE draft # NoDigest -> "offered"
           [] draft = NoDigest /\ pc = "publish" -> "authorised"
           [] draft = NoDigest /\ TowardsDraft -> "open"
           [] OTHER -> "ended"

Vetted == IF verification.accepted THEN verification.digest ELSE NoDigest

Delivery == INSTANCE DraftDelivery WITH
    stage <- Stage, vetted <- Vetted, offer <- draft

\* The durable draft of a run, with its crashes and repeated cleanups, takes
\* only steps of DraftDelivery.
ImplementsDraftDelivery == Delivery!Spec

-----------------------------------------------------------------------------
(***************************************************************************)
(* What the documents promise and this code does not keep.                 *)
(***************************************************************************)
\* docs/architecture.md, Cleanup: the journal and the "fresh final check"
\* close the crash window.  A docker run client that outlives the controller
\* creates its container after cleanup found it absent and closed the run.
ClosedHasNoContainer ==
    disk.state = "CLOSED" => resources \cup late = {}

\* verify_run reports "successful run has no mock GitHub delivery".  A crash
\* between the SUCCEEDED verdict and the draft, then cleanup, closes such a
\* run: nothing resumes the delivery and nothing withdraws the verdict.
ClosedSuccessHasDraft ==
    disk.state = "CLOSED" /\ disk.outcome = "SUCCEEDED" => draft # NoDigest

\* docs/architecture.md, Cleanup: the SDK worker directory is also removed.
\* Once the workspace beside it is gone, remove_workspaces no longer sees it.
ClosedHasNoWorkerDirectory ==
    disk.state = "CLOSED" => workerRoots = {}
=============================================================================
