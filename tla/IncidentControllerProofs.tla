---------------------- MODULE IncidentControllerProofs ----------------------
(***************************************************************************)
(* Theorems about IncidentController, for every value of its constants.    *)
(*                                                                         *)
(* The inductive invariant IInv is the conjunction of the parts that the   *)
(* module names.  Most steps leave the variables of a part alone or end at *)
(* a step the part does not speak of, so three tables come first: who      *)
(* writes a variable, what leads to a step, and what leads out of one.     *)
(* Every part is then a lemma about the few actions the tables leave.      *)
(***************************************************************************)
EXTENDS IncidentController, TLAPS

TypeInv == TypeOK /\ AttemptIsDurable

\* The parts of the next two that hold beside another process in the same run
\* directory as well (ConcurrentCleanup): the types of what the process holds,
\* the journal without the counter on disk, and what the sweeps establish.
FieldInv == /\ ControlTypeOK /\ MemoryTypeOK /\ FlagTypeOK
            /\ intents \subseteq Key
            /\ Attempting => attempt >= 1

Journaled == inflight \cup resources \cup stray \cup late \subseteq intents
ClientInv == Journaled /\ ClientIsWatched /\ IntentFirst
                 /\ RecordsCoverCompose
TeardownInv == GateIsClean /\ ContainersAreSwept /\ DockerIsSwept
                   /\ TreesAreSwept

JournalInv == ClientInv /\ WriteAhead /\ ResultsAreBacked

SweptInv == TeardownInv /\ ClosedIsOver /\ ClosedIsClean

DraftInv == EligibleAtPublish /\ PublishIsDurable /\ DraftIsLast
                /\ DraftIsExactCandidate

ReportInv == CloseoutIsTrue /\ StrandedDraftIsReported
                 /\ SuccessIsBacked /\ SuccessHasDraft

VerdictInv == VerdictStands /\ SuccessIsEarned

IInv == TypeInv /\ JournalInv /\ SweptInv /\ DraftInv /\ VerdictInv
            /\ ReportInv

-----------------------------------------------------------------------------
(***************************************************************************)
(* The tables.                                                             *)
(***************************************************************************)
\* A step of the environment, or none at all.
Quiet == Environment \/ UNCHANGED vars

\* The actions that write control.json.
Writer == \/ ValidateIncident \/ CollectEvidence \/ BeginAttempt
          \/ AttemptsExhausted \/ AcceptCandidate \/ WriteVerification
          \/ RecordPreDelivery \/ MarkSucceeded \/ HandleException
          \/ CloseControl

\* The actions of one Docker client.
Client == \/ LaunchContainer \/ ContainerReturns \/ ContainerTimesOut
          \/ ReapContainer \/ ComposeUp \/ ComposeReturns
          \/ ComposeTimesOut \/ ComposeDown

\* The environment touches nothing but Docker, time and the faults.
LEMMA QuietFrame ==
    ASSUME Quiet
    PROVE  UNCHANGED <<pc, control, disk, exc, memory, reports, artifacts,
                       trees>>
  BY Zenon DEF Quiet, Environment, DaemonCreates, StrayEnds, DeadlinePasses,
       FaultsCease, vars

\* Which actions write which file, tree or Docker resource.
LEMMA WhoWrites ==
    ASSUME [Next]_vars
    PROVE  /\ UNCHANGED intents \/ JournalCompose \/ JournalContainer
           /\ UNCHANGED results \/ WriteResult
           /\ UNCHANGED verification \/ WriteVerification
           /\ UNCHANGED draft \/ MockPublish \/ RevokeDraft
           /\ UNCHANGED sdkIncomplete \/ ProviderFails
           /\ UNCHANGED closeout \/ WriteCloseout
           /\ UNCHANGED notice \/ MockNotify
           /\ UNCHANGED records \/ JournalCompose \/ Crash
                 \/ CleanupExisting
           /\ UNCHANGED disk \/ Writer
           /\ UNCHANGED control \/ Writer \/ Crash \/ CleanupExisting
           /\ UNCHANGED trees \/ CreateWorkspace \/ StartProvider
                 \/ ProviderReturns \/ ProviderFails \/ BeginIndependent
                 \/ RemoveVerifierTree \/ Retry \/ SweepWorkspaces
           /\ UNCHANGED docker \/ Client \/ SweepContainers
                 \/ SweepCompose \/ Crash \/ DaemonCreates \/ StrayEnds
           /\ UNCHANGED faults \/ FaultsCease
<1>1. CASE ValidateIncident \/ CollectEvidence \/ BeginAttempt \/
     AttemptsExhausted \/ CreateWorkspace \/ StartProvider
  BY <1>1, Zenon DEF ValidateIncident, CollectEvidence, BeginAttempt,
       AttemptsExhausted, CreateWorkspace, StartProvider, Writer, Client,
       memory, reports, artifacts, trees, docker, environment
<1>2. CASE ContainerReturns \/ ContainerTimesOut \/ ReapContainer \/
     ComposeUp \/ ComposeReturns \/ ComposeTimesOut \/ ComposeDown \/
     WriteResult \/ BeginIndependent \/ RemoveVerifierTree \/
     WriteVerification \/ Retry
  BY <1>2, Zenon DEF ContainerReturns, ContainerTimesOut, ReapContainer,
       ComposeUp, ComposeReturns, ComposeTimesOut, ComposeDown, WriteResult,
       BeginIndependent, RemoveVerifierTree, WriteVerification, Retry,
       Writer, Client, memory, reports, artifacts, trees, docker,
       environment
<1>3. CASE SweepContainers \/ SweepCompose \/ SweepWorkspaces \/
     RecordPreDelivery \/ CheckEligibility \/ MarkSucceeded \/ MockPublish
     \/ FinishPublish \/ DeadlineExpires \/ WriteFails \/ Interrupt
     \/ HandleException \/ Unwind \/ RevokeDraft
  BY <1>3, Zenon DEF SweepContainers, SweepCompose, SweepWorkspaces,
       RecordPreDelivery, CheckEligibility, MarkSucceeded, MockPublish,
       FinishPublish, DeadlineExpires, WriteFails, Interrupt,
       HandleException, Unwind,
       RevokeDraft, Writer, Client, memory, reports, artifacts, trees,
       docker, environment
<1>4. CASE WriteCloseout \/ CloseControl \/ MockNotify \/ Crash \/
     CleanupExisting \/ DaemonCreates \/ StrayEnds \/ DeadlinePasses \/
     FaultsCease
  BY <1>4, Zenon DEF WriteCloseout, CloseControl, MockNotify, Crash,
       CleanupExisting, DaemonCreates, StrayEnds, DeadlinePasses,
       FaultsCease, Writer, Client, memory, reports, artifacts, trees,
       docker, environment
<1>5. CASE UNCHANGED vars
  BY <1>5, Zenon DEF vars, memory, reports, artifacts, trees, docker,
       environment
<1>6. CASE ProviderReturns \/ ProviderFails \/ AcceptCandidate \/
     JournalCompose \/ JournalContainer \/ LaunchContainer
  BY <1>6, Zenon DEF ProviderReturns, ProviderFails, AcceptCandidate,
       JournalCompose, JournalContainer, LaunchContainer, Writer, Client,
       memory, reports, artifacts, trees, docker, environment
<1>7. QED
  BY <1>1, <1>2, <1>3, <1>4, <1>5, <1>6 DEF Next, Controller, Environment

\* Which action leads to a step of the controller.
LEMMA WhereTo ==
    ASSUME [Next]_vars, ~Quiet
    PROVE  /\ pc' = "patching" => BeginAttempt
           /\ pc' = "proposing" => CreateWorkspace
           /\ pc' = "working" => StartProvider
           /\ pc' = "intent" => JournalCompose \/ ReapContainer
                                 \/ BeginIndependent
           /\ pc' = "launch" => JournalContainer
           /\ pc' = "running" => LaunchContainer
           /\ pc' = "reap" => LaunchContainer \/ ContainerReturns
                               \/ ContainerTimesOut
           /\ pc' = "compose" => ReapContainer
           /\ pc' = "composing" => ComposeUp
           /\ pc' = "composeDown" => ReapContainer \/ ComposeReturns
           /\ pc' = "result" => ReapContainer \/ ComposeDown
           /\ pc' = "verify" => WriteResult
           /\ pc' = "sweepCompose" => SweepContainers
           /\ pc' = "sweepWorkspaces" => SweepCompose
           /\ pc' \in {"gate", "revoke"} => SweepWorkspaces
           /\ pc' = "eligible" => RecordPreDelivery
           /\ pc' = "succeed" => CheckEligibility
           /\ pc' = "publish" => MarkSucceeded
           /\ pc' = "published" => MockPublish
           /\ pc' = "closeout" => RevokeDraft
           /\ pc' = "close" => WriteCloseout
           /\ pc' = "notify" => CloseControl
           /\ pc' = "idle" => MockNotify \/ Crash
<1>1. CASE ValidateIncident \/ CollectEvidence \/ BeginAttempt \/
     AttemptsExhausted \/ CreateWorkspace \/ StartProvider \/
     ProviderReturns \/ ProviderFails \/ AcceptCandidate \/ JournalCompose
     \/ JournalContainer \/ LaunchContainer
  BY <1>1, Zenon DEF ValidateIncident, CollectEvidence, BeginAttempt,
       AttemptsExhausted, CreateWorkspace, StartProvider, ProviderReturns,
       ProviderFails, AcceptCandidate, JournalCompose, JournalContainer,
       LaunchContainer, Goto, Raise, Sweep, Save
<1>2. CASE ContainerReturns \/ ContainerTimesOut \/ ReapContainer \/
     ComposeUp \/ ComposeReturns \/ ComposeTimesOut \/ ComposeDown \/
     WriteResult \/ BeginIndependent \/ RemoveVerifierTree \/
     WriteVerification \/ Retry
  BY <1>2, Zenon DEF ContainerReturns, ContainerTimesOut, ReapContainer,
       ComposeUp, ComposeReturns, ComposeTimesOut, ComposeDown, WriteResult,
       BeginIndependent, RemoveVerifierTree, WriteVerification, Retry, Goto,
       Raise, Sweep, Save
<1>3. CASE SweepContainers \/ SweepCompose \/ SweepWorkspaces \/
     RecordPreDelivery \/ CheckEligibility \/ MarkSucceeded \/ MockPublish
     \/ FinishPublish \/ DeadlineExpires \/ WriteFails \/ Interrupt
     \/ HandleException \/ Unwind \/ RevokeDraft
  BY <1>3, Zenon DEF SweepContainers, SweepCompose, SweepWorkspaces,
       RecordPreDelivery, CheckEligibility, MarkSucceeded, MockPublish,
       FinishPublish, DeadlineExpires, WriteFails, Interrupt,
       HandleException, Unwind,
       RevokeDraft, Goto, Raise, Sweep, Save
<1>4. CASE WriteCloseout \/ CloseControl \/ MockNotify \/ Crash \/
     CleanupExisting
  BY <1>4, Zenon DEF WriteCloseout, CloseControl, MockNotify, Crash,
       CleanupExisting, Goto, Raise, Sweep, Save
<1>5. QED
  BY <1>1, <1>2, <1>3, <1>4 DEF Next, Controller, Quiet

\* What leads out of a step.  A closeout never goes back to the run, and a
\* run that is decided stays so.
LEMMA WhereFrom ==
    ASSUME [Next]_vars, ~Quiet
    PROVE  /\ pc = "running" =>
                 ContainerReturns \/ ContainerTimesOut \/ Crash
           /\ pc = "composing" => ComposeReturns \/ ComposeTimesOut \/ Crash
           /\ pc \in {"publish", "published"} =>
                 pc' \in {"published", "handler"} \/ CloseoutStep'
           /\ pc = "handler" => HandleException \/ Unwind \/ Crash
           /\ pc = "idle" => CleanupExisting
           /\ CloseoutStep => CloseoutStep'
           /\ Undecided' => Undecided
<1>1. CASE ValidateIncident \/ CollectEvidence \/ BeginAttempt \/
     AttemptsExhausted \/ CreateWorkspace \/ StartProvider
  BY <1>1, Zenon DEF ValidateIncident, CollectEvidence, BeginAttempt,
       AttemptsExhausted, CreateWorkspace, StartProvider, Goto, Raise,
       Sweep, Save, memory, CloseoutStep, Undecided, RunStep, SweepStep,
       CloseStep
<1>2. CASE ProviderReturns \/ ProviderFails \/ AcceptCandidate \/
     JournalCompose \/ JournalContainer \/ LaunchContainer
  BY <1>2, Zenon DEF ProviderReturns, ProviderFails, AcceptCandidate,
       JournalCompose, JournalContainer, LaunchContainer, Goto, Raise,
       Sweep, Save, memory, CloseoutStep, Undecided, RunStep, SweepStep,
       CloseStep
<1>3. CASE ContainerReturns \/ ContainerTimesOut \/ ReapContainer \/
     ComposeUp \/ ComposeReturns \/ ComposeTimesOut
  BY <1>3, Zenon DEF ContainerReturns, ContainerTimesOut, ReapContainer,
       ComposeUp, ComposeReturns, ComposeTimesOut, Goto, Raise, Sweep, Save,
       memory, CloseoutStep, Undecided, RunStep, SweepStep, CloseStep
<1>4. CASE ComposeDown \/ WriteResult \/ BeginIndependent \/
     RemoveVerifierTree \/ WriteVerification \/ Retry
  BY <1>4, Zenon DEF ComposeDown, WriteResult, BeginIndependent,
       RemoveVerifierTree, WriteVerification, Retry, Goto, Raise, Sweep,
       Save, memory, CloseoutStep, Undecided, RunStep, SweepStep, CloseStep
<1>5. CASE SweepContainers \/ SweepCompose \/ SweepWorkspaces \/
     RecordPreDelivery \/ CheckEligibility \/ MarkSucceeded
  BY <1>5, Zenon DEF SweepContainers, SweepCompose, SweepWorkspaces,
       RecordPreDelivery, CheckEligibility, MarkSucceeded, Goto, Raise,
       Sweep, Save, memory, CloseoutStep, Undecided, RunStep, SweepStep,
       CloseStep
<1>6. CASE MockPublish \/ FinishPublish \/ DeadlineExpires \/ WriteFails \/
     Interrupt \/ HandleException \/ Unwind \/ RevokeDraft
  BY <1>6, Zenon DEF MockPublish, FinishPublish, DeadlineExpires,
       WriteFails, Interrupt, HandleException, Unwind, RevokeDraft, Goto,
       Raise, Sweep, Save,
       memory, CloseoutStep, Undecided, RunStep, SweepStep, CloseStep
<1>7. CASE WriteCloseout \/ CloseControl \/ MockNotify \/ Crash \/
     CleanupExisting
  BY <1>7, Zenon DEF WriteCloseout, CloseControl, MockNotify, Crash,
       CleanupExisting, Goto, Raise, Sweep, Save, memory, CloseoutStep,
       Undecided, RunStep, SweepStep, CloseStep
<1>8. QED
  BY <1>1, <1>2, <1>3, <1>4, <1>5, <1>6, <1>7 DEF Next, Controller, Quiet

\* An attempt begins with BeginAttempt; its candidate is the one the provider
\* returned, until the attempt is over.
LEMMA WithinAttempt ==
    ASSUME [Next]_vars, ~Quiet
    PROVE  /\ Attempting' => Attempting \/ BeginAttempt
           /\ pc' \in CandidateStep =>
                 \/ ProviderReturns
                 \/ pc \in CandidateStep /\ candidate' = candidate
<1>1. CASE ValidateIncident \/ CollectEvidence \/ BeginAttempt \/
     AttemptsExhausted \/ CreateWorkspace \/ StartProvider \/
     ProviderReturns \/ ProviderFails \/ AcceptCandidate \/ JournalCompose
     \/ JournalContainer \/ LaunchContainer
  BY <1>1, Zenon DEF ValidateIncident, CollectEvidence, BeginAttempt,
       AttemptsExhausted, CreateWorkspace, StartProvider, ProviderReturns,
       ProviderFails, AcceptCandidate, JournalCompose, JournalContainer,
       LaunchContainer, Goto, Raise, Sweep, Save, memory, Attempting,
       AttemptStep, CandidateStep, DeliveryStep, SweepStep, TestStep
<1>2. CASE ContainerReturns \/ ContainerTimesOut \/ ReapContainer \/
     ComposeUp \/ ComposeReturns \/ ComposeTimesOut \/ ComposeDown \/
     WriteResult \/ BeginIndependent \/ RemoveVerifierTree \/
     WriteVerification \/ Retry
  BY <1>2, Zenon DEF ContainerReturns, ContainerTimesOut, ReapContainer,
       ComposeUp, ComposeReturns, ComposeTimesOut, ComposeDown, WriteResult,
       BeginIndependent, RemoveVerifierTree, WriteVerification, Retry, Goto,
       Raise, Sweep, Save, memory, Attempting, AttemptStep, CandidateStep,
       DeliveryStep, SweepStep, TestStep
<1>3. CASE SweepContainers \/ SweepCompose \/ SweepWorkspaces \/
     RecordPreDelivery \/ CheckEligibility \/ MarkSucceeded \/ MockPublish
     \/ FinishPublish \/ DeadlineExpires \/ WriteFails \/ Interrupt
     \/ HandleException \/ Unwind \/ RevokeDraft
  BY <1>3, Zenon DEF SweepContainers, SweepCompose, SweepWorkspaces,
       RecordPreDelivery, CheckEligibility, MarkSucceeded, MockPublish,
       FinishPublish, DeadlineExpires, WriteFails, Interrupt,
       HandleException, Unwind,
       RevokeDraft, Goto, Raise, Sweep, Save, memory, Attempting,
       AttemptStep, CandidateStep, DeliveryStep, SweepStep, TestStep
<1>4. CASE WriteCloseout \/ CloseControl \/ MockNotify \/ Crash \/
     CleanupExisting
  BY <1>4, Zenon DEF WriteCloseout, CloseControl, MockNotify, Crash,
       CleanupExisting, Goto, Raise, Sweep, Save, memory, Attempting,
       AttemptStep, CandidateStep, DeliveryStep, SweepStep, TestStep
<1>5. QED
  BY <1>1, <1>2, <1>3, <1>4 DEF Next, Controller, Quiet

-----------------------------------------------------------------------------
(***************************************************************************)
(* What the actions that write control.json do to its fields.              *)
(***************************************************************************)
\* The fields of a control record have their types.
LEMMA ControlFields ==
    ASSUME NEW c \in Control
    PROVE  /\ c.attempts \in 0 .. MaxAttempts
           /\ c.outcome \in Outcome
           /\ c.digest \in Digest \cup {NoDigest}
  BY DEF Control

\* The updates of write_json's payload give control records again.
LEMMA Updates ==
    ASSUME NEW c \in Control
    PROVE  /\ \A s \in State : [c EXCEPT !.state = s] \in Control
           /\ \A n \in 0 .. MaxAttempts, s \in State :
                 [c EXCEPT !.attempts = n, !.state = s] \in Control
           /\ \A s \in State, o \in Outcome :
                 [c EXCEPT !.state = s, !.outcome = o] \in Control
           /\ \A d \in Digest \cup {NoDigest} :
                 [c EXCEPT !.digest = d] \in Control
           /\ \A b \in BOOLEAN : [c EXCEPT !.preClean = b] \in Control
           /\ \A s \in State, o \in Outcome, d \in Digest \cup {NoDigest} :
                 [c EXCEPT !.state = s, !.outcome = o, !.digest = d]
                     \in Control
           /\ \A b \in BOOLEAN, o \in Outcome, s \in State :
                 [c EXCEPT !.clean = b, !.outcome = o, !.state = s]
                     \in Control
<1>. USE DEF Control
<1>1. \A s \in State : [c EXCEPT !.state = s] \in Control
  OBVIOUS
<1>2. \A n \in 0 .. MaxAttempts, s \in State :
          [c EXCEPT !.attempts = n, !.state = s] \in Control
  OBVIOUS
<1>3. \A s \in State, o \in Outcome :
          [c EXCEPT !.state = s, !.outcome = o] \in Control
  OBVIOUS
<1>4. \A d \in Digest \cup {NoDigest} : [c EXCEPT !.digest = d] \in Control
  OBVIOUS
<1>5. \A b \in BOOLEAN : [c EXCEPT !.preClean = b] \in Control
  OBVIOUS
<1>6. \A s \in State, o \in Outcome, d \in Digest \cup {NoDigest} :
          [c EXCEPT !.state = s, !.outcome = o, !.digest = d] \in Control
  OBVIOUS
<1>7. \A b \in BOOLEAN, o \in Outcome, s \in State :
          [c EXCEPT !.clean = b, !.outcome = o, !.state = s] \in Control
  OBVIOUS
<1>8. QED
  BY <1>1, <1>2, <1>3, <1>4, <1>5, <1>6, <1>7, Zenon

\* The candidate's fields are left as they are.
SameCandidate == /\ control'.digest = control.digest
                 /\ control'.preClean = control.preClean

\* The write succeeds and the run goes on, or it raises in the try block.
Written(step) == \/ disk' = control' /\ pc' = step /\ exc' = exc
                 \/ /\ disk' \in {control', disk}
                    /\ pc' = "handler" /\ exc' \in {"FlowError", "Interrupt"}

\* Save does that, except at the journal step.
LEMMA SaveStep ==
    ASSUME NEW c, NEW step, Save(c, step),
           pc \notin {"intent", "launch", "running", "reap"}
    PROVE  control' = c /\ Written(step)
  BY Zenon DEF Save, Goto, Raise, Written, WriteFailure, Interruption

\* The saves of VALIDATED, COLLECTING_EVIDENCE and TESTING only set state.
LEMMA StateSaveEffect ==
    ASSUME control \in Control,
           ValidateIncident \/ CollectEvidence \/ AcceptCandidate
    PROVE  /\ control' \in Control /\ disk' \in {control', disk}
           /\ control'.attempts = attempt /\ SameCandidate
           /\ control'.outcome = control.outcome
           /\ control'.state = control.state \/ control'.state \notin Ended
           /\ pc \in {"received", "validated", "proposed"}
           /\ pc' \in {"validated", "loop", "testing", "handler"}
<1>1. /\ \/ UNCHANGED control
         \/ \E s \in {"VALIDATED", "COLLECTING_EVIDENCE", "TESTING"} :
               control' = [control EXCEPT !.state = s]
      /\ disk' \in {control', disk}
      /\ pc \in {"received", "validated", "proposed"}
      /\ pc' \in {"validated", "loop", "testing", "handler"}
  BY Zenon DEF ValidateIncident, CollectEvidence, AcceptCandidate, Save,
       Goto, Raise
<1>2. CASE UNCHANGED control
  BY <1>1, <1>2, Zenon DEF SameCandidate, attempt
<1>3. ASSUME NEW s \in {"VALIDATED", "COLLECTING_EVIDENCE", "TESTING"},
             control' = [control EXCEPT !.state = s]
      PROVE  /\ control' \in Control
             /\ control'.attempts = attempt /\ SameCandidate
             /\ control'.outcome = control.outcome
             /\ control'.state \notin Ended
  <2>1. s \in State /\ s \notin Ended
    BY DEF State, Ended
  <2>2. control' \in Control
    BY <1>3, <2>1, Updates, Zenon
  <2>3. QED
    BY <1>3, <2>1, <2>2, Zenon DEF Control, SameCandidate, attempt
<1>4. QED
  BY <1>1, <1>2, <1>3, Zenon

\* The start of an attempt advances the counter.
LEMMA BeginAttemptEffect ==
    ASSUME control \in Control, BeginAttempt
    PROVE  /\ control' \in Control /\ Written("patching")
           /\ control'.attempts = attempt + 1 /\ SameCandidate
           /\ control'.outcome = control.outcome
           /\ control'.state = "PATCHING"
           /\ pc = "loop" /\ attempt < MaxAttempts
<1>1. /\ control' = [control EXCEPT !.attempts = attempt + 1,
                                    !.state = "PATCHING"]
      /\ Written("patching")
      /\ pc = "loop" /\ attempt < MaxAttempts
  BY SaveStep, Zenon DEF BeginAttempt
<1>2. attempt + 1 \in 0 .. MaxAttempts
  BY <1>1, ControlFields, ConstantsAssumption, SMT DEF attempt
<1>3. "PATCHING" \in State
  BY DEF State
<1>4. control' \in Control
  BY <1>1, <1>2, <1>3, Updates, Zenon
<1>5. QED
  BY <1>1, <1>4, Zenon DEF Control, SameCandidate, attempt

\* After the last attempt the run fails and closes.
LEMMA AttemptsExhaustedEffect ==
    ASSUME control \in Control, AttemptsExhausted
    PROVE  /\ control' \in Control
           /\ control'.attempts = attempt /\ SameCandidate
           /\ control'.outcome = "FAILED" /\ control'.state = "FAILED"
           /\ pc = "loop"
           /\ \/ /\ disk' = control' /\ pc' = "sweepContainers"
                 /\ sweep' = "closeout" /\ exc' = exc
              \/ /\ disk' \in {control', disk}
                 /\ pc' = "handler" /\ exc' \in {"FlowError", "Interrupt"}
<1>1. /\ control' = [control EXCEPT !.state = "FAILED", !.outcome = "FAILED"]
      /\ pc = "loop"
  BY Zenon DEF AttemptsExhausted
<1>2. \/ /\ disk' = control' /\ pc' = "sweepContainers"
         /\ sweep' = "closeout" /\ exc' = exc
      \/ /\ disk' \in {control', disk}
         /\ pc' = "handler" /\ exc' \in {"FlowError", "Interrupt"}
  BY Zenon DEF AttemptsExhausted, Sweep, Raise, WriteFailure, Interruption
<1>3. "FAILED" \in State /\ "FAILED" \in Outcome
  BY DEF State, Outcome
<1>4. control' \in Control
  BY <1>1, <1>3, Updates, Zenon
<1>5. QED
  BY <1>1, <1>2, <1>4, Zenon DEF Control, SameCandidate, attempt

\* The independent verification records the accepted digest in memory.
LEMMA WriteVerificationEffect ==
    ASSUME control \in Control, WriteVerification,
           candidate \in Digest \cup {NoDigest}
    PROVE  /\ control' \in Control /\ disk' = disk
           /\ control'.attempts = attempt
           /\ control'.outcome = control.outcome
           /\ control'.state = control.state
           /\ pc = "verdict"
           /\ \/ pc' = "sweepContainers" /\ sweep' = "delivery"
              \/ pc' = "retry"
<1>1. /\ control' \in {control, [control EXCEPT !.digest = candidate]}
      /\ disk' = disk /\ pc = "verdict"
      /\ \/ pc' = "sweepContainers" /\ sweep' = "delivery"
         \/ pc' = "retry"
  BY Zenon DEF WriteVerification, Sweep
<1>2. control' \in Control
  BY <1>1, Updates, Zenon
<1>3. QED
  BY <1>1, <1>2, Zenon DEF Control, attempt

\* The cleanup gate before delivery is recorded; delivery goes on only if the
\* cleanup was complete.
LEMMA RecordPreDeliveryEffect ==
    ASSUME control \in Control, RecordPreDelivery
    PROVE  /\ control' \in Control /\ disk' \in {control', disk}
           /\ control'.attempts = attempt
           /\ control'.outcome = control.outcome
           /\ control'.state = control.state
           /\ pc = "gate"
           /\ pc' = "handler" \/ (cleanOk /\ pc' = "eligible")
<1>1. CASE cleanOk
  <2>1. /\ control' = [control EXCEPT !.preClean = TRUE]
        /\ Written("eligible")
        /\ pc = "gate"
    BY <1>1, SaveStep, Zenon DEF RecordPreDelivery
  <2>2. control' \in Control
    BY <2>1, Updates, Zenon
  <2>3. disk' \in {control', disk} /\ (pc' = "handler" \/ pc' = "eligible")
    BY <2>1, Zenon DEF Written
  <2>4. /\ control'.attempts = control.attempts
        /\ control'.outcome = control.outcome
        /\ control'.state = control.state
    BY <2>1, Zenon DEF Control
  <2>5. QED
    BY <1>1, <2>1, <2>2, <2>3, <2>4, Zenon DEF attempt
<1>2. CASE ~cleanOk
  <2>1. /\ control' = [control EXCEPT !.preClean = FALSE]
        /\ pc = "gate" /\ pc' = "handler"
    BY <1>2, Zenon DEF RecordPreDelivery, Raise
  <2>2. disk' \in {control', disk}
    BY <1>2 DEF RecordPreDelivery
  <2>3. control' \in Control
    BY <2>1, Updates, Zenon
  <2>4. QED
    BY <2>1, <2>2, <2>3, Zenon DEF Control, attempt
<1>3. QED
  BY <1>1, <1>2

\* The verdict of success names the candidate.
LEMMA MarkSucceededEffect ==
    ASSUME control \in Control, MarkSucceeded,
           candidate \in Digest \cup {NoDigest}
    PROVE  /\ control' \in Control /\ Written("publish")
           /\ control'.attempts = attempt
           /\ control'.outcome = "SUCCEEDED"
           /\ control'.state = "READY_TO_PUBLISH"
           /\ control'.digest = candidate
           /\ control'.preClean = control.preClean
           /\ pc = "succeed"
<1>1. /\ control' = [control EXCEPT !.state = "READY_TO_PUBLISH",
                                    !.outcome = "SUCCEEDED",
                                    !.digest = candidate]
      /\ Written("publish")
      /\ pc = "succeed"
  BY SaveStep, Zenon DEF MarkSucceeded
<1>2. "READY_TO_PUBLISH" \in State /\ "SUCCEEDED" \in Outcome
  BY DEF State, Outcome
<1>3. control' \in Control
  BY <1>1, <1>2, Updates, Zenon
<1>4. QED
  BY <1>1, <1>3, Zenon DEF Control, attempt

\* An exception turns into its verdict and a closeout.
LEMMA HandleExceptionEffect ==
    ASSUME control \in Control, HandleException
    PROVE  /\ control' \in Control /\ disk' \in {control', disk}
           /\ control'.attempts = attempt /\ SameCandidate
           /\ control'.outcome = Verdict(exc) /\ control'.state = Verdict(exc)
           /\ Verdict(exc) \in {"REJECTED", "TIMED_OUT", "FAILED"}
           /\ pc = "handler" /\ pc' = "sweepContainers"
           /\ sweep' = "closeout" /\ exc' \in {"none", "Interrupt"}
<1>1. /\ control' = [control EXCEPT !.state = Verdict(exc),
                                    !.outcome = Verdict(exc)]
      /\ pc = "handler" /\ pc' = "sweepContainers"
      /\ sweep' = "closeout" /\ exc' \in {"none", "Interrupt"}
  BY Zenon DEF HandleException, Sweep
<1>2. disk' \in {control', disk}
  BY DEF HandleException
<1>3. /\ Verdict(exc) \in {"REJECTED", "TIMED_OUT", "FAILED"}
      /\ Verdict(exc) \in State /\ Verdict(exc) \in Outcome
  BY SMT DEF Verdict, State, Outcome
<1>4. control' \in Control
  BY <1>1, <1>3, Updates, Zenon
<1>5. QED
  BY <1>1, <1>2, <1>3, <1>4, Zenon DEF Control, SameCandidate, attempt

\* The closeout writes CLOSED only after complete cleanup.
LEMMA CloseControlEffect ==
    ASSUME control \in Control, CloseControl, cleanOk \in BOOLEAN
    PROVE  /\ control' \in Control /\ disk' = control'
           /\ control'.attempts = attempt /\ SameCandidate
           /\ control'.outcome = IF cleanOk THEN control.outcome
                                 ELSE "CLEANUP_FAILED"
           /\ control'.state = IF cleanOk THEN "CLOSED" ELSE "CLEANUP_FAILED"
           /\ pc = "close" /\ pc' = "notify" /\ exc' = exc
<1>. DEFINE o == IF cleanOk THEN control.outcome ELSE "CLEANUP_FAILED"
            s == IF cleanOk THEN "CLOSED" ELSE "CLEANUP_FAILED"
<1>1. /\ control' = [control EXCEPT !.clean = cleanOk, !.outcome = o,
                                    !.state = s]
      /\ disk' = control'
      /\ pc = "close" /\ pc' = "notify" /\ exc' = exc
  BY Zenon DEF CloseControl, Goto
<1>2. o \in Outcome /\ s \in State
  BY ControlFields, SMT DEF Outcome, State
<1>. HIDE DEF o, s
<1>3. control' \in Control
  BY <1>1, <1>2, Updates, Zenon
<1>4. QED
  BY <1>1, <1>3, Zenon DEF Control, SameCandidate, attempt, o, s

\* Whichever action writes control.json: the disk has the new record or still
\* the old one, only BeginAttempt counts, only closeout closes.
LEMMA WriterEffect ==
    ASSUME FieldInv, Writer
    PROVE  /\ control' \in Control /\ disk' \in {control', disk}
           /\ control'.attempts = attempt \/ BeginAttempt
           /\ \/ control'.state \in {control.state} \cup (State \ Ended)
              \/ CloseControl
<1>0. /\ control \in Control /\ candidate \in Digest \cup {NoDigest}
      /\ cleanOk \in BOOLEAN
  BY DEF FieldInv, ControlTypeOK, MemoryTypeOK, FlagTypeOK
<1>1. CASE ValidateIncident \/ CollectEvidence \/ AcceptCandidate
  <2>1. control'.state \in State
    BY <1>0, <1>1, StateSaveEffect, Zenon DEF Control
  <2>2. QED
    BY <1>0, <1>1, <2>1, StateSaveEffect, Zenon
<1>2. CASE BeginAttempt
  BY <1>0, <1>2, BeginAttemptEffect, SMT DEF Written, State, Ended
<1>3. CASE AttemptsExhausted
  BY <1>0, <1>3, AttemptsExhaustedEffect, SMT DEF State, Ended
<1>4. CASE WriteVerification
  BY <1>0, <1>4, WriteVerificationEffect, Zenon
<1>5. CASE RecordPreDelivery
  BY <1>0, <1>5, RecordPreDeliveryEffect, Zenon
<1>6. CASE MarkSucceeded
  BY <1>0, <1>6, MarkSucceededEffect, SMT DEF Written, State, Ended
<1>7. CASE HandleException
  BY <1>0, <1>7, HandleExceptionEffect, SMT DEF State, Ended
<1>8. CASE CloseControl
  BY <1>0, <1>8, CloseControlEffect, Zenon
<1>9. QED
  BY <1>1, <1>2, <1>3, <1>4, <1>5, <1>6, <1>7, <1>8 DEF Writer

-----------------------------------------------------------------------------
(***************************************************************************)
(* Types.                                                                  *)
(***************************************************************************)
\* FieldInv is a part of the type invariant.
LEMMA Fields == TypeInv => FieldInv
  BY DEF TypeInv, TypeOK, ArtifactTypeOK, AttemptIsDurable, FieldInv

\* During an attempt the counter is one of the attempts.
LEMMA AttemptInRange ==
    ASSUME FieldInv, pc \in AttemptStep
    PROVE  attempt \in Attempt
  BY ConstantsAssumption DEF FieldInv, ControlTypeOK, Attempting, Control,
     attempt, Attempt

\* control.json and its copy in memory keep their type.
LEMMA ControlTyped ==
    FieldInv /\ [Next]_vars => ControlTypeOK'
<1> SUFFICES ASSUME FieldInv, [Next]_vars
             PROVE  ControlTypeOK'
  OBVIOUS
<1>0. control \in Control /\ disk \in Control
  BY DEF FieldInv, ControlTypeOK
<1>1. CASE Writer
  BY <1>0, <1>1, WriterEffect, Zenon DEF ControlTypeOK
<1>2. CASE ~Writer
  <2>1. disk' = disk /\ control' \in {control, disk}
    BY <1>2, WhoWrites, Zenon DEF Crash, CleanupExisting
  <2>2. QED
    BY <1>0, <2>1, Zenon DEF ControlTypeOK
<1>3. QED
  BY <1>1, <1>2

\* The flags of the process, of the clock and of the verifier tree.
LEMMA FlagTyped ==
    FieldInv /\ [Next]_vars => FlagTypeOK'
<1> SUFFICES ASSUME FieldInv, [Next]_vars
             PROVE  FlagTypeOK'
  OBVIOUS
<1> USE DEF FieldInv, FlagTypeOK
<1>1. CASE ValidateIncident \/ CollectEvidence \/ BeginAttempt \/
     AttemptsExhausted \/ CreateWorkspace \/ StartProvider \/
     ProviderReturns \/ ProviderFails \/ AcceptCandidate \/ JournalCompose
     \/ JournalContainer \/ LaunchContainer
  BY <1>1, Zenon DEF ValidateIncident, CollectEvidence, BeginAttempt,
       AttemptsExhausted, CreateWorkspace, StartProvider, ProviderReturns,
       ProviderFails, AcceptCandidate, JournalCompose, JournalContainer,
       LaunchContainer, Goto, Raise, Sweep, Save, RemoveTrees, LeaveTrees,
       memory, trees, environment
<1>2. CASE ContainerReturns \/ ContainerTimesOut \/ ReapContainer \/
     ComposeUp \/ ComposeReturns \/ ComposeTimesOut \/ ComposeDown \/
     WriteResult \/ BeginIndependent \/ RemoveVerifierTree \/
     WriteVerification \/ Retry
  BY <1>2, Zenon DEF ContainerReturns, ContainerTimesOut, ReapContainer,
       ComposeUp, ComposeReturns, ComposeTimesOut, ComposeDown, WriteResult,
       BeginIndependent, RemoveVerifierTree, WriteVerification, Retry, Goto,
       Raise, Sweep, Save, RemoveTrees, LeaveTrees, memory, trees,
       environment
<1>3. CASE SweepContainers \/ SweepCompose \/ SweepWorkspaces \/
     RecordPreDelivery \/ CheckEligibility \/ MarkSucceeded \/ MockPublish
     \/ FinishPublish \/ DeadlineExpires \/ WriteFails \/ Interrupt
     \/ HandleException \/ Unwind \/ RevokeDraft
  BY <1>3, Zenon DEF SweepContainers, SweepCompose, SweepWorkspaces,
       RecordPreDelivery, CheckEligibility, MarkSucceeded, MockPublish,
       FinishPublish, DeadlineExpires, WriteFails, Interrupt,
       HandleException, Unwind,
       RevokeDraft, Goto, Raise, Sweep, Save, RemoveTrees, LeaveTrees,
       memory, trees, environment
<1>4. CASE WriteCloseout \/ CloseControl \/ MockNotify \/ Crash \/
     CleanupExisting \/ DaemonCreates \/ StrayEnds \/ DeadlinePasses \/
     FaultsCease
  BY <1>4, Zenon DEF WriteCloseout, CloseControl, MockNotify, Crash,
       CleanupExisting, DaemonCreates, StrayEnds, DeadlinePasses,
       FaultsCease, Goto, Raise, Sweep, Save, RemoveTrees, LeaveTrees,
       memory, trees, environment
<1>5. CASE UNCHANGED vars
  BY <1>5, Zenon DEF vars, memory, trees, environment
<1>6. QED
  BY <1>1, <1>2, <1>3, <1>4, <1>5 DEF Next, Controller, Environment

\* The variables of the process.
LEMMA MemoryTyped ==
    FieldInv /\ [Next]_vars => MemoryTypeOK'
<1> SUFFICES ASSUME FieldInv, [Next]_vars
             PROVE  MemoryTypeOK'
  OBVIOUS
<1>0. MemoryTypeOK
  BY DEF FieldInv
<1>a. \A kind \in Raisable \cup WriteFailure \cup Interruption :
          kind \in Exception
  BY Zenon DEF Raisable, WriteFailure, Interruption, Exception
<1> USE <1>0, <1>a DEF MemoryTypeOK, RunStep, SweepStep, CloseStep, Exception,
                 Phase, ContainerPhase
<1>1. CASE JournalCompose
  <2>1. attempt \in Attempt
    BY <1>1, AttemptInRange, Zenon DEF JournalCompose, AttemptStep,
       CandidateStep
  <2>2. QED
    BY <1>1, <2>1, SMT DEF JournalCompose, Goto, Raise
<1>2. CASE ReapContainer \/ SweepContainers \/ SweepCompose \/ SweepWorkspaces
  BY <1>2, SMT DEF ReapContainer, SweepContainers, SweepCompose,
       SweepWorkspaces
<1>3. CASE WriteVerification
  BY <1>3, Zenon DEF WriteVerification, Sweep
<1>4. CASE StartProvider
  BY <1>4, SMT DEF StartProvider, Goto, Raise, memory
<1>5. CASE ValidateIncident
  BY <1>5, Zenon DEF ValidateIncident, Goto, Raise, Sweep, Save, memory
<1>6. CASE CollectEvidence
  BY <1>6, Zenon DEF CollectEvidence, Goto, Raise, Sweep, Save, memory
<1>7. CASE BeginAttempt
  BY <1>7, Zenon DEF BeginAttempt, Goto, Raise, Sweep, Save, memory
<1>8. CASE AttemptsExhausted
  BY <1>8, Zenon DEF AttemptsExhausted, Goto, Raise, Sweep, Save, memory
<1>9. CASE CreateWorkspace
  BY <1>9, Zenon DEF CreateWorkspace, Goto, Raise, Sweep, Save, memory
<1>10. CASE ProviderReturns
  BY <1>10, Zenon DEF ProviderReturns, Goto, Raise, Sweep, Save, memory
<1>11. CASE ProviderFails
  BY <1>11, Zenon DEF ProviderFails, Goto, Raise, Sweep, Save, memory
<1>12. CASE AcceptCandidate
  BY <1>12, Zenon DEF AcceptCandidate, Goto, Raise, Sweep, Save, memory
<1>13. CASE JournalContainer \/ LaunchContainer
  BY <1>13, Zenon DEF JournalContainer, LaunchContainer, Goto, Raise, Sweep,
       Save, memory
<1>14. CASE ContainerReturns \/ ContainerTimesOut
  BY <1>14, Zenon DEF ContainerReturns, ContainerTimesOut, Goto, Raise, Sweep,
       Save, memory
<1>15. CASE ComposeUp \/ ComposeReturns
  BY <1>15, Zenon DEF ComposeUp, ComposeReturns, Goto, Raise, Sweep, Save,
       memory
<1>16. CASE ComposeTimesOut \/ ComposeDown
  BY <1>16, Zenon DEF ComposeTimesOut, ComposeDown, Goto, Raise, Sweep, Save,
       memory
<1>17. CASE WriteResult \/ BeginIndependent
  BY <1>17, Zenon DEF WriteResult, BeginIndependent, Goto, Raise, Sweep, Save,
       memory
<1>18. CASE RemoveVerifierTree \/ Retry
  BY <1>18, Zenon DEF RemoveVerifierTree, Retry, Goto, Raise, Sweep, Save,
       memory
<1>19. CASE RecordPreDelivery \/ CheckEligibility
  BY <1>19, Zenon DEF RecordPreDelivery, CheckEligibility, Goto, Raise, Sweep,
       Save, memory
<1>20. CASE MarkSucceeded \/ MockPublish
  BY <1>20, Zenon DEF MarkSucceeded, MockPublish, Goto, Raise, Sweep, Save,
       memory
<1>21. CASE FinishPublish \/ DeadlineExpires
  BY <1>21, Zenon DEF FinishPublish, DeadlineExpires, Goto, Raise, Sweep,
       Save, memory
<1>22. CASE WriteFails \/ HandleException \/ Interrupt \/ Unwind
  BY <1>22, Zenon DEF WriteFails, HandleException, Interrupt, Unwind, Goto,
       Raise, Sweep, Save, memory
<1>23. CASE RevokeDraft \/ WriteCloseout
  BY <1>23, Zenon DEF RevokeDraft, WriteCloseout, Goto, Raise, Sweep, Save,
       memory
<1>24. CASE CloseControl \/ MockNotify
  BY <1>24, Zenon DEF CloseControl, MockNotify, Goto, Raise, Sweep, Save,
       memory
<1>25. CASE Crash \/ CleanupExisting
  BY <1>25, Zenon DEF Crash, CleanupExisting, Goto, Raise, Sweep, Save, memory
<1>26. CASE DaemonCreates \/ StrayEnds
  BY <1>26, Zenon DEF DaemonCreates, StrayEnds, Goto, Raise, Sweep, Save,
       memory
<1>27. CASE DeadlinePasses \/ FaultsCease
  BY <1>27, Zenon DEF DeadlinePasses, FaultsCease, Goto, Raise, Sweep, Save,
       memory
<1>28. CASE UNCHANGED vars
  BY <1>28, SMT DEF vars, memory
<1>29. QED
  BY <1>1, <1>2, <1>3, <1>4, <1>5, <1>6, <1>7, <1>8, <1>9, <1>10, <1>11,
     <1>12, <1>13, <1>14, <1>15, <1>16, <1>17, <1>18, <1>19, <1>20, <1>21,
     <1>22, <1>23, <1>24, <1>25, <1>26, <1>27, <1>28 DEF Next, Controller,
     Environment

\* The key of the container or project that an attempt works on.
LEMMA CurrentKey ==
    ASSUME FieldInv, pc \in AttemptStep
    PROVE  Current \in Key /\ <<attempt, "compose">> \in Key
  BY AttemptInRange DEF Current, Key, Phase, FieldInv, MemoryTypeOK

\* The journal holds keys of attempts.
LEMMA IntentsTyped ==
    FieldInv /\ [Next]_vars => intents' \subseteq Key
<1> SUFFICES ASSUME FieldInv, [Next]_vars
             PROVE  intents' \subseteq Key
  OBVIOUS
<1>1. CASE JournalCompose \/ JournalContainer
  <2>1. /\ intents' \subseteq intents \cup {Current, <<attempt, "compose">>}
        /\ pc \in {"testing", "intent"}
    BY <1>1, Zenon DEF JournalCompose, JournalContainer
  <2>2. Current \in Key /\ <<attempt, "compose">> \in Key
    BY <2>1, CurrentKey DEF AttemptStep, CandidateStep, TestStep
  <2>3. QED
    BY <2>1, <2>2, Zenon DEF FieldInv
<1>2. QED
  BY <1>1, WhoWrites, Zenon DEF FieldInv

\* An attempt begins by counting it.
LEMMA AttemptCounts ==
    FieldInv /\ [Next]_vars /\ Attempting' => attempt' >= 1
<1> SUFFICES ASSUME FieldInv, [Next]_vars, Attempting'
             PROVE  attempt' >= 1
  OBVIOUS
<1>0. control \in Control /\ attempt \in 0 .. MaxAttempts
  BY ControlFields DEF FieldInv, ControlTypeOK, attempt
<1>1. CASE Quiet
  BY <1>1, QuietFrame, SMT DEF FieldInv, Attempting, attempt, memory
<1>2. CASE BeginAttempt
  BY <1>0, <1>2, BeginAttemptEffect, ConstantsAssumption, SMT DEF attempt
<1>3. CASE Attempting /\ ~Quiet /\ ~BeginAttempt
  <2>1. ~Crash /\ ~CleanupExisting
    BY <1>3, SMT DEF Crash, CleanupExisting, Attempting, AttemptStep,
       CandidateStep, DeliveryStep, TestStep, SweepStep
  <2>2. control'.attempts = attempt
    BY <1>3, <2>1, WhoWrites, WriterEffect, Zenon DEF attempt
  <2>3. QED
    BY <1>3, <2>2 DEF FieldInv, attempt
<1>4. QED
  BY <1>1, <1>2, <1>3, WithinAttempt

\* Together.
LEMMA FieldsKept == FieldInv /\ [Next]_vars => FieldInv'
  BY ControlTyped, MemoryTyped, FlagTyped, IntentsTyped, AttemptCounts
  DEF FieldInv

\* The artifacts of the run directory.
LEMMA ArtifactTyped ==
    TypeInv /\ [Next]_vars => ArtifactTypeOK'
<1> SUFFICES ASSUME TypeInv, [Next]_vars
             PROVE  ArtifactTypeOK'
  OBVIOUS
<1>0. /\ ArtifactTypeOK /\ candidate \in Digest \cup {NoDigest}
      /\ checks \in BOOLEAN /\ cleanOk \in BOOLEAN /\ control \in Control
  BY DEF TypeInv, TypeOK, ControlTypeOK, MemoryTypeOK, FlagTypeOK
<1> USE <1>0 DEF ArtifactTypeOK
<1>1. intents' \subseteq Key
  BY Fields, IntentsTyped
<1>2. results' \subseteq Result
  <2>1. CASE WriteResult
    <3>1. pc = "result"
      BY <2>1, Zenon DEF WriteResult
    <3>2. attempt \in Attempt /\ candidate \in Digest
      BY <3>1, Fields, AttemptInRange
      DEF TypeInv, AttemptIsDurable, AttemptStep,
         CandidateStep, TestStep
    <3>3. [attempt |-> attempt, digest |-> candidate, passed |-> checks,
           compose |-> phase = "compose"] \in Result
      BY <3>2, Zenon DEF Result
    <3>4. QED
      BY <2>1, <3>3, Zenon DEF WriteResult
  <2>2. QED
    BY <2>1, WhoWrites, Zenon
<1>3. verification' \in Verification
  <2>1. ASSUME NEW d \in Digest, NEW b \in BOOLEAN
        PROVE  [accepted |-> b, digest |-> d, tested |-> candidate]
                   \in Verification
    BY SMT DEF Verification
  <2>2. CASE WriteVerification
    BY <2>1, <2>2, Zenon DEF WriteVerification
  <2>3. QED
    BY <2>2, WhoWrites, Zenon
<1>4. draft' \in Digest \cup {NoDigest} /\ sdkIncomplete' \subseteq Attempt
  <2>1. CASE ProviderFails
    BY <2>1, Fields, AttemptInRange, Zenon DEF ProviderFails, AttemptStep
  <2>2. QED
    BY <2>1, WhoWrites, Zenon DEF MockPublish, RevokeDraft
<1>5. /\ closeout' \in [complete : BOOLEAN, stranded : BOOLEAN]
      /\ notice' \in Outcome \cup {"NONE"}
  <2>1. CASE WriteCloseout
    <3>1. closeout' \in [complete : BOOLEAN, stranded : BOOLEAN]
      BY <2>1, Zenon DEF WriteCloseout
    <3>2. QED
      BY <2>1, <3>1, Zenon DEF WriteCloseout
  <2>2. CASE MockNotify
    BY <2>2, ControlFields, Zenon DEF MockNotify
  <2>3. QED
    BY <2>1, <2>2, WhoWrites, Zenon
<1>6. QED
  BY <1>1, <1>2, <1>3, <1>4, <1>5

\* Whatever remove_workspaces leaves was there before, and lies in an attempt
\* directory that is still there.
LEMMA TreesShrink ==
    ASSUME ResourceTypeOK, RemoveTrees \/ LeaveTrees
    PROVE  /\ attemptDirs' \subseteq attemptDirs
           /\ workspaces' \subseteq workspaces \cap attemptDirs'
           /\ workerRoots' \subseteq workerRoots \cap attemptDirs'
<1>1. CASE RemoveTrees
  BY <1>1, SMT DEF RemoveTrees, ResourceTypeOK
<1>2. CASE LeaveTrees
  <2>1. PICK kept \in SUBSET workspaces, left \in SUBSET workspaces :
           /\ kept \subseteq left
           /\ attemptDirs' = attemptDirs \ (workspaces \ left)
           /\ workerRoots' = workerRoots \ (workspaces \ left)
           /\ workspaces' = kept
    BY <1>2, Zenon DEF LeaveTrees
  <2>2. QED
    BY <2>1, SMT DEF ResourceTypeOK
<1>3. QED
  BY <1>1, <1>2

\* Cleanup never adds a container; a client adds the one it is for.
LEMMA DockerSteps ==
    ASSUME [Next]_vars
    PROVE  /\ inflight' \subseteq inflight \cup
                 (IF LaunchContainer \/ ComposeUp
                  THEN {Current, <<attempt, "compose">>} ELSE {})
           /\ resources' \subseteq resources \cup inflight
           /\ resources' \subseteq resources \/ DaemonCreates
           /\ stray' \subseteq stray \cup inflight
           /\ late' \subseteq late \cup stray
           /\ orphans \subseteq stray => orphans' \subseteq stray'
           /\ unreadable' \subseteq unreadable \cup
                 (IF ContainerTimesOut THEN {Current} ELSE {})
<1>1. CASE Client
  BY <1>1, SMT DEF Client, LaunchContainer, ContainerReturns,
     ContainerTimesOut, ReapContainer, ComposeUp, ComposeReturns,
     ComposeTimesOut, ComposeDown
<1>2. CASE SweepContainers \/ SweepCompose \/ Crash
  BY <1>2, SMT DEF SweepContainers, SweepCompose, RemoveKeys, Crash
<1>3. CASE DaemonCreates \/ StrayEnds
  BY <1>3, SMT DEF DaemonCreates, StrayEnds
<1>4. CASE UNCHANGED docker
  BY <1>4, SMT DEF docker
<1>5. QED
  BY <1>1, <1>2, <1>3, <1>4, WhoWrites, Zenon

\* The directory trees and the Docker resources.
LEMMA ResourceTyped ==
    TypeInv /\ [Next]_vars => ResourceTypeOK'
<1> SUFFICES ASSUME TypeInv, [Next]_vars
             PROVE  ResourceTypeOK'
  OBVIOUS
<1>0. ResourceTypeOK
  BY DEF TypeInv, TypeOK
<1>1. /\ attemptDirs' \subseteq Attempt /\ workspaces' \subseteq attemptDirs'
      /\ workerRoots' \subseteq attemptDirs'
  <2>1. CASE CreateWorkspace \/ StartProvider
    BY <1>0, <2>1, Fields, AttemptInRange, SMT DEF CreateWorkspace,
       StartProvider, ResourceTypeOK, AttemptStep, TypeInv, AttemptIsDurable
  <2>2. CASE Retry \/ SweepWorkspaces
    <3>1. RemoveTrees \/ LeaveTrees
      BY <2>2, Zenon DEF Retry, SweepWorkspaces
    <3>2. QED
      BY <1>0, <3>1, TreesShrink, SMT DEF ResourceTypeOK
  <2>3. CASE ProviderReturns \/ ProviderFails \/ BeginIndependent
                \/ RemoveVerifierTree
    BY <1>0, <2>3, SMT DEF ProviderReturns, ProviderFails, BeginIndependent,
       RemoveVerifierTree, ResourceTypeOK
  <2>4. CASE UNCHANGED trees
    BY <1>0, <2>4, SMT DEF trees, ResourceTypeOK
  <2>5. QED
    BY <2>1, <2>2, <2>3, <2>4, WhoWrites, Zenon
<1>2. /\ inflight' \subseteq Key /\ resources' \subseteq Key
      /\ stray' \subseteq Key /\ orphans' \subseteq stray'
      /\ late' \subseteq Key /\ unreadable' \subseteq Key
  <2>1. LaunchContainer \/ ComposeUp \/ ContainerTimesOut =>
            Current \in Key /\ <<attempt, "compose">> \in Key
    BY Fields, CurrentKey, Zenon DEF LaunchContainer, ComposeUp,
       ContainerTimesOut, AttemptStep, CandidateStep, TestStep
  <2>2. QED
    BY <1>0, <2>1, DockerSteps, SMT DEF ResourceTypeOK
<1>3. faults' \subseteq FaultKind
  BY <1>0, WhoWrites, Zenon DEF FaultsCease, ResourceTypeOK
<1>4. QED
  BY <1>1, <1>2, <1>3 DEF ResourceTypeOK

-----------------------------------------------------------------------------
(***************************************************************************)
(* The journal.                                                            *)
(***************************************************************************)
\* The counter on disk never goes back.
LEMMA CounterGrows ==
    TypeInv /\ [Next]_vars =>
        /\ disk'.attempts \in 0 .. MaxAttempts
        /\ disk.attempts \in 0 .. MaxAttempts
        /\ disk.attempts <= disk'.attempts
<1> SUFFICES ASSUME TypeInv, [Next]_vars
             PROVE  /\ disk'.attempts \in 0 .. MaxAttempts
                    /\ disk.attempts \in 0 .. MaxAttempts
                    /\ disk.attempts <= disk'.attempts
  OBVIOUS
<1>0. /\ control \in Control /\ attempt \in 0 .. MaxAttempts
      /\ disk.attempts \in 0 .. MaxAttempts /\ disk.attempts <= attempt
  BY ControlFields DEF TypeInv, TypeOK, ControlTypeOK, AttemptIsDurable,
     attempt
<1>1. control'.attempts \in {attempt, attempt + 1} \/ ~Writer
  BY <1>0, Fields, WriterEffect, BeginAttemptEffect, Zenon
<1>2. disk' \in {control', disk} /\ (UNCHANGED disk \/ Writer)
  BY Fields, WhoWrites, WriterEffect, Zenon
<1>3. disk'.attempts \in 0 .. MaxAttempts
  BY Fields, ControlTyped, ControlFields, Zenon DEF ControlTypeOK
<1>4. disk'.attempts \in {disk.attempts, attempt, attempt + 1}
  BY <1>1, <1>2, Zenon
<1>5. QED
  BY <1>0, <1>3, <1>4, ConstantsAssumption, SMT

\* BeginAttempt writes the counter before the attempt leaves anything behind.
LEMMA AttemptDurable ==
    TypeInv /\ [Next]_vars => AttemptIsDurable'
<1> SUFFICES ASSUME TypeInv, [Next]_vars
             PROVE  AttemptIsDurable'
  OBVIOUS
<1>0. /\ control \in Control /\ disk \in Control
      /\ candidate \in Digest \cup {NoDigest} /\ cleanOk \in BOOLEAN
      /\ attempt \in 0 .. MaxAttempts
      /\ disk.attempts \in 0 .. MaxAttempts
  BY ControlFields DEF TypeInv, TypeOK, ControlTypeOK, MemoryTypeOK,
     FlagTypeOK, attempt
<1>a. AttemptIsDurable
  BY DEF TypeInv
<1>1. disk'.attempts <= control'.attempts
  <2>1. CASE BeginAttempt
    <3>1. /\ control'.attempts = attempt + 1
          /\ disk'.attempts \in {disk.attempts, attempt + 1}
      BY <1>0, <2>1, BeginAttemptEffect, Zenon DEF Written
    <3>2. QED
      BY <1>0, <1>a, <3>1, ConstantsAssumption, SMT
      DEF AttemptIsDurable, attempt
  <2>2. CASE Writer /\ ~BeginAttempt
    <3>1. /\ control'.attempts = attempt
          /\ disk'.attempts \in {disk.attempts, attempt}
      BY <2>2, Fields, WriterEffect, Zenon
    <3>2. QED
      BY <1>0, <1>a, <3>1, ConstantsAssumption, SMT
      DEF AttemptIsDurable, attempt
  <2>3. CASE ~Writer
    <3>1. disk' = disk /\ control' \in {control, disk}
      BY <2>3, WhoWrites, Zenon DEF Crash, CleanupExisting
    <3>2. QED
      BY <1>0, <1>a, <3>1, ConstantsAssumption, SMT DEF AttemptIsDurable
  <2>4. QED
    BY <2>1, <2>2, <2>3
<1>2. ASSUME Attempting'
      PROVE  attempt' >= 1 /\ disk'.attempts = attempt'
  <2>1. CASE Quiet
    BY <1>a, <1>2, <2>1, QuietFrame, SMT DEF AttemptIsDurable, Attempting,
       attempt, memory
  <2>2. CASE BeginAttempt
    <3>1. /\ control'.attempts = attempt + 1 /\ disk' = control'
      <4>1. "handler" \notin AttemptStep \cup SweepStep
        BY DEF AttemptStep, CandidateStep, TestStep, DeliveryStep, SweepStep
      <4>2. QED
        BY <1>0, <1>2, <2>2, <4>1, BeginAttemptEffect, Zenon
        DEF Written, Attempting
    <3>2. QED
      BY <1>0, <3>1, ConstantsAssumption, SMT DEF attempt
  <2>3. CASE Attempting /\ ~Quiet /\ ~BeginAttempt
    <3>1. attempt >= 1 /\ disk.attempts = attempt
      BY <1>a, <2>3 DEF AttemptIsDurable
    <3>2. ~Crash /\ ~CleanupExisting
      BY <1>2, <2>3, SMT DEF Crash, CleanupExisting, Attempting, AttemptStep,
         CandidateStep, DeliveryStep, TestStep, SweepStep
    <3>3. control'.attempts = attempt /\ disk'.attempts = attempt
      BY <2>3, <3>1, <3>2, Fields, WhoWrites, WriterEffect, Zenon
      DEF attempt
    <3>4. QED
      BY <3>1, <3>3 DEF attempt
  <2>4. QED
    BY <1>2, <2>1, <2>2, <2>3, WithinAttempt
<1>3. pc' \in {"proposing", "working"} => attempt' \in attemptDirs'
  <2>1. CASE Quiet
    BY <1>a, <2>1, QuietFrame, SMT DEF AttemptIsDurable, attempt, trees
  <2>2. CASE CreateWorkspace
    BY <2>2, SMT DEF CreateWorkspace, Raise, attempt
  <2>3. CASE StartProvider
    BY <1>a, <2>3, SMT DEF StartProvider, AttemptIsDurable, attempt
  <2>4. QED
    BY <2>1, <2>2, <2>3, WhereTo, Zenon
<1>4. pc' \in CandidateStep => candidate' \in Digest
  <2>1. CASE Quiet
    BY <1>a, <2>1, QuietFrame, SMT DEF AttemptIsDurable, memory
  <2>2. CASE ProviderReturns
    BY <2>2, Zenon DEF ProviderReturns
  <2>3. QED
    BY <1>a, <2>1, <2>2, WithinAttempt, Zenon DEF AttemptIsDurable
<1>5. QED
  BY <1>1, <1>2, <1>3, <1>4, Zenon DEF AttemptIsDurable

\* What Docker runs or may still start lies within the journal, which only
\* grows.
LEMMA JournalGrows ==
    ASSUME [Next]_vars
    PROVE  intents \subseteq intents'
  BY WhoWrites, Zenon DEF JournalCompose, JournalContainer

\* A container or a project exists only under an intent: the launch follows it.
LEMMA JournaledKept ==
    ClientInv /\ [Next]_vars => Journaled'
<1> SUFFICES ASSUME ClientInv, [Next]_vars
             PROVE  Journaled'
  OBVIOUS
<1>1. CASE LaunchContainer \/ ComposeUp
  <2>1. \/ /\ pc = "launch" /\ inflight' \subseteq inflight \cup {Current}
        \/ /\ pc = "compose"
           /\ inflight' \subseteq inflight \cup {<<attempt, "compose">>}
    BY <1>1, Zenon DEF LaunchContainer, ComposeUp
  <2>2. inflight' \subseteq intents
    BY <2>1, SMT DEF ClientInv, Journaled, IntentFirst, TestStep
  <2>3. QED
    BY <2>2, JournalGrows, DockerSteps, SMT DEF ClientInv, Journaled
<1>2. CASE ~(LaunchContainer \/ ComposeUp)
  BY <1>2, JournalGrows, DockerSteps, SMT DEF ClientInv, Journaled
<1>3. QED
  BY <1>1, <1>2

\* What Docker runs or may still start, and the attempt directories, lie
\* within the journal and the counter on disk.
LEMMA WriteAheadKept ==
    TypeInv /\ TypeInv' /\ JournalInv /\ [Next]_vars => WriteAhead'
<1> SUFFICES ASSUME TypeInv, TypeInv', JournalInv, [Next]_vars
             PROVE  WriteAhead'
  OBVIOUS
<1>0. /\ disk.attempts \in 0 .. MaxAttempts
      /\ disk'.attempts \in 0 .. MaxAttempts
      /\ disk.attempts <= disk'.attempts
  BY CounterGrows
<1>a. WriteAhead
  BY DEF JournalInv
<1>b. pc \in AttemptStep => attempt = disk.attempts
  BY DEF TypeInv, AttemptIsDurable, Attempting
<1>2. (inflight \cup resources \cup stray \cup late)' \subseteq intents'
  BY JournaledKept, Zenon DEF JournalInv, Journaled
<1>3. \A k \in intents' : k[1] <= disk'.attempts
  <2>1. ASSUME NEW k \in intents' PROVE k[1] <= disk.attempts
    <3>1. CASE k \in intents
      BY <1>a, <3>1, Zenon DEF WriteAhead
    <3>2. CASE k \notin intents
      <4>1. k \in {<<attempt, "compose">>, Current} /\ pc \in AttemptStep
        BY <2>1, <3>2, WhoWrites, Zenon DEF JournalCompose,
           JournalContainer, AttemptStep, CandidateStep, TestStep
      <4>2. QED
        BY <1>0, <1>b, <4>1, ConstantsAssumption, SMT DEF Current
    <3>3. QED
      BY <3>1, <3>2
  <2>2. \A k \in intents' : k[1] \in Attempt
    BY DEF TypeInv, TypeOK, ArtifactTypeOK, Key
  <2>3. QED
    BY <1>0, <2>1, <2>2, ConstantsAssumption, SMT DEF Attempt
<1>4. \A a \in attemptDirs' : a <= disk'.attempts
  <2>1. ASSUME NEW a \in attemptDirs' PROVE a <= disk.attempts
    <3>1. CASE a \in attemptDirs
      BY <1>a, <3>1, Zenon DEF WriteAhead
    <3>2. CASE a \notin attemptDirs
      <4>1. ~(Retry \/ SweepWorkspaces)
        BY <2>1, <3>2, TreesShrink, Zenon DEF Retry, SweepWorkspaces,
           TypeInv, TypeOK
      <4>2. CreateWorkspace
        BY <2>1, <3>2, <4>1, WhoWrites, Zenon DEF StartProvider,
           ProviderReturns, ProviderFails, BeginIndependent,
           RemoveVerifierTree, trees
      <4>3. a = attempt /\ pc \in AttemptStep
        BY <2>1, <3>2, <4>2, SMT DEF CreateWorkspace, AttemptStep
      <4>4. QED
        BY <1>0, <1>b, <4>3, ConstantsAssumption, SMT
    <3>3. QED
      BY <3>1, <3>2
  <2>2. attemptDirs' \subseteq Attempt
    BY DEF TypeInv, TypeOK, ResourceTypeOK
  <2>3. QED
    BY <1>0, <2>1, <2>2, ConstantsAssumption, SMT DEF Attempt
<1>5. QED
  BY <1>2, <1>3, <1>4, Zenon DEF WriteAhead

\* A Docker client runs only while the process waits for it.
LEMMA ClientWatched ==
    ClientInv /\ [Next]_vars => ClientIsWatched'
<1> SUFFICES ASSUME ClientInv, [Next]_vars
             PROVE  ClientIsWatched'
  OBVIOUS
<1>0. ClientIsWatched
  BY DEF ClientInv
<1> USE DEF ClientIsWatched
<1>1. CASE Quiet
  <2>1. /\ UNCHANGED <<pc, Current>> /\ inflight' \subseteq inflight
    <3>1. (~LaunchContainer /\ ~ComposeUp) \/ UNCHANGED inflight
      BY <1>1, QuietFrame, SMT DEF LaunchContainer, ComposeUp, Goto, Raise
    <3>2. inflight' \subseteq inflight
      BY <3>1, DockerSteps, SMT
    <3>3. QED
      BY <1>1, <3>2, QuietFrame, SMT DEF Current, attempt, memory
  <2>2. QED
    BY <1>0, <2>1, SMT
<1>2. CASE LaunchContainer
  BY <1>0, <1>2, SMT DEF LaunchContainer, Current, attempt, Goto, memory
<1>3. CASE ComposeUp
  BY <1>0, <1>3, SMT DEF ComposeUp, Current, attempt, Goto, Raise
<1>4. CASE ~Quiet /\ ~LaunchContainer /\ ~ComposeUp
  <2>1. inflight' \subseteq inflight
    BY <1>4, DockerSteps, SMT
  <2>2. pc \in {"running", "composing"} => inflight' = {}
    <3>1. CASE pc \in {"running", "composing"}
      <4>1. ContainerReturns \/ ContainerTimesOut \/ ComposeReturns
                \/ ComposeTimesOut \/ Crash
        BY <1>4, <3>1, WhereFrom
      <4>2. QED
        BY <1>0, <3>1, <4>1, SMT DEF ContainerReturns, ContainerTimesOut,
           ComposeReturns, ComposeTimesOut, Crash
    <3>2. QED
      BY <3>1
  <2>3. QED
    BY <1>0, <2>1, <2>2, SMT
<1>5. QED
  BY <1>1, <1>2, <1>3, <1>4

\* Every result on disk lies within the counter and the journal.
LEMMA ResultsBacked ==
    TypeInv /\ TypeInv' /\ JournalInv /\ [Next]_vars => ResultsAreBacked'
<1> SUFFICES ASSUME TypeInv, TypeInv', JournalInv, [Next]_vars,
                    NEW r \in results'
             PROVE  /\ r.attempt <= disk'.attempts
                    /\ r.compose => <<r.attempt, "compose">> \in intents'
  BY Zenon DEF ResultsAreBacked
<1>1. /\ r.attempt <= disk.attempts
      /\ r.compose => <<r.attempt, "compose">> \in intents
  <2>1. CASE r \in results
    BY <2>1, Zenon DEF JournalInv, ResultsAreBacked
  <2>2. CASE r \notin results
    <3>1. /\ pc = "result"
          /\ r = [attempt |-> attempt, digest |-> candidate,
                  passed |-> checks, compose |-> phase = "compose"]
      BY <2>2, WhoWrites, Zenon DEF WriteResult
    <3>2. r.attempt = attempt /\ (r.compose <=> phase = "compose")
      BY <3>1, Zenon
    <3>3. attempt = disk.attempts /\ disk.attempts \in 0 .. MaxAttempts
      BY <3>1, CounterGrows DEF TypeInv, AttemptIsDurable, Attempting,
         AttemptStep, CandidateStep, TestStep
    <3>4. phase = "compose" => <<attempt, "compose">> \in intents
      BY <3>1, Zenon DEF JournalInv, ClientInv, IntentFirst, TestStep
    <3>5. r.attempt <= disk.attempts
      BY <3>2, <3>3, ConstantsAssumption, SMT
    <3>6. QED
      BY <3>2, <3>4, <3>5, Zenon
  <2>3. QED
    BY <2>1, <2>2
<1>2. r.attempt \in Attempt
  BY DEF TypeInv, TypeOK, ArtifactTypeOK, Result
<1>3. r.attempt <= disk'.attempts
  BY <1>1, <1>2, CounterGrows, ConstantsAssumption, SMT DEF Attempt
<1>4. intents \subseteq intents'
  BY WhoWrites, Zenon DEF JournalCompose, JournalContainer
<1>5. QED
  BY <1>1, <1>3, <1>4, Zenon

\* The records held in memory name every Compose project that may exist.
LEMMA RecordsCovered ==
    FieldInv /\ ClientInv /\ [Next]_vars => RecordsCoverCompose'
<1> SUFFICES ASSUME FieldInv, ClientInv, [Next]_vars
             PROVE  RecordsCoverCompose'
  OBVIOUS
<1>0. RecordsCoverCompose
  BY DEF ClientInv
<1>1. ASSUME pc' # "idle", NEW k \in inflight' \cup resources',
             ~ContainerKey(k)
      PROVE  k[1] \in records'
  <2>1. CASE CleanupExisting
    <3>1. /\ k \in intents
          /\ records' = {a \in Attempt : <<a, "compose">> \in intents}
      BY <1>1, <2>1, SMT DEF CleanupExisting, docker, ClientInv, Journaled
    <3>2. k \in Key
      BY <3>1, SMT DEF FieldInv
    <3>3. k[1] \in Attempt /\ k = <<k[1], "compose">>
      BY <1>1, <3>2, SMT DEF Key, Phase, ContainerKey
    <3>4. QED
      BY <3>1, <3>3, Zenon
  <2>2. CASE LaunchContainer \/ ComposeUp
    <3>1. /\ pc \in TestStep /\ UNCHANGED records
          /\ ComposeUp => WithDocker
          /\ phase = "compose" => WithDocker
      BY <2>2, SMT DEF LaunchContainer, ComposeUp, TestStep, memory,
         ClientInv, IntentFirst
    <3>2. inflight' \cup resources' \subseteq
              inflight \cup resources \cup {Current, <<attempt, "compose">>}
      BY <2>2, SMT DEF LaunchContainer, ComposeUp
    <3>3. CASE k \in inflight \cup resources
      BY <1>0, <1>1, <3>1, <3>3, SMT DEF RecordsCoverCompose, TestStep
    <3>4. CASE k \notin inflight \cup resources
      <4>1. k[1] = attempt
        BY <1>1, <3>2, <3>4, SMT DEF Current
      <4>2. WithDocker
        <5>1. CASE ComposeUp
          BY <3>1, <5>1
        <5>2. CASE LaunchContainer
          <6>1. k = Current
            BY <1>1, <3>4, <5>2, SMT DEF LaunchContainer, docker
          <6>2. phase = "compose"
            BY <1>1, <6>1, SMT DEF Current, ContainerKey, FieldInv,
               MemoryTypeOK, Phase
          <6>3. QED
            BY <3>1, <6>2
        <5>3. QED
          BY <2>2, <5>1, <5>2
      <4>3. QED
        BY <1>0, <3>1, <4>1, <4>2, SMT DEF RecordsCoverCompose
    <3>5. QED
      BY <3>3, <3>4
  <2>3. CASE ~(CleanupExisting \/ LaunchContainer \/ ComposeUp)
    <3>1. k \in inflight \cup resources
      BY <1>1, <2>3, DockerSteps, SMT
    <3>2. pc # "idle"
      BY <1>1, <2>3, WhereFrom, QuietFrame, Zenon
    <3>3. records' = records \/ JournalCompose
      BY <1>1, <2>3, WhoWrites, Zenon DEF Crash
    <3>4. records \subseteq records'
      BY <3>3, SMT DEF JournalCompose
    <3>5. QED
      BY <1>0, <1>1, <3>1, <3>2, <3>4, Zenon DEF RecordsCoverCompose
  <2>4. QED
    BY <2>1, <2>2, <2>3
<1>2. ASSUME pc' \in TestStep \cup {"verify"}, WithDocker
      PROVE  attempt' \in records'
  <2>1. CASE Quiet
    BY <1>0, <1>2, <2>1, QuietFrame, SMT DEF RecordsCoverCompose, memory,
       attempt
  <2>2. CASE JournalCompose
    BY <1>2, <2>2, SMT DEF JournalCompose, Raise, TestStep, attempt
  <2>3. CASE JournalContainer \/ LaunchContainer \/ ContainerReturns
                 \/ ContainerTimesOut \/ ReapContainer
    BY <1>0, <1>2, <2>3, SMT DEF JournalContainer, LaunchContainer,
       ContainerReturns, ContainerTimesOut, ReapContainer, attempt,
       memory, TestStep, RecordsCoverCompose
  <2>4. CASE ComposeUp \/ ComposeReturns \/ ComposeDown \/ WriteResult
                 \/ BeginIndependent
    BY <1>0, <1>2, <2>4, SMT DEF ComposeUp, ComposeReturns, ComposeDown,
       WriteResult, BeginIndependent, attempt, memory, TestStep,
       RecordsCoverCompose
  <2>5. QED
    BY <1>2, <2>1, <2>2, <2>3, <2>4, WhereTo DEF TestStep
<1>3. QED
  BY <1>1, <1>2, Zenon DEF RecordsCoverCompose, ContainerKey

\* Nothing is launched before its intent is on disk.
LEMMA IntentsFirst ==
    ClientInv /\ [Next]_vars => IntentFirst'
<1> SUFFICES ASSUME ClientInv, [Next]_vars
             PROVE  IntentFirst'
  OBVIOUS
<1>0. IntentFirst
  BY DEF ClientInv
<1>1. CASE Quiet
  BY <1>0, <1>1, QuietFrame, SMT DEF IntentFirst, memory, artifacts, Current,
     attempt
<1>2. CASE JournalCompose
  BY <1>2, SMT DEF JournalCompose, Goto, Raise, IntentFirst, TestStep, attempt
<1>3. CASE JournalContainer
  BY <1>0, <1>3, SMT DEF JournalContainer, Goto, Raise, IntentFirst, Current,
     attempt, memory, TestStep
<1>4. CASE LaunchContainer \/ ContainerReturns \/ ContainerTimesOut
               \/ ReapContainer
  BY <1>0, <1>4, SMT DEF LaunchContainer, ContainerReturns,
     ContainerTimesOut, ReapContainer, Goto, IntentFirst, attempt,
     memory, artifacts, TestStep
<1>5. CASE ComposeUp \/ ComposeReturns \/ ComposeDown
  BY <1>0, <1>5, SMT DEF ComposeUp, ComposeReturns, ComposeDown, Goto, Raise,
     IntentFirst, attempt, memory, artifacts, TestStep
<1>6. CASE WriteResult \/ BeginIndependent
  BY <1>0, <1>6, SMT DEF WriteResult, BeginIndependent, Goto, IntentFirst,
     attempt, memory, artifacts, TestStep
<1>7. CASE pc' \notin TestStep \cup {"verify"}
  BY <1>7, SMT DEF IntentFirst, TestStep
<1>8. QED
  BY <1>1, <1>2, <1>3, <1>4, <1>5, <1>6, <1>7, WhereTo DEF TestStep

\* Together.
LEMMA ClientsKept == FieldInv /\ ClientInv /\ [Next]_vars => ClientInv'
  BY JournaledKept, ClientWatched, IntentsFirst, RecordsCovered DEF ClientInv

-----------------------------------------------------------------------------
(***************************************************************************)
(* Cleanup.                                                                *)
(***************************************************************************)
\* A closeout launches no client, writes no draft, result or verdict but its
\* own, and touches the trees only to sweep them.
LEMMA CloseoutFrame ==
    ASSUME [Next]_vars, CloseoutStep
    PROVE  /\ UNCHANGED disk \/ CloseControl
           /\ UNCHANGED control \/ CloseControl \/ Crash \/ CleanupExisting
           /\ UNCHANGED trees \/ SweepWorkspaces
           /\ UNCHANGED <<results, verification, sdkIncomplete>>
           /\ ~MockPublish /\ ~LaunchContainer /\ ~ComposeUp
<1> USE DEF CloseoutStep, SweepStep, CloseStep
<1>1. /\ ~ValidateIncident /\ ~CollectEvidence /\ ~BeginAttempt
      /\ ~AttemptsExhausted /\ ~AcceptCandidate /\ ~WriteVerification
      /\ ~RecordPreDelivery /\ ~MarkSucceeded /\ ~HandleException
  BY Zenon DEF ValidateIncident, CollectEvidence, BeginAttempt,
     AttemptsExhausted, AcceptCandidate, WriteVerification,
     RecordPreDelivery, MarkSucceeded, HandleException
<1>2. /\ ~CreateWorkspace /\ ~StartProvider /\ ~ProviderReturns
      /\ ~ProviderFails /\ ~BeginIndependent /\ ~RemoveVerifierTree
      /\ ~Retry /\ ~WriteResult
      /\ ~MockPublish /\ ~LaunchContainer /\ ~ComposeUp
  BY Zenon DEF CreateWorkspace, StartProvider, ProviderReturns,
     ProviderFails, BeginIndependent, RemoveVerifierTree, Retry,
     WriteResult, MockPublish, LaunchContainer, ComposeUp
<1>3. QED
  BY <1>1, <1>2, WhoWrites, Zenon DEF Writer

\* Outside a closeout no state is final, and no step but its end makes it so.
LEMMA NothingCloses ==
    ASSUME TypeInv, ClosedIsOver, [Next]_vars, ~CloseoutStep
    PROVE  control'.state \notin Ended /\ disk'.state \notin Ended
<1>1. control.state \notin Ended /\ disk.state \notin Ended
  BY DEF ClosedIsOver
<1>2. CASE Writer
  <2>1. ~CloseControl
    BY Zenon DEF CloseControl, CloseoutStep, CloseStep
  <2>2. control'.state \notin Ended /\ disk' \in {control', disk}
    BY <1>1, <1>2, <2>1, Fields, WriterEffect, Zenon
  <2>3. QED
    BY <1>1, <2>2, Zenon
<1>3. CASE ~Writer
  <2>1. disk' = disk /\ control' \in {control, disk}
    BY <1>3, WhoWrites, Zenon DEF Crash, CleanupExisting
  <2>2. QED
    BY <1>1, <2>1, Zenon
<1>4. QED
  BY <1>2, <1>3

\* While no client runs, the environment creates nothing.
LEMMA QuietDocker ==
    ASSUME ClientInv, [Next]_vars, Quiet, pc' \notin {"running", "composing"}
    PROVE  /\ UNCHANGED <<pc, cleanOk, workspaces, verifierTree,
                          sdkIncomplete>>
           /\ resources' \subseteq resources
<1>1. UNCHANGED <<pc, cleanOk, workspaces, verifierTree, sdkIncomplete>>
  BY QuietFrame, Zenon DEF memory, trees, artifacts
<1>2. inflight = {}
  BY <1>1, SMT DEF ClientInv, ClientIsWatched
<1>3. QED
  BY <1>1, <1>2, DockerSteps, SMT

\* What follows a sweep, up to the publication or to the end of the closeout,
\* changes nothing that was swept.
LEMMA AfterSweep ==
    ASSUME [Next]_vars, ~Quiet,
           pc' \in DeliveryStep \cup CloseStep, pc' # "revoke"
    PROVE  /\ pc \in {"gate"} \cup DeliveryStep \cup CloseStep
           /\ UNCHANGED <<cleanOk, resources, workspaces, verifierTree,
                          sdkIncomplete>>
           /\ pc' = "eligible" => RecordPreDelivery
           /\ pc' \in {"succeed", "publish"} => pc \in DeliveryStep
           /\ pc' \in CloseStep => pc \in CloseStep
<1> USE DEF DeliveryStep, CloseStep
<1>1. \/ pc' = "eligible" /\ RecordPreDelivery
      \/ pc' = "succeed" /\ CheckEligibility
      \/ pc' = "publish" /\ MarkSucceeded
      \/ pc' = "closeout" /\ RevokeDraft
      \/ pc' = "close" /\ WriteCloseout
      \/ pc' = "notify" /\ CloseControl
  BY WhereTo, Zenon
<1>2. QED
  BY <1>1, Zenon DEF RecordPreDelivery, CheckEligibility, MarkSucceeded,
     RevokeDraft, WriteCloseout, CloseControl, memory, trees, artifacts,
     docker

\* Delivery goes on only while the cleanup before it was complete.
LEMMA GateClean ==
    FieldInv /\ TeardownInv /\ [Next]_vars => GateIsClean'
<1> SUFFICES ASSUME FieldInv, TeardownInv, [Next]_vars, pc' \in DeliveryStep
             PROVE  cleanOk'
  BY DEF GateIsClean
<1>0. control \in Control /\ (pc \in DeliveryStep => cleanOk)
  BY DEF FieldInv, ControlTypeOK, TeardownInv, GateIsClean
<1>1. CASE Quiet
  BY <1>0, <1>1, QuietFrame, Zenon DEF memory
<1>2. CASE ~Quiet
  <2>1. /\ UNCHANGED cleanOk
        /\ pc' = "eligible" => RecordPreDelivery
        /\ pc' \in {"succeed", "publish"} => pc \in DeliveryStep
    BY <1>2, AfterSweep DEF DeliveryStep
  <2>2. pc' = "eligible" => cleanOk
    BY <1>0, <2>1, RecordPreDeliveryEffect
  <2>3. QED
    BY <1>0, <2>1, <2>2 DEF DeliveryStep
<1>3. QED
  BY <1>1, <1>2

\* The sweep removes the journaled containers, and so all there are.
LEMMA ContainersSwept ==
    FieldInv /\ ClientInv /\ TeardownInv /\ [Next]_vars => ContainersAreSwept'
<1> SUFFICES ASSUME FieldInv, ClientInv, TeardownInv, [Next]_vars,
                    cleanOk', pc' \in {"sweepCompose", "sweepWorkspaces"}
             PROVE  \A k \in resources' : ~ContainerKey(k)
  BY Zenon DEF ContainersAreSwept, ContainerKey
<1>0. cleanOk /\ pc \in {"sweepCompose", "sweepWorkspaces"} =>
          \A k \in resources : ~ContainerKey(k)
  BY DEF TeardownInv, ContainersAreSwept
<1>1. CASE Quiet
  <2>1. pc' \notin {"running", "composing"}
    OBVIOUS
  <2>2. UNCHANGED <<pc, cleanOk>> /\ resources' \subseteq resources
    BY <1>1, <2>1, QuietDocker
  <2>3. QED
    BY <1>0, <2>2, SMT
<1>2. CASE SweepContainers
  <2>1. resources' = resources \ {k \in intents : ContainerKey(k)}
    BY <1>2, Zenon DEF SweepContainers, RemoveKeys
  <2>2. resources \subseteq intents
    BY SMT DEF ClientInv, Journaled
  <2>3. QED
    BY <2>1, <2>2, Zenon
<1>3. CASE SweepCompose
  <2>1. resources' \subseteq resources
    BY <1>3, SMT DEF SweepCompose, RemoveKeys
  <2>2. cleanOk /\ pc = "sweepCompose"
    BY <1>3, Zenon DEF SweepCompose
  <2>3. QED
    BY <1>0, <2>1, <2>2, SMT
<1>4. QED
  BY <1>1, <1>2, <1>3, WhereTo

\* After the Compose projects, the records name them all, nothing is left.
LEMMA DockerSwept ==
    FieldInv /\ ClientInv /\ TeardownInv /\ [Next]_vars => DockerIsSwept'
<1> SUFFICES ASSUME FieldInv, ClientInv, TeardownInv, [Next]_vars, cleanOk',
                    pc' \in {"sweepWorkspaces", "gate"} \cup DeliveryStep
                                \cup CloseStep
             PROVE  resources' = {}
  BY DEF DockerIsSwept
<1>0. cleanOk /\ pc \in {"sweepWorkspaces", "gate"} \cup DeliveryStep
                            \cup CloseStep => resources = {}
  BY DEF TeardownInv, DockerIsSwept
<1>1. CASE Quiet
  <2>1. pc' \notin {"running", "composing"}
    BY DEF DeliveryStep, CloseStep
  <2>2. UNCHANGED <<pc, cleanOk>> /\ resources' \subseteq resources
    BY <1>1, <2>1, QuietDocker
  <2>3. QED
    BY <1>0, <2>2, SMT
<1>2. CASE SweepCompose
  <2>1. /\ resources' = resources \ {<<a, "compose">> : a \in records}
        /\ cleanOk /\ pc = "sweepCompose"
    BY <1>2, Zenon DEF SweepCompose, RemoveKeys
  <2>2. \A k \in resources : k \in intents /\ ~ContainerKey(k)
    BY <2>1, SMT DEF TeardownInv, ContainersAreSwept, ClientInv, Journaled
  <2>3. \A k \in resources : \E a \in Attempt : k = <<a, "compose">>
    BY <2>2, SMT DEF ContainerKey, Key, Phase, FieldInv
  <2>4. \A k \in resources : k[1] \in records
    BY <2>1, <2>2, Zenon DEF ClientInv, RecordsCoverCompose
  <2>5. \A k \in resources : \E a \in records : k = <<a, "compose">>
    BY <2>3, <2>4, SMT
  <2>6. QED
    BY <2>1, <2>5, SMT
<1>3. CASE SweepWorkspaces
  <2>1. UNCHANGED resources /\ pc = "sweepWorkspaces" /\ cleanOk
    BY <1>3, Zenon DEF SweepWorkspaces, docker
  <2>2. QED
    BY <1>0, <2>1
<1>4. CASE ~Quiet /\ pc' \in DeliveryStep \cup CloseStep /\ pc' # "revoke"
  BY <1>0, <1>4, AfterSweep, Zenon
<1>5. QED
  BY <1>1, <1>2, <1>3, <1>4, WhereTo

\* The last part of the sweep removes the trees and reads the records.
LEMMA TreesSwept ==
    FieldInv /\ ClientInv /\ TeardownInv /\ [Next]_vars => TreesAreSwept'
<1> SUFFICES ASSUME FieldInv, ClientInv, TeardownInv, [Next]_vars, cleanOk',
                    pc' \in {"gate"} \cup DeliveryStep \cup CloseStep
             PROVE  workspaces' = {} /\ ~verifierTree' /\ sdkIncomplete' = {}
  BY DEF TreesAreSwept
<1>0. cleanOk /\ pc \in {"gate"} \cup DeliveryStep \cup CloseStep =>
          workspaces = {} /\ ~verifierTree /\ sdkIncomplete = {}
  BY DEF TeardownInv, TreesAreSwept
<1>1. CASE Quiet
  <2>1. pc' \notin {"running", "composing"}
    BY DEF DeliveryStep, CloseStep
  <2>2. UNCHANGED <<pc, cleanOk, workspaces, verifierTree, sdkIncomplete>>
    BY <1>1, <2>1, QuietDocker
  <2>3. QED
    BY <1>0, <2>2, SMT
<1>2. CASE SweepWorkspaces
  <2>1. RemoveTrees /\ cleanOk' = (cleanOk /\ sdkIncomplete = {})
    BY <1>2, Zenon DEF SweepWorkspaces
  <2>2. sdkIncomplete = {} /\ sdkIncomplete' = sdkIncomplete
    BY <1>2, <2>1, Zenon DEF SweepWorkspaces, artifacts
  <2>3. QED
    BY <2>1, <2>2, Zenon DEF RemoveTrees
<1>3. CASE ~Quiet /\ pc' \in DeliveryStep \cup CloseStep /\ pc' # "revoke"
  <2>1. /\ pc \in {"gate"} \cup DeliveryStep \cup CloseStep
        /\ UNCHANGED <<cleanOk, workspaces, verifierTree, sdkIncomplete>>
    BY <1>3, AfterSweep
  <2>2. QED
    BY <1>0, <2>1
<1>4. QED
  BY <1>1, <1>2, <1>3, WhereTo

\* Together.
LEMMA TeardownKept ==
    FieldInv /\ ClientInv /\ TeardownInv /\ [Next]_vars => TeardownInv'
  BY GateClean, ContainersSwept, DockerSwept, TreesSwept DEF TeardownInv

\* Nothing but closeout writes a final state, and nothing follows it but
\* closeout, which reads it back.
LEMMA ClosedOver ==
    TypeInv /\ SweptInv /\ [Next]_vars => ClosedIsOver'
<1> SUFFICES ASSUME TypeInv, SweptInv, [Next]_vars
             PROVE  ClosedIsOver'
  OBVIOUS
<1>1. CASE CloseoutStep
  <2>1. CloseoutStep'
    BY <1>1, WhereFrom, QuietFrame DEF CloseoutStep, memory
  <2>2. CASE CloseControl
    <3>1. disk' = control'
      BY <2>2, Zenon DEF CloseControl
    <3>2. QED
      BY <2>1, <3>1 DEF ClosedIsOver
  <2>3. CASE Crash \/ CleanupExisting
    <3>1. control' = disk /\ disk' = disk
      BY <2>3, Zenon DEF Crash, CleanupExisting
    <3>2. QED
      BY <2>1, <3>1 DEF ClosedIsOver
  <2>4. CASE UNCHANGED <<control, disk>>
    BY <2>1, <2>4 DEF ClosedIsOver, SweptInv
  <2>5. QED
    BY <1>1, <2>2, <2>3, <2>4, CloseoutFrame
<1>2. CASE ~CloseoutStep
  BY <1>2, NothingCloses DEF SweptInv, ClosedIsOver
<1>3. QED
  BY <1>1, <1>2

\* CLOSED is written when everything is swept, and nothing comes after.
LEMMA ClosedClean ==
    TypeInv /\ JournalInv /\ SweptInv /\ [Next]_vars => ClosedIsClean'
<1> SUFFICES ASSUME TypeInv, JournalInv, SweptInv, [Next]_vars,
                    disk'.state = "CLOSED"
             PROVE  /\ inflight' = {} /\ resources' = {}
                    /\ workspaces' = {} /\ ~verifierTree'
                    /\ sdkIncomplete' = {}
  BY DEF ClosedIsClean
<1>1. CloseoutStep
  BY NothingCloses DEF SweptInv, Ended
<1>2. inflight = {}
  BY <1>1, SMT DEF JournalInv, ClientInv, ClientIsWatched, CloseoutStep,
     SweepStep, CloseStep
<1>3. /\ resources = {} /\ workspaces = {} /\ ~verifierTree
      /\ sdkIncomplete = {}
  <2>1. CASE CloseControl
    <3>1. pc \in CloseStep /\ cleanOk
      <4>1. control \in Control /\ cleanOk \in BOOLEAN
        BY DEF TypeInv, TypeOK, ControlTypeOK, FlagTypeOK
      <4>2. QED
        BY <2>1, <4>1, CloseControlEffect, SMT DEF CloseStep
    <3>2. QED
      BY <3>1 DEF SweptInv, TeardownInv, DockerIsSwept, TreesAreSwept
  <2>2. CASE ~CloseControl
    <3>1. disk.state = "CLOSED"
      BY <1>1, <2>2, CloseoutFrame
    <3>2. QED
      BY <3>1, SMT DEF SweptInv, ClosedIsClean
  <2>3. QED
    BY <2>1, <2>2
<1>4. inflight' = {} /\ resources' = {}
  <2>1. ~LaunchContainer /\ ~ComposeUp
    BY <1>1, CloseoutFrame
  <2>2. QED
    BY <1>2, <1>3, <2>1, DockerSteps, SMT
<1>5. workspaces' = {} /\ ~verifierTree' /\ sdkIncomplete' = {}
  <2>1. CASE UNCHANGED trees
    BY <1>1, <1>3, <2>1, CloseoutFrame, Zenon DEF trees
  <2>2. CASE SweepWorkspaces
    <3>1. RemoveTrees \/ LeaveTrees
      BY <2>2, Zenon DEF SweepWorkspaces
    <3>2. workspaces' = {} /\ ~verifierTree'
      <4>1. CASE RemoveTrees
        BY <4>1, Zenon DEF RemoveTrees
      <4>2. CASE LeaveTrees
        <5>1. PICK left \in SUBSET workspaces, tree \in {FALSE, verifierTree} :
                 left # {} \/ tree
          BY <4>2, Zenon DEF LeaveTrees
        <5>2. verifierTree = FALSE /\ left = {}
          BY <1>3, <5>1, SMT DEF TypeInv, TypeOK, FlagTypeOK
        <5>3. QED
          BY <5>1, <5>2
      <4>3. QED
        BY <3>1, <4>1, <4>2
    <3>3. QED
      BY <1>1, <1>3, <3>2, CloseoutFrame, Zenon
  <2>3. QED
    BY <1>1, <2>1, <2>2, CloseoutFrame
<1>6. QED
  BY <1>4, <1>5

-----------------------------------------------------------------------------
(***************************************************************************)
(* The draft and the verdict.                                              *)
(***************************************************************************)
\* What the draft was made from is still there while it is being published.
LEMMA PublishEligible ==
    TypeInv /\ DraftInv /\ [Next]_vars => EligibleAtPublish'
<1> SUFFICES ASSUME TypeInv, DraftInv, [Next]_vars,
                    pc' \in {"succeed", "publish"}
             PROVE  Eligible'
  BY DEF EligibleAtPublish
<1>0. control \in Control /\ candidate \in Digest \cup {NoDigest}
  BY DEF TypeInv, TypeOK, ControlTypeOK, MemoryTypeOK
<1>1. CASE Quiet
  <2>1. UNCHANGED <<pc, control, memory, results, verification>>
    BY <1>1, QuietFrame DEF artifacts
  <2>2. Eligible
    BY <2>1, Zenon DEF DraftInv, EligibleAtPublish
  <2>3. QED
    BY <2>1, <2>2, Zenon DEF Eligible, attempt, memory
<1>2. CASE CheckEligibility
  <2>1. UNCHANGED <<results, verification, control, candidate>>
    BY <1>2, Zenon DEF CheckEligibility, memory, artifacts
  <2>2. Eligible
    BY <1>2, SMT DEF CheckEligibility, Raise
  <2>3. QED
    BY <2>1, <2>2, Zenon DEF Eligible, attempt
<1>3. CASE MarkSucceeded
  <2>1. UNCHANGED <<results, verification, candidate>>
    BY <1>3, Zenon DEF MarkSucceeded, memory, artifacts
  <2>2. control'.attempts = attempt /\ control'.preClean = control.preClean
    BY <1>0, <1>3, MarkSucceededEffect
  <2>3. Eligible
    BY <1>3, Zenon DEF MarkSucceeded, DraftInv, EligibleAtPublish
  <2>4. QED
    BY <2>1, <2>2, <2>3, Zenon DEF Eligible, attempt
<1>4. QED
  BY <1>1, <1>2, <1>3, WhereTo

\* The publication starts only after the verdict of success is on disk.
LEMMA PublishDurable ==
    TypeInv /\ DraftInv /\ [Next]_vars => PublishIsDurable'
<1> SUFFICES ASSUME TypeInv, DraftInv, [Next]_vars, pc' = "publish"
             PROVE  /\ disk' = control'
                    /\ control'.state = "READY_TO_PUBLISH"
                    /\ control'.outcome = "SUCCEEDED"
                    /\ control'.digest = candidate'
  BY DEF PublishIsDurable
<1>1. CASE Quiet
  <2>1. UNCHANGED <<pc, control, disk, candidate>>
    BY <1>1, QuietFrame DEF memory
  <2>2. QED
    BY <2>1, Zenon DEF DraftInv, PublishIsDurable
<1>2. CASE MarkSucceeded
  <2>1. control \in Control /\ candidate \in Digest \cup {NoDigest}
    BY DEF TypeInv, TypeOK, ControlTypeOK, MemoryTypeOK
  <2>2. UNCHANGED candidate
    BY <1>2, Zenon DEF MarkSucceeded, memory
  <2>3. QED
    BY <1>2, <2>1, <2>2, MarkSucceededEffect, SMT DEF Written
<1>3. QED
  BY <1>1, <1>2, WhereTo

\* Once there is a draft only the end of the run remains, and that leaves
\* what the record says of the candidate as it is.
LEMMA AfterDraft ==
    ASSUME TypeInv, DraftIsLast, [Next]_vars, draft # NoDigest
    PROVE  /\ pc' \in {"published", "handler"} \/ CloseoutStep'
           /\ \A c \in {control', disk'} : /\ c.attempts = disk.attempts
                                           /\ c.digest = disk.digest
                                           /\ c.preClean = disk.preClean
           /\ UNCHANGED <<results, verification>>
<1>0. /\ control \in Control /\ cleanOk \in BOOLEAN
      /\ pc \in {"published", "handler"} \/ CloseoutStep
      /\ control.attempts = disk.attempts
      /\ control.digest = disk.digest
      /\ control.preClean = disk.preClean
  BY DEF TypeInv, TypeOK, ControlTypeOK, FlagTypeOK, DraftIsLast
<1>1. /\ \/ UNCHANGED <<control, disk>>
         \/ Crash \/ CleanupExisting
         \/ HandleException \/ CloseControl
      /\ UNCHANGED <<results, verification>>
  <2>1. CASE CloseoutStep
    BY <2>1, CloseoutFrame
  <2>2. CASE pc \in {"published", "handler"}
    <3>1. /\ ~ValidateIncident /\ ~CollectEvidence /\ ~BeginAttempt
          /\ ~AttemptsExhausted /\ ~AcceptCandidate /\ ~WriteVerification
          /\ ~RecordPreDelivery /\ ~MarkSucceeded /\ ~WriteResult
      BY <2>2, Zenon DEF ValidateIncident, CollectEvidence, BeginAttempt,
         AttemptsExhausted, AcceptCandidate, WriteVerification,
         RecordPreDelivery, MarkSucceeded, WriteResult
    <3>2. QED
      BY <3>1, WhoWrites, Zenon DEF Writer
  <2>3. QED
    BY <1>0, <2>1, <2>2
<1>2. /\ disk' \in {control', disk}
      /\ \/ control' \in {control, disk}
         \/ control'.attempts = attempt /\ SameCandidate
  <2>1. CASE HandleException
    BY <1>0, <2>1, HandleExceptionEffect, Zenon
  <2>2. CASE CloseControl
    BY <1>0, <2>2, CloseControlEffect, Zenon
  <2>3. CASE Crash \/ CleanupExisting
    BY <2>3, Zenon DEF Crash, CleanupExisting
  <2>4. QED
    BY <1>1, <2>1, <2>2, <2>3, Zenon
<1>3. /\ control'.attempts = disk.attempts
      /\ control'.digest = disk.digest
      /\ control'.preClean = disk.preClean
  BY <1>0, <1>2, Zenon DEF SameCandidate, attempt
<1>4. pc' \in {"published", "handler"} \/ CloseoutStep'
  <2>1. CASE Quiet
    BY <1>0, <2>1, QuietFrame, Zenon DEF CloseoutStep, memory
  <2>2. CASE ~Quiet /\ pc = "handler"
    BY <2>2, WhereFrom, Zenon DEF HandleException, Unwind, Crash, Sweep,
       CloseoutStep, SweepStep
  <2>3. QED
    BY <1>0, <2>1, <2>2, WhereFrom, Zenon
<1>5. QED
  BY <1>1, <1>2, <1>3, <1>4, Zenon

\* The step that writes the draft.
LEMMA MockPublishEffect ==
    ASSUME TypeInv, DraftInv, MockPublish, draft' # NoDigest
    PROVE  /\ draft = NoDigest /\ pc = "publish"
           /\ Eligible /\ draft' = candidate /\ pc' = "published"
           /\ disk = control /\ control.digest = candidate
           /\ UNCHANGED <<disk, control, results, verification>>
<1>1. draft = NoDigest /\ pc = "publish"
  BY SMT DEF MockPublish, DraftInv, DraftIsLast, CloseoutStep, SweepStep,
     CloseStep
<1>2. /\ Eligible /\ draft' = candidate /\ pc' = "published"
      /\ UNCHANGED <<disk, control, results, verification>>
  BY <1>1, Zenon DEF MockPublish, Goto
<1>3. QED
  BY <1>1, <1>2, Zenon DEF DraftInv, PublishIsDurable

\* A draft is the last thing of a run.
LEMMA DraftLast ==
    TypeInv /\ DraftInv /\ [Next]_vars => DraftIsLast'
<1> SUFFICES ASSUME TypeInv, DraftInv, [Next]_vars, draft' # NoDigest
             PROVE  /\ pc' \in {"published", "handler"} \/ CloseoutStep'
                    /\ control'.attempts = disk'.attempts
                    /\ control'.digest = disk'.digest
                    /\ control'.preClean = disk'.preClean
  BY DEF DraftIsLast
<1>1. CASE MockPublish
  BY <1>1, MockPublishEffect, Zenon
<1>2. CASE ~MockPublish
  <2>1. draft # NoDigest /\ DraftIsLast
    BY <1>2, WhoWrites, Zenon DEF RevokeDraft, DraftInv
  <2>2. QED
    BY <2>1, AfterDraft, Zenon
<1>3. QED
  BY <1>1, <1>2

\* The draft matches the tested candidate and the record that names it.
LEMMA DraftExact ==
    TypeInv /\ DraftInv /\ [Next]_vars => DraftIsExactCandidate'
<1> SUFFICES ASSUME TypeInv, DraftInv, [Next]_vars, draft' # NoDigest
             PROVE  /\ \E r \in results' : /\ r.attempt = disk'.attempts
                                           /\ r.digest = draft'
                                           /\ r.passed
                    /\ verification' = [accepted |-> TRUE, digest |-> draft',
                                        tested |-> draft']
                    /\ disk'.digest = draft'
                    /\ disk'.preClean
  BY DEF DraftIsExactCandidate
<1>1. CASE MockPublish
  <2>1. /\ Eligible /\ draft' = candidate /\ disk = control
        /\ control.digest = candidate
        /\ UNCHANGED <<disk, control, results, verification>>
    BY <1>1, MockPublishEffect, Zenon
  <2>2. /\ \E r \in results : /\ r.attempt = disk.attempts
                              /\ r.digest = candidate
                              /\ r.passed
        /\ disk.preClean
    BY <2>1, Zenon DEF Eligible, attempt
  <2>3. verification = [accepted |-> TRUE, digest |-> candidate,
                        tested |-> candidate]
    BY <2>1, SMT DEF Eligible, Verification, TypeInv, TypeOK, ArtifactTypeOK
  <2>4. QED
    BY <2>1, <2>2, <2>3, Zenon
<1>2. CASE ~MockPublish
  <2>1. draft # NoDigest /\ UNCHANGED draft
    BY <1>2, WhoWrites, Zenon DEF RevokeDraft
  <2>2. /\ disk'.attempts = disk.attempts /\ disk'.digest = disk.digest
        /\ disk'.preClean = disk.preClean
        /\ UNCHANGED <<results, verification>>
    BY <2>1, AfterDraft, Zenon DEF DraftInv
  <2>3. QED
    BY <2>1, <2>2, Zenon DEF DraftInv, DraftIsExactCandidate
<1>3. QED
  BY <1>1, <1>2

\* Whatever is on disk, the verdict a live attempt holds is RUNNING; a record
\* of failure is the process's own verdict.
LEMMA VerdictKept ==
    TypeInv /\ VerdictStands /\ [Next]_vars => VerdictStands'
<1> SUFFICES ASSUME TypeInv, VerdictStands, [Next]_vars
             PROVE  VerdictStands'
  OBVIOUS
<1>0. /\ control \in Control /\ candidate \in Digest \cup {NoDigest}
      /\ cleanOk \in BOOLEAN
  BY DEF TypeInv, TypeOK, ControlTypeOK, MemoryTypeOK, FlagTypeOK
<1> USE DEF VerdictStands, Undecided, CloseoutStep, RunStep, SweepStep,
            CloseStep
<1>1. CASE ValidateIncident \/ CollectEvidence \/ AcceptCandidate
  BY <1>0, <1>1, StateSaveEffect, SMT
<1>2. CASE BeginAttempt
  BY <1>0, <1>2, BeginAttemptEffect, SMT DEF Written
<1>3. CASE AttemptsExhausted
  BY <1>0, <1>3, AttemptsExhaustedEffect, SMT
<1>4. CASE WriteVerification
  BY <1>0, <1>4, WriteVerificationEffect, SMT
<1>5. CASE RecordPreDelivery
  BY <1>0, <1>5, RecordPreDeliveryEffect, SMT
<1>6. CASE MarkSucceeded
  BY <1>0, <1>6, MarkSucceededEffect, SMT DEF Written
<1>7. CASE HandleException
  BY <1>0, <1>7, HandleExceptionEffect, SMT DEF Verdict
<1>8. CASE CloseControl
  BY <1>0, <1>8, CloseControlEffect, SMT
<1>9. CASE Crash \/ CleanupExisting
  BY <1>9, SMT DEF Crash, CleanupExisting, Sweep
<1>10. CASE ~Writer /\ ~Crash /\ ~CleanupExisting /\ ~Unwind
  <2>1. UNCHANGED <<control, disk>>
    BY <1>10, WhoWrites, Zenon
  <2>2. Undecided' => Undecided
    BY WhereFrom, QuietFrame DEF memory
  <2>3. CloseoutStep => CloseoutStep'
    BY WhereFrom, QuietFrame DEF memory
  <2>4. pc = "handler" => UNCHANGED <<pc, exc>>
    BY <1>10, WhereFrom, QuietFrame DEF Writer
  <2>5. pc \in {"publish", "published"} =>
            pc' \in {"publish", "published", "handler"} \/ CloseoutStep'
    BY WhereFrom, QuietFrame
  <2>6. VerdictStands
    OBVIOUS
  <2>. HIDE DEF CloseoutStep, Undecided
  <2>7. CloseoutStep' => pc' # "handler"
    BY DEF CloseoutStep
  <2>8. QED
    BY <2>1, <2>2, <2>3, <2>4, <2>5, <2>6, <2>7, SMT
<1>11. CASE Unwind
  BY <1>11, SMT DEF Unwind, Sweep
<1>12. QED
  BY <1>1, <1>2, <1>3, <1>4, <1>5, <1>6, <1>7, <1>8, <1>9, <1>10, <1>11
  DEF Writer

\* Only a candidate's own process takes it up, or forgets it.
LEMMA WhoHolds ==
    ASSUME [Next]_vars
    PROVE  \/ UNCHANGED <<candidate, results, verification>>
           \/ ProviderReturns \/ WriteResult \/ WriteVerification
           \/ Crash \/ CleanupExisting
<1>1. CASE Quiet
  BY <1>1, QuietFrame, Zenon DEF memory, artifacts
<1>2. CASE ValidateIncident \/ CollectEvidence \/ BeginAttempt \/
     AttemptsExhausted \/ CreateWorkspace \/ StartProvider \/
     ProviderFails \/ AcceptCandidate \/ JournalCompose \/
     JournalContainer \/ LaunchContainer
  BY <1>2, Zenon DEF ValidateIncident, CollectEvidence, BeginAttempt,
     AttemptsExhausted, CreateWorkspace, StartProvider, ProviderFails,
     AcceptCandidate, JournalCompose, JournalContainer, LaunchContainer,
     memory, artifacts, reports
<1>3. CASE ContainerReturns \/ ContainerTimesOut \/ ReapContainer \/
     ComposeUp \/ ComposeReturns \/ ComposeTimesOut \/ ComposeDown \/
     BeginIndependent \/ RemoveVerifierTree \/ Retry
  BY <1>3, Zenon DEF ContainerReturns, ContainerTimesOut, ReapContainer,
     ComposeUp, ComposeReturns, ComposeTimesOut, ComposeDown,
     BeginIndependent, RemoveVerifierTree, Retry, memory, artifacts, reports
<1>4. CASE SweepContainers \/ SweepCompose \/ SweepWorkspaces \/
     RecordPreDelivery \/ CheckEligibility \/ MarkSucceeded \/ MockPublish
     \/ FinishPublish \/ DeadlineExpires \/ WriteFails \/ Interrupt
     \/ HandleException \/ Unwind
  BY <1>4, Zenon DEF SweepContainers, SweepCompose, SweepWorkspaces,
     RecordPreDelivery, CheckEligibility, MarkSucceeded, MockPublish,
     FinishPublish, DeadlineExpires, WriteFails, Interrupt, HandleException,
     Unwind, memory, artifacts, reports
<1>5. CASE RevokeDraft \/ WriteCloseout \/ CloseControl \/ MockNotify
  BY <1>5, Zenon DEF RevokeDraft, WriteCloseout, CloseControl, MockNotify,
     memory, artifacts, reports
<1>6. QED
  BY <1>1, <1>2, <1>3, <1>4, <1>5 DEF Next, Controller, Quiet

\* A success that could not be written down is still of the candidate whose
\* process goes on to the closeout; a cleanup holds what is on disk.
LEMMA SuccessEarned ==
    TypeInv /\ DraftInv /\ VerdictInv /\ [Next]_vars => SuccessIsEarned'
<1> SUFFICES ASSUME TypeInv, DraftInv, VerdictInv, [Next]_vars,
                    control'.outcome = "SUCCEEDED", disk'.outcome = "RUNNING"
             PROVE  Eligible' /\ control'.digest = candidate'
  BY DEF SuccessIsEarned
<1>0. /\ control \in Control /\ candidate \in Digest \cup {NoDigest}
      /\ cleanOk \in BOOLEAN
  BY DEF TypeInv, TypeOK, ControlTypeOK, MemoryTypeOK, FlagTypeOK
<1>1. Undecided => control.outcome = "RUNNING"
  BY DEF VerdictInv, VerdictStands
<1> USE DEF Undecided, RunStep, SweepStep
<1>2. CASE MarkSucceeded
  <2>1. /\ control'.attempts = attempt /\ control'.digest = candidate
        /\ control'.preClean = control.preClean /\ pc = "succeed"
    BY <1>0, <1>2, MarkSucceededEffect
  <2>2. UNCHANGED <<results, verification, candidate>>
    BY <1>2, Zenon DEF MarkSucceeded, memory, artifacts
  <2>3. Eligible
    BY <2>1, Zenon DEF DraftInv, EligibleAtPublish
  <2>4. QED
    BY <2>1, <2>2, <2>3, Zenon DEF Eligible, attempt
<1>3. ~ProviderReturns /\ ~WriteResult /\ ~WriteVerification
  <2>1. ~ProviderReturns
    BY <1>1, Zenon DEF ProviderReturns
  <2>2. ~WriteResult
    BY <1>1, Zenon DEF WriteResult
  <2>3. ~WriteVerification
    <3>1. SUFFICES ASSUME WriteVerification PROVE FALSE
      OBVIOUS
    <3>2. pc = "verdict" /\ control'.outcome = control.outcome
      BY <1>0, <3>1, WriteVerificationEffect, Zenon
    <3>3. QED
      BY <1>1, <3>2, SMT
  <2>4. QED
    BY <2>1, <2>2, <2>3
<1>4. ~Crash /\ ~CleanupExisting
  BY Zenon DEF Crash, CleanupExisting
<1>5. UNCHANGED <<candidate, results, verification>>
  BY <1>3, <1>4, WhoHolds
<1>6. CASE ~MarkSucceeded
  <2>1. /\ control.outcome = "SUCCEEDED" /\ disk.outcome = "RUNNING"
        /\ control'.attempts = attempt /\ SameCandidate
    <3>1. CASE ValidateIncident \/ CollectEvidence \/ AcceptCandidate
      BY <1>0, <1>1, <3>1, StateSaveEffect, SMT
    <3>2. CASE BeginAttempt
      BY <1>0, <1>1, <3>2, BeginAttemptEffect, SMT
    <3>3. CASE AttemptsExhausted
      BY <1>0, <3>3, AttemptsExhaustedEffect, SMT
    <3>4. CASE RecordPreDelivery
      BY <1>0, <1>1, <3>4, RecordPreDeliveryEffect, SMT
    <3>5. CASE HandleException
      BY <1>0, <3>5, HandleExceptionEffect, SMT DEF Verdict
    <3>6. CASE CloseControl
      BY <1>0, <3>6, CloseControlEffect, SMT
    <3>7. CASE ~Writer
      <4>1. UNCHANGED <<control, disk>>
        BY <1>4, <3>7, WhoWrites, Zenon
      <4>2. QED
        BY <4>1, Zenon DEF SameCandidate, attempt
    <3>8. QED
      BY <1>3, <1>6, <3>1, <3>2, <3>3, <3>4, <3>5, <3>6, <3>7 DEF Writer
  <2>2. Eligible /\ control.digest = candidate
    BY <2>1 DEF VerdictInv, SuccessIsEarned
  <2>3. QED
    BY <1>5, <2>1, <2>2, Zenon DEF Eligible, SameCandidate, attempt
<1>7. QED
  BY <1>2, <1>6

\* A durable verdict is only ever downgraded, and a success is written only
\* by the process that holds its candidate.
LEMMA VerdictStep ==
    TypeInv /\ DraftInv /\ VerdictInv /\ [Next]_vars =>
        /\ disk.outcome \notin {"RUNNING", "SUCCEEDED"} =>
              disk'.outcome \in {disk.outcome, "CLEANUP_FAILED"}
        /\ disk.outcome = "SUCCEEDED" => disk'.outcome # "RUNNING"
        /\ disk.outcome = "RUNNING" /\ disk'.outcome = "SUCCEEDED" =>
              Eligible /\ disk'.digest = candidate
<1> SUFFICES ASSUME TypeInv, DraftInv, VerdictInv, [Next]_vars
             PROVE  /\ disk.outcome \notin {"RUNNING", "SUCCEEDED"} =>
                          disk'.outcome \in {disk.outcome, "CLEANUP_FAILED"}
                    /\ disk.outcome = "SUCCEEDED" => disk'.outcome # "RUNNING"
                    /\ disk.outcome = "RUNNING" /\ disk'.outcome = "SUCCEEDED"
                       => Eligible /\ disk'.digest = candidate
  OBVIOUS
<1>0. /\ control \in Control /\ candidate \in Digest \cup {NoDigest}
      /\ cleanOk \in BOOLEAN
  BY DEF TypeInv, TypeOK, ControlTypeOK, MemoryTypeOK, FlagTypeOK
<1>a. /\ VerdictStands
      /\ pc = "succeed" => Eligible
      /\ control.outcome = "SUCCEEDED" /\ disk.outcome = "RUNNING" =>
            Eligible /\ control.digest = candidate
  BY Zenon DEF VerdictInv, SuccessIsEarned, DraftInv, EligibleAtPublish
<1> USE <1>a DEF Undecided, SameCandidate
<1> USE DEF VerdictStands, CloseoutStep, SweepStep, CloseStep, RunStep
<1>1. CASE ValidateIncident \/ CollectEvidence \/ AcceptCandidate
  BY <1>0, <1>1, StateSaveEffect, SMT
<1>2. CASE BeginAttempt
  BY <1>0, <1>2, BeginAttemptEffect, SMT DEF Written
<1>3. CASE AttemptsExhausted
  BY <1>0, <1>3, AttemptsExhaustedEffect, SMT
<1>4. CASE WriteVerification
  BY <1>0, <1>4, WriteVerificationEffect, SMT
<1>5. CASE RecordPreDelivery
  BY <1>0, <1>5, RecordPreDeliveryEffect, SMT
<1>6. CASE MarkSucceeded
  BY <1>0, <1>6, MarkSucceededEffect, SMT DEF Written
<1>7. CASE HandleException
  BY <1>0, <1>7, HandleExceptionEffect, SMT DEF Verdict
<1>8. CASE CloseControl
  BY <1>0, <1>8, CloseControlEffect, SMT
<1>9. CASE UNCHANGED disk
  BY <1>9, Zenon
<1>10. QED
  BY <1>1, <1>2, <1>3, <1>4, <1>5, <1>6, <1>7, <1>8, <1>9, WhoWrites
  DEF Writer

-----------------------------------------------------------------------------
(***************************************************************************)
(* What the closeout reports.                                              *)
(***************************************************************************)
\* The steps of a closeout.
LEMMA InCloseout ==
    ASSUME [Next]_vars, ~Quiet, CloseoutStep, pc # "idle"
    PROVE  \/ SweepContainers \/ SweepCompose \/ SweepWorkspaces
           \/ RevokeDraft \/ WriteCloseout \/ CloseControl \/ MockNotify
           \/ Crash
<1> USE DEF CloseoutStep, SweepStep, CloseStep, RunStep
<1>1. /\ ~ValidateIncident /\ ~CollectEvidence /\ ~BeginAttempt
      /\ ~AttemptsExhausted /\ ~CreateWorkspace /\ ~StartProvider
      /\ ~ProviderReturns /\ ~ProviderFails /\ ~AcceptCandidate
      /\ ~JournalCompose /\ ~JournalContainer /\ ~LaunchContainer
  BY Zenon DEF ValidateIncident, CollectEvidence, BeginAttempt,
     AttemptsExhausted, CreateWorkspace, StartProvider, ProviderReturns,
     ProviderFails, AcceptCandidate, JournalCompose, JournalContainer,
     LaunchContainer
<1>2. /\ ~ContainerReturns /\ ~ContainerTimesOut /\ ~ReapContainer
      /\ ~ComposeUp /\ ~ComposeReturns /\ ~ComposeTimesOut /\ ~ComposeDown
      /\ ~WriteResult /\ ~BeginIndependent /\ ~RemoveVerifierTree
      /\ ~WriteVerification /\ ~Retry
  BY Zenon DEF ContainerReturns, ContainerTimesOut, ReapContainer, ComposeUp,
     ComposeReturns, ComposeTimesOut, ComposeDown, WriteResult,
     BeginIndependent, RemoveVerifierTree, WriteVerification, Retry
<1>3. /\ ~RecordPreDelivery /\ ~CheckEligibility /\ ~MarkSucceeded
      /\ ~MockPublish /\ ~FinishPublish /\ ~DeadlineExpires /\ ~WriteFails
      /\ ~Interrupt /\ ~HandleException /\ ~Unwind /\ ~CleanupExisting
  BY Zenon DEF RecordPreDelivery, CheckEligibility, MarkSucceeded,
     MockPublish, FinishPublish, DeadlineExpires, WriteFails, Interrupt,
     HandleException, Unwind, CleanupExisting
<1>4. QED
  BY <1>1, <1>2, <1>3 DEF Next, Controller, Quiet

\* What leads into a closeout.
LEMMA EntersCloseout ==
    ASSUME sweep \in {"delivery", "closeout"}, [Next]_vars, ~Quiet,
           CloseoutStep', pc' # "idle", ~CloseoutStep \/ pc = "idle"
    PROVE  \/ AttemptsExhausted \/ FinishPublish \/ HandleException \/ Unwind
           \/ CleanupExisting
<1> USE DEF CloseoutStep, SweepStep, CloseStep
<1>1. /\ ~ValidateIncident /\ ~CollectEvidence /\ ~BeginAttempt
      /\ ~CreateWorkspace /\ ~StartProvider
      /\ ~ProviderReturns /\ ~ProviderFails /\ ~AcceptCandidate
      /\ ~JournalCompose /\ ~JournalContainer /\ ~LaunchContainer
  BY Zenon DEF ValidateIncident, CollectEvidence, BeginAttempt,
     CreateWorkspace, StartProvider, ProviderReturns, ProviderFails,
     AcceptCandidate, JournalCompose, JournalContainer, LaunchContainer,
     Goto, Raise, Save
<1>2. /\ ~ContainerReturns /\ ~ContainerTimesOut /\ ~ReapContainer
      /\ ~ComposeUp /\ ~ComposeReturns /\ ~ComposeTimesOut /\ ~ComposeDown
      /\ ~WriteResult /\ ~BeginIndependent /\ ~RemoveVerifierTree
      /\ ~WriteVerification /\ ~Retry
  BY Zenon DEF ContainerReturns, ContainerTimesOut, ReapContainer, ComposeUp,
     ComposeReturns, ComposeTimesOut, ComposeDown, WriteResult,
     BeginIndependent, RemoveVerifierTree, WriteVerification, Retry, Goto,
     Raise, Sweep
<1>3. /\ ~RecordPreDelivery /\ ~CheckEligibility /\ ~MarkSucceeded
      /\ ~MockPublish /\ ~DeadlineExpires /\ ~WriteFails
  BY Zenon DEF RecordPreDelivery, CheckEligibility, MarkSucceeded,
     MockPublish, DeadlineExpires, WriteFails, Goto, Raise, Save
<1>5. ~SweepContainers /\ ~SweepCompose /\ ~SweepWorkspaces
  <2>1. ASSUME SweepContainers \/ SweepCompose \/ SweepWorkspaces
        PROVE  /\ pc \in SweepStep /\ sweep' = sweep
               /\ pc' = "sweepCompose" \/ pc' = "sweepWorkspaces"
                    \/ pc' = (IF sweep = "delivery" THEN "gate" ELSE "revoke")
    BY <2>1, Zenon DEF SweepContainers, SweepCompose, SweepWorkspaces
  <2>2. QED
    BY <2>1
<1>6. ~Interrupt
  <2>1. ASSUME Interrupt
        PROVE  pc' \in {"untree", "handler"}
    BY <2>1, Zenon DEF Interrupt, Raise
  <2>2. QED
    BY <2>1
<1>4. /\ ~RevokeDraft /\ ~WriteCloseout /\ ~CloseControl /\ ~MockNotify
      /\ ~Crash
  BY Zenon DEF RevokeDraft, WriteCloseout, CloseControl, MockNotify, Crash
<1>7. QED
  BY <1>1, <1>2, <1>3, <1>4, <1>5, <1>6 DEF Next, Controller, Quiet

\* closeout.json is written from what control.json is written from next.
LEMMA CloseoutTrue ==
    TypeInv /\ ReportInv /\ [Next]_vars => CloseoutIsTrue'
<1> SUFFICES ASSUME TypeInv, ReportInv, [Next]_vars
             PROVE  CloseoutIsTrue'
  OBVIOUS
<1>0. control \in Control /\ cleanOk \in BOOLEAN /\ CloseoutIsTrue
  BY DEF TypeInv, TypeOK, ControlTypeOK, FlagTypeOK, ReportInv
<1>1. CASE Quiet
  <2>1. UNCHANGED <<pc, closeout, cleanOk, control, disk, draft>>
    BY <1>1, QuietFrame, Zenon DEF memory, reports, artifacts
  <2>2. QED
    BY <1>0, <2>1 DEF CloseoutIsTrue
<1>2. CASE ~Quiet /\ pc' = "close"
  <2>1. /\ closeout' = [complete |-> cleanOk,
                        stranded |-> /\ ~cleanOk
                                           \/ control.outcome # "SUCCEEDED"
                                     /\ draft # NoDigest]
        /\ UNCHANGED <<control, cleanOk, draft>>
    BY <1>2, WhereTo, Zenon DEF WriteCloseout, memory, artifacts
  <2>2. QED
    BY <1>2, <2>1 DEF CloseoutIsTrue
<1>3. CASE ~Quiet /\ pc' = "notify"
  <2>1. CloseControl /\ UNCHANGED <<closeout, cleanOk>>
    BY <1>3, WhereTo, Zenon DEF CloseControl, memory, reports
  <2>2. /\ disk' = control' /\ pc = "close"
        /\ control'.state \in Ended
    BY <1>0, <2>1, CloseControlEffect DEF Ended
  <2>3. QED
    BY <1>0, <1>3, <2>1, <2>2 DEF CloseoutIsTrue
<1>4. CASE pc' \notin {"close", "notify"}
  BY <1>4 DEF CloseoutIsTrue
<1>5. QED
  BY <1>1, <1>2, <1>3, <1>4

\* A draft that survives a failure is reported, by the first closeout and by
\* every repetition.
LEMMA StrandedReported ==
    TypeInv /\ SweptInv /\ ReportInv /\ [Next]_vars => StrandedDraftIsReported'
<1> SUFFICES ASSUME TypeInv, SweptInv, ReportInv, [Next]_vars,
                    disk'.state \in Ended, disk'.outcome # "SUCCEEDED",
                    draft' # NoDigest
             PROVE  closeout'.stranded
  BY DEF StrandedDraftIsReported, Ended
<1>0. /\ control \in Control /\ cleanOk \in BOOLEAN
      /\ CloseoutIsTrue /\ StrandedDraftIsReported
  BY DEF TypeInv, TypeOK, ControlTypeOK, FlagTypeOK, ReportInv
<1>1. CloseoutStep
  BY NothingCloses DEF SweptInv
<1>2. CASE CloseControl
  <2>1. UNCHANGED <<closeout, draft>>
    BY <1>2, Zenon DEF CloseControl, reports, artifacts
  <2>2. /\ pc = "close" /\ disk' = control'
        /\ control'.outcome = IF cleanOk THEN control.outcome
                              ELSE "CLEANUP_FAILED"
    BY <1>0, <1>2, CloseControlEffect
  <2>3. QED
    BY <1>0, <2>1, <2>2 DEF CloseoutIsTrue
<1>3. CASE ~CloseControl
  <2>1. disk' = disk /\ ~MockPublish
    BY <1>1, <1>3, CloseoutFrame
  <2>2. draft # NoDigest
    BY <2>1, WhoWrites, Zenon DEF RevokeDraft
  <2>3. CASE UNCHANGED closeout
    BY <1>0, <2>1, <2>2, <2>3 DEF StrandedDraftIsReported, Ended
  <2>4. CASE WriteCloseout
    <3>1. control = disk
      BY <2>1 DEF SweptInv, ClosedIsOver
    <3>2. closeout'.stranded = /\ ~cleanOk \/ control.outcome # "SUCCEEDED"
                               /\ draft # NoDigest
      BY <2>4 DEF WriteCloseout
    <3>3. QED
      BY <2>1, <2>2, <3>1, <3>2
  <2>5. QED
    BY <2>3, <2>4, WhoWrites
<1>4. QED
  BY <1>2, <1>3

\* A success is written only for an eligible candidate, and what made it so
\* stays.
LEMMA SuccessBacked ==
    TypeInv /\ DraftInv /\ VerdictStands /\ ReportInv /\ [Next]_vars =>
        SuccessIsBacked'
<1> SUFFICES ASSUME TypeInv, DraftInv, VerdictStands, ReportInv, [Next]_vars
             PROVE  SuccessIsBacked'
  OBVIOUS
<1>0. /\ control \in Control /\ candidate \in Digest \cup {NoDigest}
      /\ cleanOk \in BOOLEAN /\ SuccessIsBacked
  BY DEF TypeInv, TypeOK, ControlTypeOK, MemoryTypeOK, FlagTypeOK, ReportInv
<1> USE DEF SuccessIsBacked
<1>1. CASE WriteVerification \/ RecordPreDelivery
  <2>1. /\ pc \in {"verdict", "gate"} /\ control'.outcome = control.outcome
        /\ disk' \in {control', disk}
    BY <1>0, <1>1, WriteVerificationEffect, RecordPreDeliveryEffect, Zenon
  <2>2. control.outcome = "RUNNING" /\ disk.outcome # "SUCCEEDED"
    BY <2>1, SMT DEF VerdictStands, Undecided, RunStep, CloseoutStep,
       SweepStep, CloseStep
  <2>3. QED
    BY <2>1, <2>2, SMT
<1>2. CASE MarkSucceeded
  <2>1. /\ pc = "succeed" /\ control'.preClean = control.preClean
        /\ disk' \in {control', disk}
    BY <1>0, <1>2, MarkSucceededEffect, Zenon DEF Written
  <2>2. verification.accepted /\ control.preClean
    BY <2>1, Zenon DEF DraftInv, EligibleAtPublish, Eligible
  <2>3. verification' = verification
    BY <1>2, Zenon DEF MarkSucceeded, artifacts
  <2>4. disk'.outcome = "SUCCEEDED" => verification.accepted /\ disk'.preClean
    <3>1. CASE disk' = control'
      BY <2>1, <2>2, <3>1, Zenon
    <3>2. CASE disk' = disk
      BY <1>0, <3>2, Zenon
    <3>3. QED
      BY <2>1, <3>1, <3>2
  <2>5. QED
    BY <2>1, <2>2, <2>3, <2>4, Zenon
<1>3. CASE ~(WriteVerification \/ RecordPreDelivery \/ MarkSucceeded)
  <2>1. verification' = verification
    BY <1>3, WhoWrites
  <2>2. /\ disk' \in {control', disk}
        /\ \/ control' \in {control, disk}
           \/ control'.outcome # "SUCCEEDED"
           \/ /\ control'.outcome = control.outcome
              /\ control'.preClean = control.preClean
    <3>1. CASE ValidateIncident \/ CollectEvidence \/ AcceptCandidate
      BY <1>0, <3>1, StateSaveEffect, Zenon DEF SameCandidate
    <3>2. CASE BeginAttempt
      BY <1>0, <3>2, BeginAttemptEffect, Zenon DEF SameCandidate, Written
    <3>3. CASE AttemptsExhausted
      BY <1>0, <3>3, AttemptsExhaustedEffect, SMT
    <3>4. CASE HandleException
      BY <1>0, <3>4, HandleExceptionEffect, SMT
    <3>5. CASE CloseControl
      BY <1>0, <3>5, CloseControlEffect, SMT DEF SameCandidate
    <3>6. CASE ~Writer
      BY <3>6, WhoWrites, Zenon DEF Crash, CleanupExisting
    <3>7. QED
      BY <1>3, <3>1, <3>2, <3>3, <3>4, <3>5, <3>6 DEF Writer
  <2>3. QED
    BY <1>0, <2>1, <2>2, SMT
<1>4. QED
  BY <1>1, <1>2, <1>3

\* The draft of a success is there when the closeout begins, and complete
\* cleanup leaves it there.
LEMMA SuccessDraft ==
    TypeInv /\ DraftInv /\ ReportInv /\ [Next]_vars => SuccessHasDraft'
<1> SUFFICES ASSUME TypeInv, DraftInv, ReportInv, [Next]_vars
             PROVE  SuccessHasDraft'
  OBVIOUS
<1>0. /\ control \in Control /\ cleanOk \in BOOLEAN /\ SuccessHasDraft
  BY DEF TypeInv, TypeOK, ControlTypeOK, FlagTypeOK, ReportInv
<1>1. CASE Quiet
  <2>1. UNCHANGED <<pc, control, draft, candidate, exc, cleanOk, sweep>>
    BY <1>1, QuietFrame, Zenon DEF memory, artifacts
  <2>2. QED
    BY <1>0, <2>1 DEF SuccessHasDraft, CloseoutStep
<1>2. CASE ~Quiet
  <2>1. pc' = "published" => draft' # NoDigest
    <3>1. SUFFICES ASSUME pc' = "published" PROVE draft' # NoDigest
      OBVIOUS
    <3>2. MockPublish
      BY <1>2, <3>1, WhereTo
    <3>3. Eligible /\ draft' = candidate
      BY <3>1, <3>2, SMT DEF MockPublish, Raise
    <3>4. candidate \in Digest
      BY <3>3, SMT DEF Eligible, TypeInv, TypeOK, ArtifactTypeOK, Result
    <3>5. QED
      BY <3>3, <3>4, ConstantsAssumption
  <2>2. ASSUME CloseoutStep', pc' # "idle", control'.outcome = "SUCCEEDED",
               draft' = NoDigest
        PROVE  \/ candidate' = NoDigest \/ exc' = "Interrupt"
               \/ pc' \in {"closeout", "close"} /\ ~cleanOk'
    <3>1. CASE ~CloseoutStep \/ pc = "idle"
      <4>1. CASE AttemptsExhausted \/ HandleException
        BY <1>0, <2>2, <4>1, AttemptsExhaustedEffect, HandleExceptionEffect,
           SMT
      <4>2. CASE Unwind
        BY <4>2, Zenon DEF Unwind
      <4>3. CASE FinishPublish
        <5>1. pc = "published" /\ draft' = draft
          BY <4>3, Zenon DEF FinishPublish, artifacts
        <5>2. QED
          BY <1>0, <2>2, <5>1 DEF SuccessHasDraft
      <4>4. CASE CleanupExisting
        BY <4>4, Zenon DEF CleanupExisting
      <4>5. sweep \in {"delivery", "closeout"}
        BY DEF TypeInv, TypeOK, MemoryTypeOK
      <4>6. QED
        BY <1>2, <2>2, <3>1, <4>1, <4>2, <4>3, <4>4, <4>5, EntersCloseout
    <3>2. CASE CloseoutStep /\ pc # "idle"
      <4>1. CASE SweepContainers \/ SweepCompose \/ SweepWorkspaces
        <5>1. /\ UNCHANGED <<control, draft, candidate, exc>>
              /\ pc \in SweepStep
          BY <4>1, Zenon DEF SweepContainers, SweepCompose, SweepWorkspaces,
             artifacts, SweepStep
        <5>2. QED
          BY <1>0, <2>2, <3>2, <5>1, SMT DEF SuccessHasDraft, SweepStep
      <4>2. CASE RevokeDraft
        <5>1. /\ UNCHANGED <<control, candidate, exc, cleanOk>>
              /\ pc = "revoke" /\ pc' = "closeout"
              /\ \/ UNCHANGED draft
                 \/ ~cleanOk \/ control.outcome # "SUCCEEDED"
          BY <4>2, Zenon DEF RevokeDraft, Goto, memory
        <5>2. QED
          BY <1>0, <2>2, <3>2, <5>1, SMT DEF SuccessHasDraft
      <4>3. CASE WriteCloseout
        <5>1. /\ UNCHANGED <<control, candidate, exc, cleanOk, draft>>
              /\ pc = "closeout" /\ pc' = "close"
          BY <4>3, Zenon DEF WriteCloseout, Goto, memory, artifacts
        <5>2. QED
          BY <1>0, <2>2, <3>2, <5>1, SMT DEF SuccessHasDraft
      <4>4. CASE CloseControl
        <5>1. UNCHANGED <<candidate, exc, cleanOk, draft>> /\ pc = "close"
          BY <4>4, Zenon DEF CloseControl, Goto, memory, artifacts
        <5>2. cleanOk /\ control.outcome = "SUCCEEDED"
          BY <1>0, <2>2, <4>4, CloseControlEffect, SMT
        <5>3. QED
          BY <1>0, <2>2, <3>2, <5>1, <5>2, SMT DEF SuccessHasDraft
      <4>5. CASE MockNotify \/ Crash
        BY <2>2, <4>5, Zenon DEF MockNotify, Crash
      <4>6. QED
        BY <1>2, <3>2, <4>1, <4>2, <4>3, <4>4, <4>5, InCloseout
    <3>3. QED
      BY <3>1, <3>2
  <2>3. QED
    BY <2>1, <2>2 DEF SuccessHasDraft
<1>3. QED
  BY <1>1, <1>2

-----------------------------------------------------------------------------
(***************************************************************************)
(* The invariant and the theorems.                                         *)
(***************************************************************************)
\* The run begins in the invariant ...
LEMMA IInvInit == Init => IInv
<1> SUFFICES ASSUME Init
             PROVE  IInv
  OBVIOUS
<1> USE ConstantsAssumption DEF Init
<1>1. TypeInv
  <2>1. control \in Control /\ disk \in Control
    BY DEF Control, State, Outcome
  <2>2. /\ verification \in Verification
        /\ closeout \in [complete : BOOLEAN, stranded : BOOLEAN]
    BY DEF Verification
  <2>3. MemoryTypeOK
    BY DEF MemoryTypeOK, RunStep, Phase, ContainerPhase, Exception
  <2>4. FlagTypeOK
    BY Zenon DEF FlagTypeOK
  <2>5. ArtifactTypeOK
    BY <2>2, SMT DEF ArtifactTypeOK
  <2>6. ResourceTypeOK
    BY SMT DEF ResourceTypeOK
  <2>7. AttemptIsDurable
    BY SMT DEF AttemptIsDurable, Attempting, AttemptStep, CandidateStep,
       DeliveryStep, TestStep, SweepStep
  <2>8. QED
    BY <2>1, <2>3, <2>4, <2>5, <2>6, <2>7 DEF TypeInv, TypeOK, ControlTypeOK
<1>2. JournalInv
  BY SMT DEF JournalInv, ClientInv, Journaled, WriteAhead, ClientIsWatched,
     IntentFirst, RecordsCoverCompose, ResultsAreBacked, TestStep
<1>3. SweptInv
  BY SMT DEF SweptInv, TeardownInv, GateIsClean, ContainersAreSwept,
     DockerIsSwept, TreesAreSwept, ClosedIsOver, ClosedIsClean, DeliveryStep,
     CloseStep, Ended
<1>4. DraftInv
  BY SMT DEF DraftInv, EligibleAtPublish, PublishIsDurable, DraftIsLast,
     DraftIsExactCandidate
<1>5. VerdictInv
  BY SMT DEF VerdictInv, VerdictStands, SuccessIsEarned, Undecided, RunStep,
     SweepStep
<1>6. ReportInv
  BY SMT DEF ReportInv, CloseoutIsTrue, StrandedDraftIsReported,
     SuccessIsBacked, SuccessHasDraft, CloseoutStep, SweepStep, CloseStep
<1>7. QED
  BY <1>1, <1>2, <1>3, <1>4, <1>5, <1>6 DEF IInv

\* ... and every step, of whichever actor, keeps it.
LEMMA IInvNext == IInv /\ [Next]_vars => IInv'
<1> SUFFICES ASSUME IInv, [Next]_vars
             PROVE  IInv'
  OBVIOUS
<1>1. TypeInv'
  BY Fields, ControlTyped, FlagTyped, MemoryTyped, ArtifactTyped,
     ResourceTyped, AttemptDurable DEF IInv, TypeInv, TypeOK
<1>2. JournalInv'
  BY <1>1, Fields, ClientsKept, WriteAheadKept, ResultsBacked
  DEF IInv, JournalInv
<1>3. SweptInv'
  BY Fields, TeardownKept, ClosedOver, ClosedClean
  DEF IInv, JournalInv, SweptInv
<1>4. DraftInv'
  BY PublishEligible, PublishDurable, DraftLast, DraftExact
  DEF IInv, DraftInv
<1>5. VerdictInv'
  BY VerdictKept, SuccessEarned DEF IInv, VerdictInv
<1>6. ReportInv'
  BY CloseoutTrue, StrandedReported, SuccessBacked, SuccessDraft
  DEF IInv, ReportInv, VerdictInv
<1>7. QED
  BY <1>1, <1>2, <1>3, <1>4, <1>5, <1>6 DEF IInv

\* IInv holds in every state of every run, with any crashes, faults and
\* cleanups.
THEOREM Invariance == Spec => []IInv
  BY IInvInit, IInvNext, PTL DEF Spec

\* Every variable has its type; in particular the loop never counts past
\* max_attempts.
THEOREM TypeCorrect == Spec => []TypeOK
<1>1. IInv => TypeOK
  BY DEF IInv, TypeInv
<1>2. QED
  BY <1>1, Invariance, PTL

\* Whatever Docker runs or may still start was journaled on disk before it
\* was asked for, within the durable attempt counter.
THEOREM JournalBeforeLaunch == Spec => []WriteAhead
<1>1. IInv => WriteAhead
  BY DEF IInv, JournalInv
<1>2. QED
  BY <1>1, Invariance, PTL

\* However the controller died, cleanup_existing accepts its run directory.
THEOREM CleanupAlwaysAccepted == Spec => []CleanupNeverRefused
<1>1. IInv => CleanupNeverRefused
  <2> SUFFICES ASSUME IInv
               PROVE  ~Refused
    BY Zenon DEF CleanupNeverRefused
  <2>1. disk.attempts \in 0 .. MaxAttempts
    BY ControlFields DEF IInv, TypeInv, TypeOK, ControlTypeOK
  <2>2. \A k \in intents : k[1] \in Attempt /\ k[1] <= disk.attempts
    BY SMT DEF IInv, TypeInv, TypeOK, ArtifactTypeOK, JournalInv, WriteAhead,
       Key
  <2>3. \A r \in results : r.attempt \in Attempt
    BY DEF IInv, TypeInv, TypeOK, ArtifactTypeOK, Result
  <2>4. \A r \in results : r.attempt <= disk.attempts
    BY Zenon DEF IInv, JournalInv, ResultsAreBacked
  <2>5. \A r \in results : ~(r.attempt > disk.attempts)
    BY <2>1, <2>3, <2>4, ConstantsAssumption, SMT DEF Attempt
  <2>6. \A k \in intents : ~(k[1] > disk.attempts)
    BY <2>1, <2>2, ConstantsAssumption, SMT DEF Attempt
  <2>7. \A r \in results : r.compose => <<r.attempt, "compose">> \in intents
    BY Zenon DEF IInv, JournalInv, ResultsAreBacked
  <2>8. QED
    BY <2>5, <2>6, <2>7, Zenon DEF Refused
<1>2. QED
  BY <1>1, Invariance, PTL

\* A durable draft is the digest of the candidate that passed both its own
\* tests and the independent verification of the attempt on record.
THEOREM DraftMatchesCandidate == Spec => []DraftIsExactCandidate
<1>1. IInv => DraftIsExactCandidate
  BY DEF IInv, DraftInv
<1>2. QED
  BY <1>1, Invariance, PTL

\* CLOSED on disk means that nothing the controller waited for is left.
THEOREM ClosedMeansClean == Spec => []ClosedIsClean
<1>1. IInv => ClosedIsClean
  BY DEF IInv, SweptInv
<1>2. QED
  BY <1>1, Invariance, PTL

\* A draft that survives a run that closed without success is reported.
THEOREM StrandedIsReported == Spec => []StrandedDraftIsReported
<1>1. IInv => StrandedDraftIsReported
  BY DEF IInv, ReportInv
<1>2. QED
  BY <1>1, Invariance, PTL

\* verify_run finds nothing after a closeout that reported complete cleanup,
\* but a stranded draft that closeout.json names, or the missing draft of a
\* success that was interrupted before the delivery.
THEOREM CloseoutVerifies == Spec => CompleteCloseoutVerifies
<1> DEFINE Excused == (IF closeout.stranded THEN {"draft"} ELSE {}) \cup
                      (IF candidate = NoDigest \/ exc = "Interrupt"
                       THEN {"no draft"} ELSE {})
<1>1. ASSUME IInv, MockNotify, cleanOk
      PROVE  VerifyRun' \subseteq Excused
  <2>1. /\ pc = "notify" /\ notice' = control.outcome
        /\ UNCHANGED <<disk, closeout, draft, verification, workspaces>>
    BY <1>1, Zenon DEF MockNotify, artifacts, trees
  <2>2. /\ closeout.complete /\ disk = control /\ disk.state \in Ended
    BY <1>1, <2>1 DEF IInv, ReportInv, CloseoutIsTrue
  <2>3. workspaces = {}
    BY <1>1, <2>1 DEF IInv, SweptInv, TeardownInv, TreesAreSwept, CloseStep
  <2>4. disk.outcome = "SUCCEEDED" => verification.accepted /\ disk.preClean
    BY <1>1 DEF IInv, ReportInv, SuccessIsBacked
  <2>5. disk.outcome = "SUCCEEDED" /\ draft = NoDigest =>
          candidate = NoDigest \/ exc = "Interrupt"
    BY <1>1, <2>1, <2>2, SMT DEF IInv, ReportInv, SuccessHasDraft,
       CloseoutStep, CloseStep
  <2>6. draft \in {NoDigest, disk.digest}
    BY <1>1 DEF IInv, DraftInv, DraftIsExactCandidate
  <2>7. disk.outcome # "SUCCEEDED" /\ draft # NoDigest => closeout.stranded
    BY <1>1, <2>2 DEF IInv, ReportInv, StrandedDraftIsReported, Ended
  <2>8. /\ ~(disk'.outcome = "SUCCEEDED" /\ ~verification'.accepted)
        /\ ~(disk'.outcome = "SUCCEEDED" /\ ~disk'.preClean)
    BY <2>1, <2>4, Zenon
  <2>9. /\ ~(notice' # disk'.outcome) /\ ~(~closeout'.complete)
        /\ ~(workspaces' # {})
    BY <2>1, <2>2, <2>3, Zenon
  <2>10. ~(/\ disk'.outcome = "SUCCEEDED"
           /\ draft' \notin {NoDigest, disk'.digest})
    BY <2>1, <2>6, Zenon
  <2>11. disk'.outcome = "SUCCEEDED" /\ draft' = NoDigest =>
           "no draft" \in Excused
    BY <2>1, <2>5, Zenon
  <2>12. ~(disk'.outcome = "SUCCEEDED") /\ draft' # NoDigest =>
           "draft" \in Excused
    BY <2>1, <2>7, Zenon
  <2>13. QED
    <3> HIDE DEF Excused
    <3>1. VerifyRun' = (IF disk'.outcome = "SUCCEEDED" /\ draft' = NoDigest
                        THEN {"no draft"} ELSE {}) \cup
                       (IF ~(disk'.outcome = "SUCCEEDED")
                           /\ draft' # NoDigest
                        THEN {"draft"} ELSE {})
      BY <2>8, <2>9, <2>10, Zenon DEF VerifyRun
    <3>2. QED
      BY <2>11, <2>12, <3>1
<1>2. IInv /\ [Next]_vars =>
        [MockNotify /\ cleanOk => VerifyRun' \subseteq Excused]_vars
  BY <1>1
<1>3. QED
  BY <1>2, Invariance, PTL DEF Spec, CompleteCloseoutVerifies

\* A draft is written only after complete cleanup and a durable verdict of
\* success, and never over an earlier one.
THEOREM DraftAfterTeardown == Spec => PublishAfterTeardown
<1>1. ASSUME IInv, [Next]_vars, draft' \notin {draft, NoDigest}
      PROVE  /\ draft = NoDigest
             /\ disk.outcome = "SUCCEEDED" /\ disk.state = "READY_TO_PUBLISH"
             /\ inflight \cup resources = {}
             /\ workspaces = {} /\ ~verifierTree
  <2>1. pc = "publish"
    BY <1>1, WhoWrites, Zenon DEF MockPublish, RevokeDraft
  <2>2. draft = NoDigest
    BY <1>1, <2>1, SMT DEF IInv, DraftInv, DraftIsLast, CloseoutStep,
       SweepStep, CloseStep
  <2>3. disk.outcome = "SUCCEEDED" /\ disk.state = "READY_TO_PUBLISH"
    BY <1>1, <2>1, Zenon DEF IInv, DraftInv, PublishIsDurable
  <2>4. cleanOk
    BY <1>1, <2>1, Zenon DEF IInv, SweptInv, TeardownInv, GateIsClean,
       DeliveryStep
  <2>5. resources = {} /\ workspaces = {} /\ ~verifierTree
    BY <1>1, <2>1, <2>4, Zenon DEF IInv, SweptInv, TeardownInv, DockerIsSwept,
       TreesAreSwept, DeliveryStep
  <2>6. inflight = {}
    BY <1>1, <2>1, SMT DEF IInv, JournalInv, ClientInv, ClientIsWatched
  <2>7. QED
    BY <2>2, <2>3, <2>5, <2>6, Zenon
<1>2. IInv /\ [Next]_vars =>
        [draft' \notin {draft, NoDigest} =>
            /\ draft = NoDigest
            /\ disk.outcome = "SUCCEEDED" /\ disk.state = "READY_TO_PUBLISH"
            /\ inflight \cup resources = {}
            /\ workspaces = {} /\ ~verifierTree]_vars
  BY <1>1, Zenon
<1>3. QED
  BY <1>2, Invariance, PTL DEF Spec, PublishAfterTeardown

\* No crash, late exception or repeated cleanup improves a durable verdict,
\* and no cleanup makes a success of a run on record as RUNNING.
THEOREM VerdictNeverUpgraded == Spec => OutcomeNeverUpgraded
<1>1. IInv /\ [Next]_vars =>
        [/\ disk.outcome \notin {"RUNNING", "SUCCEEDED"} =>
              disk'.outcome \in {disk.outcome, "CLEANUP_FAILED"}
         /\ disk.outcome = "SUCCEEDED" => disk'.outcome # "RUNNING"
         /\ disk.outcome = "RUNNING" /\ disk'.outcome = "SUCCEEDED" =>
               Eligible /\ disk'.digest = candidate]_vars
  BY VerdictStep DEF IInv
<1>2. QED
  BY <1>1, Invariance, PTL DEF Spec, OutcomeNeverUpgraded

-----------------------------------------------------------------------------
(***************************************************************************)
(* IncidentController implements DraftDelivery: a step of a run, a crash   *)
(* or a cleanup takes the draft one abstract step on, or none.             *)
(***************************************************************************)
\* The steps up to the draft.
Pending == TowardsDraft \/ pc = "publish"

-----------------------------------------------------------------------------
(***************************************************************************)
(* There is no way back to a draft.                                        *)
(***************************************************************************)
\* An exception that left independent_verify removes its tree, and then goes
\* on to the handler.
LEMMA ExceptionStays ==
    ASSUME [Next]_vars, ~Quiet, pc \in {"reap", "untree"}, exc # "none"
    PROVE  \/ pc' \in {"handler", "idle"}
           \/ pc' = "untree" /\ exc' # "none"
<1>1. /\ ~ValidateIncident /\ ~CollectEvidence /\ ~BeginAttempt
      /\ ~AttemptsExhausted /\ ~CreateWorkspace /\ ~StartProvider
      /\ ~ProviderReturns /\ ~ProviderFails /\ ~AcceptCandidate
      /\ ~JournalCompose /\ ~JournalContainer /\ ~LaunchContainer
      /\ ~ContainerReturns /\ ~ContainerTimesOut
  BY Zenon DEF ValidateIncident, CollectEvidence, BeginAttempt,
     AttemptsExhausted, CreateWorkspace, StartProvider, ProviderReturns,
     ProviderFails, AcceptCandidate, JournalCompose, JournalContainer,
     LaunchContainer, ContainerReturns, ContainerTimesOut
<1>2. /\ ~ComposeUp /\ ~ComposeReturns /\ ~ComposeTimesOut /\ ~ComposeDown
      /\ ~WriteResult /\ ~BeginIndependent /\ ~WriteVerification /\ ~Retry
      /\ ~SweepContainers /\ ~SweepCompose /\ ~SweepWorkspaces
      /\ ~RecordPreDelivery /\ ~CheckEligibility /\ ~MarkSucceeded
  BY Zenon DEF ComposeUp, ComposeReturns, ComposeTimesOut, ComposeDown,
     WriteResult, BeginIndependent, WriteVerification, Retry,
     SweepContainers, SweepCompose, SweepWorkspaces, RecordPreDelivery,
     CheckEligibility, MarkSucceeded
<1>3. /\ ~MockPublish /\ ~FinishPublish /\ ~DeadlineExpires /\ ~WriteFails
      /\ ~HandleException /\ ~Unwind /\ ~RevokeDraft /\ ~WriteCloseout
      /\ ~CloseControl /\ ~MockNotify /\ ~CleanupExisting
  BY Zenon DEF MockPublish, FinishPublish, DeadlineExpires, WriteFails,
     HandleException, Unwind, RevokeDraft, WriteCloseout, CloseControl,
     MockNotify, CleanupExisting
<1>4. CASE ReapContainer
  BY <1>4, Zenon DEF ReapContainer
<1>5. CASE RemoveVerifierTree
  BY <1>5, Zenon DEF RemoveVerifierTree, Goto
<1>6. CASE Interrupt
  BY <1>6, Zenon DEF Interrupt, Raise
<1>7. CASE Crash
  BY <1>7, Zenon DEF Crash
<1>8. QED
  BY <1>1, <1>2, <1>3, <1>4, <1>5, <1>6, <1>7 DEF Next, Controller, Quiet

\* A process that is not on its way to the draft never gets there.
LEMMA NoWayBack ==
    ASSUME TypeInv, [Next]_vars, ~Quiet, ~Pending
    PROVE  ~Pending'
<1> USE DEF Pending, TowardsDraft, CloseoutStep, SweepStep, CloseStep
<1>1. sweep \in {"delivery", "closeout"}
  BY DEF TypeInv, TypeOK, MemoryTypeOK
<1>2. CASE CloseoutStep
  <2>1. CloseoutStep'
    BY <1>2, WhereFrom
  <2>2. QED
    BY <2>1
<1>3. CASE pc \in {"reap", "untree"} /\ exc # "none"
  <2>1. \/ pc' \in {"handler", "idle"}
        \/ pc' = "untree" /\ exc' # "none"
    BY <1>3, ExceptionStays
  <2>2. QED
    BY <2>1
<1>4. CASE pc = "published"
  <2>1. pc' \in {"published", "handler"} \/ CloseoutStep'
    BY <1>4, WhereFrom
  <2>2. QED
    BY <2>1
<1>5. CASE pc = "handler"
  <2>1. HandleException \/ Unwind \/ Crash
    BY <1>5, WhereFrom
  <2>2. \/ pc' = "sweepContainers" /\ sweep' = "closeout"
        \/ pc' = "idle"
    BY <2>1, Zenon DEF HandleException, Unwind, Crash, Sweep
  <2>3. QED
    BY <2>2
<1>6. QED
  BY <1>1, <1>2, <1>3, <1>4, <1>5

\* Only a process on its way to the draft writes a verdict.
LEMMA PendingVerdict ==
    ASSUME [Next]_vars, ~Pending
    PROVE  verification' = verification
<1>1. ~WriteVerification
  BY Zenon DEF WriteVerification, Pending, TowardsDraft, SweepStep, CloseStep
<1>2. QED
  BY <1>1, WhoWrites

\* A verdict keeps the process on its way.
LEMMA LeavesVerdict ==
    ASSUME [Next]_vars, WriteVerification
    PROVE  Pending'
<1>1. \/ pc' = "retry"
      \/ pc' = "sweepContainers" /\ sweep' = "delivery"
  BY Zenon DEF WriteVerification, Sweep
<1>2. QED
  BY <1>1 DEF Pending, TowardsDraft, SweepStep, CloseStep

-----------------------------------------------------------------------------
(***************************************************************************)
(* The mapping, place by place.                                            *)
(***************************************************************************)
LEMMA Stages ==
    /\ draft # NoDigest => Stage = "offered"
    /\ draft = NoDigest /\ pc = "publish" => Stage = "authorised"
    /\ draft = NoDigest /\ TowardsDraft => Stage = "open"
    /\ draft = NoDigest /\ ~Pending => Stage = "ended"
  BY DEF Stage, Pending, TowardsDraft

\* The same after a step.
LEMMA StagesNext ==
    /\ draft' # NoDigest => Stage' = "offered"
    /\ draft' = NoDigest /\ pc' = "publish" => Stage' = "authorised"
    /\ draft' = NoDigest /\ TowardsDraft' => Stage' = "open"
    /\ draft' = NoDigest /\ ~Pending' => Stage' = "ended"
  BY DEF Stage, Pending, TowardsDraft

\* An eligible candidate is a vetted digest.
LEMMA EligibleIsVetted ==
    ASSUME TypeInv, Eligible
    PROVE  Vetted = candidate /\ candidate \in Digest
<1>1. verification.accepted /\ verification.digest = candidate
  BY DEF Eligible
<1>2. Vetted = candidate
  BY <1>1, Zenon DEF Vetted
<1>3. candidate \in Digest
  BY SMT DEF Eligible, TypeInv, TypeOK, ArtifactTypeOK, Result
<1>4. QED
  BY <1>2, <1>3

\* What is vetted after a step is a digest too.
LEMMA VettedTypedNext ==
    ASSUME TypeInv'
    PROVE  Vetted' \in Digest \cup {NoDigest}
<1>1. verification'.digest \in Digest \cup {NoDigest}
  BY DEF TypeInv, TypeOK, ArtifactTypeOK, Verification
<1>2. QED
  BY <1>1 DEF Vetted

\* A run starts with nothing vetted and nothing offered.
LEMMA InitialMapping == Init => Delivery!Init
<1> SUFFICES ASSUME Init
             PROVE  Delivery!Init
  OBVIOUS
<1>1. pc = "received" /\ draft = NoDigest /\ Vetted = NoDigest
  BY DEF Init, Vetted
<1>2. TowardsDraft
  BY <1>1 DEF TowardsDraft, SweepStep, CloseStep
<1>3. QED
  BY <1>1, <1>2, Stages DEF Delivery!Init

\* Every step of a run is a step of DraftDelivery or changes nothing of it.
LEMMA StepMapping ==
    ASSUME IInv, TypeInv', [Next]_vars
    PROVE  [Delivery!Next]_Delivery!vars
<1> USE DEF Delivery!Next, Delivery!vars
<1>0. TypeInv /\ DraftInv
  BY DEF IInv
<1>1. CASE Quiet
  <2>1. UNCHANGED <<pc, exc, sweep, verification, draft>>
    BY <1>1, QuietFrame, Zenon DEF memory, artifacts
  <2>2. UNCHANGED <<Stage, Vetted>>
    BY <2>1, Zenon DEF Stage, TowardsDraft, Vetted
  <2>3. QED
    BY <2>1, <2>2
<1>2. CASE ~Quiet /\ draft' = NoDigest /\ draft = NoDigest
  <2>1. CASE ~Pending
    <3>1. ~Pending' /\ verification' = verification
      BY <1>0, <1>2, <2>1, NoWayBack, PendingVerdict
    <3>2. Stage' = Stage /\ Vetted' = Vetted
      BY <1>2, <2>1, <3>1, Stages, StagesNext DEF Vetted
    <3>3. QED
      BY <1>2, <3>2
  <2>2. CASE pc = "publish"
    <3>1. pc' \in {"published", "handler"} \/ CloseoutStep'
      BY <1>2, <2>2, WhereFrom
    <3>2. ~Pending'
      BY <3>1 DEF Pending, TowardsDraft, CloseoutStep, SweepStep, CloseStep
    <3>3. verification' = verification
      BY <2>2, WhoWrites, Zenon DEF WriteVerification
    <3>4. Stage = "authorised" /\ Stage' = "ended" /\ Vetted' = Vetted
      BY <1>2, <2>2, <3>2, <3>3, Stages, StagesNext DEF Vetted
    <3>5. Delivery!End
      BY <1>2, <3>4 DEF Delivery!End
    <3>6. QED
      BY <3>5
  <2>3. CASE TowardsDraft /\ pc' = "publish"
    <3>1. MarkSucceeded
      BY <1>2, <2>3, WhereTo
    <3>2. pc = "succeed" /\ verification' = verification
      BY <3>1, Zenon DEF MarkSucceeded, artifacts
    <3>3. Eligible
      BY <1>0, <3>2 DEF DraftInv, EligibleAtPublish
    <3>4. /\ Stage = "open" /\ Stage' = "authorised"
          /\ Vetted \in Digest /\ Vetted' = Vetted
      BY <1>0, <1>2, <2>3, <3>2, <3>3, EligibleIsVetted, Stages, StagesNext
      DEF Vetted
    <3>5. Delivery!Authorise
      BY <1>2, <3>4 DEF Delivery!Authorise
    <3>6. QED
      BY <3>5
  <2>4. CASE TowardsDraft /\ TowardsDraft'
    <3>1. Stage = "open" /\ Stage' = "open"
      BY <1>2, <2>4, Stages, StagesNext
    <3>2. Vetted' \in Digest \cup {NoDigest}
      BY VettedTypedNext
    <3>3. Delivery!Vet
      BY <1>2, <3>1, <3>2 DEF Delivery!Vet
    <3>4. QED
      BY <3>3
  <2>5. CASE TowardsDraft /\ ~Pending'
    <3>1. ~WriteVerification
      BY <2>5, LeavesVerdict
    <3>2. Stage = "open" /\ Stage' = "ended" /\ Vetted' = Vetted
      BY <1>2, <2>5, <3>1, WhoWrites, Stages, StagesNext DEF Vetted
    <3>3. Delivery!End
      BY <1>2, <3>2 DEF Delivery!End
    <3>4. QED
      BY <3>3
  <2>6. QED
    BY <2>1, <2>2, <2>3, <2>4, <2>5 DEF Pending
<1>3. CASE ~Quiet /\ draft' # NoDigest /\ draft = NoDigest
  <2>1. MockPublish
    BY <1>3, WhoWrites, Zenon DEF RevokeDraft
  <2>2. /\ pc = "publish" /\ Eligible /\ draft' = candidate
        /\ verification' = verification
    BY <1>0, <1>3, <2>1, MockPublishEffect
  <2>3. /\ Stage = "authorised" /\ Stage' = "offered"
        /\ Vetted' = Vetted /\ draft' = Vetted
    BY <1>0, <1>3, <2>2, EligibleIsVetted, Stages, StagesNext DEF Vetted
  <2>4. Delivery!Offer
    BY <2>3 DEF Delivery!Offer
  <2>5. QED
    BY <2>4
<1>4. CASE ~Quiet /\ draft # NoDigest
  <2>1. ~Pending
    BY <1>0, <1>4 DEF DraftInv, DraftIsLast, Pending, TowardsDraft,
       CloseoutStep, SweepStep, CloseStep
  <2>2. ~Pending' /\ verification' = verification
    BY <1>0, <1>4, <2>1, NoWayBack, PendingVerdict
  <2>3. Vetted' = Vetted /\ Stage = "offered"
    BY <1>4, <2>2, Stages DEF Vetted
  <2>4. CASE draft' = NoDigest
    <3>1. Stage' = "ended"
      BY <2>2, <2>4, StagesNext
    <3>2. Delivery!End
      BY <2>3, <2>4, <3>1 DEF Delivery!End
    <3>3. QED
      BY <3>2
  <2>5. CASE draft' # NoDigest
    <3>1. (~MockPublish /\ ~RevokeDraft) \/ draft' = draft
      BY <1>4, <2>1, <2>5, Zenon DEF MockPublish, RevokeDraft, Pending
    <3>2. draft' = draft /\ Stage' = "offered"
      BY <2>5, <3>1, WhoWrites, StagesNext
    <3>3. QED
      BY <2>3, <3>2
  <2>6. QED
    BY <2>4, <2>5
<1>5. QED
  BY <1>1, <1>2, <1>3, <1>4

\* The durable draft of a run, with its crashes and repeated cleanups, takes
\* only steps of DraftDelivery: it is offered once, as the digest vetted
\* before, withdrawn at most once, and nothing follows.
THEOREM RunImplementsDelivery == Spec => ImplementsDraftDelivery
<1>1. Init => Delivery!Init
  BY InitialMapping
<1>2. IInv /\ IInv' /\ [Next]_vars => [Delivery!Next]_Delivery!vars
  BY StepMapping DEF IInv
<1>3. QED
  BY <1>1, <1>2, Invariance, PTL
  DEF Spec, ImplementsDraftDelivery, Delivery!Spec

-----------------------------------------------------------------------------
(***************************************************************************)
(* How many steps an invocation can take.                                  *)
(***************************************************************************)
\* Where a container, a sweep, the loop of the attempts and what follows it
\* stand: every step of the controller but the start of an attempt lowers it.
ContainerPlace ==
    (IF pc = "intent" THEN 3
     ELSE IF pc = "launch" THEN 2
     ELSE IF pc = "running" THEN 1
     ELSE 0)
    + (IF phase = "attempt-unit" THEN 39
       ELSE IF phase = "independent-unit" THEN 26
       ELSE IF phase = "independent-verifier" THEN 22
       ELSE 35)

\* A sweep stands between its containers and its workspaces.
SweepPlace ==
    (IF pc = "sweepContainers" THEN 2
     ELSE IF pc = "sweepCompose" THEN 1
     ELSE 0)
    + (IF sweep = "delivery" THEN 15 ELSE 5)

\* An attempt goes from its patch, through its tests, to its verdict.
LoopPlace ==
    IF pc = "patching" THEN 47
    ELSE IF pc = "proposing" THEN 46
    ELSE IF pc = "working" THEN 45
    ELSE IF pc = "proposed" THEN 44
    ELSE IF pc = "testing" THEN 43
    ELSE IF pc \in {"intent", "launch", "running", "reap"} THEN ContainerPlace
    ELSE IF pc = "compose" THEN 34
    ELSE IF pc = "composing" THEN 33
    ELSE IF pc = "composeDown" THEN 32
    ELSE IF pc = "result" THEN 31
    ELSE IF pc = "verify" THEN 30
    ELSE IF pc = "untree" THEN 21
    ELSE IF pc \in {"received", "verdict"} THEN 20
    ELSE IF pc \in {"validated", "retry"} THEN 19
    ELSE 18

\* What follows the attempts: delivery, or the handler, then closeout.
EndPlace ==
    IF pc \in SweepStep THEN SweepPlace
    ELSE IF pc = "gate" THEN 14
    ELSE IF pc = "eligible" THEN 13
    ELSE IF pc = "succeed" THEN 12
    ELSE IF pc = "publish" THEN 11
    ELSE IF pc = "published" THEN 10
    ELSE IF pc = "untree" THEN 9
    ELSE IF pc = "handler" THEN 8
    ELSE IF pc = "revoke" THEN 4
    ELSE IF pc = "closeout" THEN 3
    ELSE IF pc = "close" THEN 2
    ELSE IF pc = "notify" THEN 1
    ELSE 0

\* Another attempt may still follow: neither a verdict nor an exception is
\* there yet.
Looping ==
    \/ pc \in {"received", "validated", "loop", "patching", "proposing",
               "working", "proposed", "testing", "intent", "launch",
               "running", "reap", "compose", "composing", "composeDown",
               "result", "verify", "verdict", "retry"}
    \/ pc = "untree" /\ exc = "none"

Place == IF Looping THEN LoopPlace ELSE EndPlace

\* What an invocation has still to do at most, in steps of the controller:
\* each attempt that is left takes thirty.
Remaining ==
    IF Looping THEN Place + 30 * (MaxAttempts - attempt) ELSE Place

\* An exception is on its way out of the try block.
Raised == \/ pc' = "handler"
          \/ pc' = "untree" /\ exc' # "none"

\* The steps from which one can come.
Busy == \/ Looping
        \/ pc \in {"gate", "eligible", "succeed", "publish", "published"}
        \/ pc \in SweepStep /\ sweep = "delivery"

Forward == Place' < Place /\ (Looping' => Looping)

\* Places are small numbers, and those from which an exception can come are
\* above those to which it leads.
LEMMA Places ==
    /\ Place \in 0 .. 47
    /\ Busy => Place >= 10
    /\ Raised => Place' \in {8, 9} /\ ~Looping'
<1>1. ContainerPlace \in 22 .. 42
  BY DEF ContainerPlace
<1>2. SweepPlace \in 5 .. 17
  BY DEF SweepPlace
<1>3. LoopPlace \in 18 .. 47
  BY <1>1 DEF LoopPlace
<1>4. EndPlace \in 0 .. 17
  BY <1>2 DEF EndPlace
<1>5. Place \in 0 .. 47
  BY <1>3, <1>4 DEF Place
<1>6. Busy => Place >= 10
  <2>1. CASE Looping
    BY <1>3, <2>1 DEF Place
  <2>2. CASE ~Looping /\ Busy
    BY <2>2 DEF Busy, Place, EndPlace, SweepPlace, SweepStep
  <2>3. QED
    BY <2>1, <2>2
<1>7. Raised => Place' \in {8, 9} /\ ~Looping'
  BY DEF Raised, Place, Looping, EndPlace, SweepStep
<1>8. QED
  BY <1>5, <1>6, <1>7

\* So does the place after a step.
LEMMA PlacesNext == (Place \in 0 .. 47)'
<1>1. Place \in 0 .. 47
  BY Places
<1>2. QED
  BY <1>1, PTL

\* So an exception leads forward.
LEMMA RaisedForward ==
    ASSUME Busy, Raised
    PROVE  Forward
  BY Places DEF Forward

\* What Raise is called for is an exception.
LEMMA RaiseIsRaised ==
    ASSUME NEW kind, Raise(kind), kind # "none"
    PROVE  Raised
  BY Zenon DEF Raise, Raised

\* The steps from which no exception comes, one after the other.
TowardsTests ==
    \/ pc = "received" /\ pc' = "validated"
    \/ pc = "validated" /\ pc' = "loop"
    \/ pc = "loop" /\ pc' = "sweepContainers" /\ sweep' = "closeout"
    \/ pc = "patching" /\ pc' = "proposing"
    \/ pc = "proposing" /\ pc' = "working"
    \/ pc = "working" /\ pc' = "proposed"
    \/ pc = "proposed" /\ pc' = "testing"
    \/ pc = "testing" /\ pc' = "intent" /\ phase' = "attempt-unit"

ContainerRuns ==
    \/ /\ \/ pc = "intent" /\ pc' = "launch"
          \/ pc = "launch" /\ pc' \in {"running", "reap"}
          \/ pc = "running" /\ pc' = "reap"
       /\ phase' = phase
    \/ /\ pc = "reap" /\ pc' = "intent"
       /\ \/ phase = "attempt-unit" /\ phase' = "attempt-verifier"
          \/ phase = "independent-unit" /\ phase' = "independent-verifier"

ContainersDone ==
    /\ pc = "reap"
    /\ \/ phase = "independent-verifier" /\ pc' = "untree"
       \/ /\ phase \in {"attempt-verifier", "compose"}
          /\ pc' \in {"compose", "composeDown", "result"}

TowardsVerdict ==
    \/ pc = "compose" /\ pc' = "composing"
    \/ pc = "composing" /\ pc' = "composeDown"
    \/ pc = "composeDown" /\ pc' = "result"
    \/ pc = "result" /\ pc' \in {"verify", "retry"}
    \/ pc = "verify" /\ pc' = "intent" /\ phase' = "independent-unit"
    \/ pc = "untree" /\ exc = "none" /\ pc' = "verdict"
    \/ pc = "untree" /\ exc # "none" /\ pc' = "handler"
    \/ pc = "verdict" /\ pc' = "retry"
    \/ pc = "verdict" /\ pc' = "sweepContainers" /\ sweep' = "delivery"
    \/ pc = "retry" /\ pc' = "loop"

TowardsCloseout ==
    \/ pc = "sweepContainers" /\ pc' = "sweepCompose" /\ sweep' = sweep
    \/ pc = "sweepCompose" /\ pc' = "sweepWorkspaces" /\ sweep' = sweep
    \/ pc = "sweepWorkspaces" /\ sweep = "delivery" /\ pc' = "gate"
    \/ pc = "sweepWorkspaces" /\ sweep # "delivery" /\ pc' = "revoke"
    \/ pc = "gate" /\ pc' = "eligible"
    \/ pc = "eligible" /\ pc' = "succeed"
    \/ pc = "succeed" /\ pc' = "publish"
    \/ pc = "publish" /\ pc' = "published"
    \/ /\ pc \in {"published", "handler"}
       /\ pc' = "sweepContainers" /\ sweep' = "closeout"
    \/ pc = "revoke" /\ pc' = "closeout"
    \/ pc = "closeout" /\ pc' = "close"
    \/ pc = "close" /\ pc' = "notify"
    \/ pc = "notify" /\ pc' = "idle"

Hop == TowardsTests \/ ContainerRuns \/ ContainersDone \/ TowardsVerdict
       \/ TowardsCloseout

\* Within the loop it is enough to compare places there.
LEMMA LoopForward ==
    ASSUME Looping, Looping', LoopPlace' < LoopPlace
    PROVE  Forward
  BY DEF Forward, Place

\* Each of them leads forward.
LEMMA HopForward ==
    ASSUME Hop
    PROVE  Forward
<1>1. CASE TowardsTests
  <2>1. CASE pc' = "sweepContainers"
    BY <1>1, <2>1 DEF TowardsTests, Forward, Place, Looping, LoopPlace,
       EndPlace, SweepPlace, SweepStep
  <2>2. CASE pc' = "intent"
    BY <1>1, <2>2 DEF TowardsTests, Forward, Place, Looping, LoopPlace,
       ContainerPlace
  <2>3. CASE pc' \notin {"sweepContainers", "intent"}
    <3>1. \/ pc = "received" /\ pc' = "validated"
          \/ pc = "validated" /\ pc' = "loop"
          \/ pc = "patching" /\ pc' = "proposing"
          \/ pc = "proposing" /\ pc' = "working"
          \/ pc = "working" /\ pc' = "proposed"
          \/ pc = "proposed" /\ pc' = "testing"
      BY <1>1, <2>3, Zenon DEF TowardsTests
    <3>2. Looping /\ Looping'
      BY <3>1 DEF Looping
    <3>3. LoopPlace' < LoopPlace
      BY <3>1 DEF LoopPlace, ContainerPlace
    <3>4. QED
      BY <3>2, <3>3, LoopForward, Zenon
  <2>4. QED
    BY <2>1, <2>2, <2>3
<1>2. CASE ContainerRuns
  <2>1. /\ pc \in {"intent", "launch", "running", "reap"}
        /\ pc' \in {"intent", "launch", "running", "reap"}
    BY <1>2 DEF ContainerRuns
  <2>2. Looping /\ Looping'
    BY <2>1 DEF Looping
  <2>3. LoopPlace = ContainerPlace /\ LoopPlace' = ContainerPlace'
    BY <2>1 DEF LoopPlace
  <2>4. ContainerPlace' < ContainerPlace
    BY <1>2 DEF ContainerRuns, ContainerPlace
  <2>5. LoopPlace' < LoopPlace
    BY <2>3, <2>4, Zenon
  <2>6. QED
    BY <2>2, <2>5, LoopForward, Zenon
<1>3. CASE ContainersDone
  <2>1. CASE phase = "independent-verifier" /\ pc' = "untree"
    <3>1. Place >= 22
      BY <1>3, <2>1 DEF ContainersDone, Place, Looping, LoopPlace,
         ContainerPlace
    <3>2. Place' \in {9, 21}
      BY <2>1 DEF Place, Looping, LoopPlace, EndPlace, SweepStep
    <3>3. Looping
      BY <1>3 DEF ContainersDone, Looping
    <3>4. QED
      BY <3>1, <3>2, <3>3, Places DEF Forward
  <2>2. CASE phase \in {"attempt-verifier", "compose"}
    <3>1. pc = "reap" /\ pc' \in {"compose", "composeDown", "result"}
      BY <1>3, <2>2 DEF ContainersDone
    <3>2. Looping /\ Looping'
      BY <3>1 DEF Looping
    <3>3. LoopPlace = 35
      BY <2>2, <3>1 DEF LoopPlace, ContainerPlace
    <3>4. LoopPlace' \in 31 .. 34
      BY <3>1 DEF LoopPlace
    <3>5. LoopPlace' < LoopPlace
      BY <3>3, <3>4
    <3>6. QED
      BY <3>2, <3>5, LoopForward, Zenon
  <2>3. QED
    BY <1>3, <2>1, <2>2 DEF ContainersDone
<1>4. CASE TowardsVerdict
  <2>1. CASE pc = "untree" /\ exc # "none"
    BY <1>4, <2>1 DEF TowardsVerdict, Forward, Place, Looping, EndPlace,
       SweepStep
  <2>2. CASE pc' = "sweepContainers"
    BY <1>4, <2>2 DEF TowardsVerdict, Forward, Place, Looping, LoopPlace,
       EndPlace, SweepPlace, SweepStep
  <2>3. CASE pc' = "intent"
    BY <1>4, <2>3 DEF TowardsVerdict, Forward, Place, Looping, LoopPlace,
       ContainerPlace
  <2>4. CASE /\ ~(pc = "untree" /\ exc # "none")
             /\ pc' \notin {"sweepContainers", "intent"}
    <3>1. \/ pc = "compose" /\ pc' = "composing"
          \/ pc = "composing" /\ pc' = "composeDown"
          \/ pc = "composeDown" /\ pc' = "result"
          \/ pc = "result" /\ pc' \in {"verify", "retry"}
          \/ pc = "untree" /\ exc = "none" /\ pc' = "verdict"
          \/ pc = "verdict" /\ pc' = "retry"
          \/ pc = "retry" /\ pc' = "loop"
      BY <1>4, <2>4, Zenon DEF TowardsVerdict
    <3>2. Looping /\ Looping'
      BY <3>1 DEF Looping
    <3>3. LoopPlace' < LoopPlace
      BY <3>1 DEF LoopPlace, ContainerPlace
    <3>4. QED
      BY <3>2, <3>3, LoopForward, Zenon
  <2>5. QED
    BY <2>1, <2>2, <2>3, <2>4
<1>5. CASE TowardsCloseout
  BY <1>5 DEF TowardsCloseout, Forward, Place, Looping, EndPlace,
     SweepPlace, SweepStep
<1>6. QED
  BY <1>1, <1>2, <1>3, <1>4, <1>5 DEF Hop

\* Which steps the controller takes.
Goes == BeginAttempt \/ Hop \/ (Busy /\ Raised)

\* The controller has no other steps.
LEMMA WhereItGoes ==
    ASSUME MemoryTypeOK, Controller
    PROVE  Goes
<1>0. \A kind \in Raisable \cup WriteFailure \cup Interruption \cup
                  {"PolicyDenied", "Timeout", "FlowError", "Interrupt"} :
         kind # "none"
  BY DEF Raisable, WriteFailure, Interruption
<1>1. CASE ValidateIncident \/ CollectEvidence \/ AttemptsExhausted
  <2>1. Raised \/ TowardsTests
    BY <1>0, <1>1, RaiseIsRaised, Zenon DEF ValidateIncident,
       CollectEvidence, AttemptsExhausted, Save, Goto, Sweep, TowardsTests
  <2>2. pc \in {"received", "validated", "loop"}
    BY <1>1, Zenon DEF ValidateIncident, CollectEvidence, AttemptsExhausted
  <2>3. QED
    BY <2>1, <2>2 DEF Goes, Hop, Busy, Looping
<1>2. CASE BeginAttempt
  BY <1>2 DEF Goes
<1>3. CASE \/ CreateWorkspace \/ StartProvider \/ ProviderReturns
           \/ ProviderFails \/ AcceptCandidate \/ JournalCompose
  <2>1. Raised \/ TowardsTests
    BY <1>0, <1>3, RaiseIsRaised, Zenon DEF CreateWorkspace, StartProvider,
       ProviderReturns, ProviderFails, AcceptCandidate, JournalCompose, Save,
       Goto, TowardsTests
  <2>2. pc \in {"patching", "proposing", "working", "proposed", "testing"}
    BY <1>3, Zenon DEF CreateWorkspace, StartProvider, ProviderReturns,
       ProviderFails, AcceptCandidate, JournalCompose
  <2>3. QED
    BY <2>1, <2>2 DEF Goes, Hop, Busy, Looping
<1>4. CASE \/ JournalContainer \/ LaunchContainer \/ ContainerReturns
           \/ ContainerTimesOut
  <2>1. Raised \/ ContainerRuns
    BY <1>0, <1>4, RaiseIsRaised, Zenon DEF JournalContainer,
       LaunchContainer, ContainerReturns, ContainerTimesOut, Goto, memory,
       ContainerRuns
  <2>2. pc \in {"intent", "launch", "running"}
    BY <1>4, Zenon DEF JournalContainer, LaunchContainer, ContainerReturns,
       ContainerTimesOut
  <2>3. QED
    BY <2>1, <2>2 DEF Goes, Hop, Busy, Looping
<1>5. CASE ReapContainer
  <2>1. phase \in Phase
    BY DEF MemoryTypeOK
  <2>2. CASE exc' # "none"
    <3>1. Raised /\ pc = "reap"
      BY <1>5, <2>2 DEF ReapContainer, Raised
    <3>2. QED
      BY <3>1 DEF Goes, Busy, Looping
  <2>3. CASE exc' = "none" /\ phase \in {"attempt-unit", "independent-unit"}
    <3>1. ContainerRuns
      BY <1>5, <2>3 DEF ReapContainer, ContainerRuns
    <3>2. QED
      BY <3>1 DEF Goes, Hop
  <2>4. CASE /\ exc' = "none"
             /\ phase \notin {"attempt-unit", "independent-unit"}
    <3>1. ContainersDone
      BY <1>5, <2>1, <2>4 DEF ReapContainer, ContainersDone, Phase,
         ContainerPhase
    <3>2. QED
      BY <3>1 DEF Goes, Hop
  <2>5. QED
    BY <2>2, <2>3, <2>4
<1>6. CASE \/ ComposeUp \/ ComposeReturns \/ ComposeTimesOut \/ ComposeDown
           \/ WriteResult \/ BeginIndependent \/ WriteVerification \/ Retry
  <2>1. Raised \/ TowardsVerdict
    <3>1. CASE BeginIndependent
      BY <1>0, <3>1, Zenon DEF BeginIndependent, Goto, Raised,
         TowardsVerdict
    <3>2. CASE WriteResult
      BY <3>2 DEF WriteResult, Goto, TowardsVerdict
    <3>3. CASE \/ ComposeUp \/ ComposeReturns \/ ComposeTimesOut
               \/ ComposeDown \/ WriteVerification \/ Retry
      BY <1>0, <3>3, RaiseIsRaised, Zenon DEF ComposeUp, ComposeReturns,
         ComposeTimesOut, ComposeDown, WriteVerification, Retry, Goto, Sweep,
         TowardsVerdict
    <3>4. QED
      BY <1>6, <3>1, <3>2, <3>3
  <2>2. pc \in {"compose", "composing", "composeDown", "result", "verify",
                "verdict", "retry"}
    BY <1>6, Zenon DEF ComposeUp, ComposeReturns, ComposeTimesOut,
       ComposeDown, WriteResult, BeginIndependent, WriteVerification, Retry
  <2>3. QED
    BY <2>1, <2>2 DEF Goes, Hop, Busy, Looping
<1>7. CASE RemoveVerifierTree
  <2>1. CASE exc = "none"
    <3>1. Raised \/ TowardsVerdict
      BY <1>7, <2>1 DEF RemoveVerifierTree, Goto, Raised, TowardsVerdict
    <3>2. QED
      BY <1>7, <2>1, <3>1 DEF RemoveVerifierTree, Goes, Hop, Busy, Looping
  <2>2. CASE exc # "none"
    <3>1. TowardsVerdict
      BY <1>7, <2>2 DEF RemoveVerifierTree, Goto, TowardsVerdict
    <3>2. QED
      BY <3>1 DEF Goes, Hop
  <2>3. QED
    BY <2>1, <2>2
<1>8. CASE \/ SweepContainers \/ SweepCompose \/ SweepWorkspaces
           \/ FinishPublish \/ HandleException \/ Unwind \/ RevokeDraft
           \/ WriteCloseout \/ CloseControl \/ MockNotify
  <2>1. TowardsCloseout
    BY <1>8 DEF SweepContainers, SweepCompose, SweepWorkspaces,
       FinishPublish, HandleException, Unwind, RevokeDraft, WriteCloseout,
       CloseControl, MockNotify, Goto, Sweep, TowardsCloseout
  <2>2. QED
    BY <2>1 DEF Goes, Hop
<1>9. CASE \/ RecordPreDelivery \/ CheckEligibility \/ MarkSucceeded
           \/ MockPublish
  <2>1. Raised \/ TowardsCloseout
    BY <1>0, <1>9, RaiseIsRaised, Zenon DEF RecordPreDelivery,
       CheckEligibility, MarkSucceeded, MockPublish, Save, Goto,
       TowardsCloseout
  <2>2. pc \in {"gate", "eligible", "succeed", "publish"}
    BY <1>9, Zenon DEF RecordPreDelivery, CheckEligibility, MarkSucceeded,
       MockPublish
  <2>3. QED
    BY <2>1, <2>2 DEF Goes, Hop, Busy
<1>10. CASE DeadlineExpires \/ WriteFails
  <2>1. Raised
    BY <1>0, <1>10, RaiseIsRaised, Zenon DEF DeadlineExpires, WriteFails
  <2>2. Busy
    BY <1>10 DEF DeadlineExpires, WriteFails, Busy, Looping
  <2>3. QED
    BY <2>1, <2>2 DEF Goes
<1>11. CASE Interrupt
  <2>1. Raised
    BY <1>0, <1>11, RaiseIsRaised, Zenon DEF Interrupt
  <2>2. CASE pc = "untree" /\ exc # "none"
    <3>1. TowardsVerdict
      BY <1>11, <2>2 DEF Interrupt, Raise, TowardsVerdict
    <3>2. QED
      BY <3>1 DEF Goes, Hop
  <2>3. CASE ~(pc = "untree" /\ exc # "none")
    <3>1. Busy
      BY <1>11, <2>3 DEF Interrupt, Busy, Looping, RunStep
    <3>2. QED
      BY <2>1, <3>1 DEF Goes
  <2>4. QED
    BY <2>2, <2>3
<1>12. QED
  BY <1>1, <1>2, <1>3, <1>4, <1>5, <1>6, <1>7, <1>8, <1>9, <1>10, <1>11,
     Zenon DEF Controller

\* Within the loop only the start of an attempt changes the counter.
LEMMA WhoCounts ==
    ASSUME FieldInv, [Next]_vars, Looping'
    PROVE  attempt' = attempt \/ BeginAttempt
<1>1. pc' \notin {"idle", "sweepContainers"}
  BY DEF Looping
<1>2. ~Crash /\ ~CleanupExisting
  BY <1>1 DEF Crash, CleanupExisting, Sweep
<1>3. CASE Writer
  BY <1>3, WriterEffect, Zenon DEF attempt
<1>4. CASE ~Writer
  BY <1>2, <1>4, WhoWrites, Zenon DEF attempt
<1>5. QED
  BY <1>3, <1>4

\* The counter and the number of attempts are natural numbers.
LEMMA AttemptsLeft ==
    ASSUME FieldInv
    PROVE  /\ MaxAttempts \in Nat /\ attempt \in Nat
           /\ attempt <= MaxAttempts
  BY ControlFields, ConstantsAssumption DEF FieldInv, ControlTypeOK, attempt

\* What remains is a number.
LEMMA RemainingType ==
    ASSUME FieldInv
    PROVE  Remaining \in Nat /\ Remaining >= Place
<1>1. Place \in 0 .. 47
  BY Places, Zenon
<1>2. ASSUME NEW p \in 0 .. 47, NEW m \in Nat, NEW a \in Nat, a <= m
      PROVE  p + 30 * (m - a) \in Nat /\ p + 30 * (m - a) >= p
  BY <1>2
<1>3. /\ Place + 30 * (MaxAttempts - attempt) \in Nat
      /\ Place + 30 * (MaxAttempts - attempt) >= Place
  BY <1>1, <1>2, AttemptsLeft, Zenon
<1>4. Place \in Nat /\ Place >= Place
  BY <1>1
<1>5. QED
  BY <1>3, <1>4 DEF Remaining

\* The controller lowers it with every step, ...
LEMMA ControllerAdvances ==
    ASSUME FieldInv, Controller
    PROVE  Remaining' < Remaining
<1>0. [Next]_vars
  BY DEF Next
<1>1. Remaining \in Nat /\ Remaining >= Place
  BY RemainingType
<1>2. Place \in 0 .. 47 /\ Place' \in 0 .. 47
  BY Places, PlacesNext
<1>3. ASSUME Forward, ~Looping'
      PROVE  Remaining' < Remaining
  <2>1. Remaining' = Place' /\ Place' < Place
    BY <1>3 DEF Remaining, Forward
  <2>2. QED
    BY <1>1, <1>2, <2>1
<1>4. CASE Busy /\ Raised
  <2>1. Forward /\ ~Looping'
    BY <1>4, RaisedForward, Places
  <2>2. QED
    BY <1>3, <2>1
<1>5. CASE BeginAttempt
  <2>1. /\ control \in Control
        /\ pc = "loop"
    BY <1>5 DEF BeginAttempt, FieldInv, ControlTypeOK
  <2>2. /\ attempt' = attempt + 1 /\ attempt < MaxAttempts
        /\ Written("patching")
    BY <1>5, <2>1, BeginAttemptEffect, Zenon DEF attempt
  <2>3. CASE pc' = "patching"
    <3>1. /\ Looping /\ Looping'
          /\ Place = 18 /\ Place' = 47
      BY <2>1, <2>3 DEF Looping, Place, LoopPlace, ContainerPlace
    <3>2. /\ Remaining = 18 + 30 * (MaxAttempts - attempt)
          /\ Remaining' = 47 + 30 * (MaxAttempts - (attempt + 1))
      BY <2>2, <3>1, Zenon DEF Remaining
    <3>3. ASSUME NEW m \in Nat, NEW a \in Nat
          PROVE  47 + 30 * (m - (a + 1)) < 18 + 30 * (m - a)
      BY <3>3
    <3>4. QED
      BY <3>2, <3>3, AttemptsLeft, Zenon
  <2>4. CASE pc' = "handler"
    <3>1. Busy /\ Raised
      BY <2>1, <2>4 DEF Busy, Looping, Raised
    <3>2. QED
      BY <1>4, <3>1
  <2>5. QED
    BY <2>2, <2>3, <2>4, Zenon DEF Written
<1>6. CASE Hop /\ ~BeginAttempt
  <2>1. Forward
    BY <1>6, HopForward
  <2>2. CASE Looping'
    <3>1. Looping /\ Place' < Place /\ attempt' = attempt
      BY <1>0, <1>6, <2>1, <2>2, WhoCounts, Zenon DEF Forward
    <3>2. /\ Remaining = Place + 30 * (MaxAttempts - attempt)
          /\ Remaining' = Place' + 30 * (MaxAttempts - attempt)
      BY <2>2, <3>1, Zenon DEF Remaining
    <3>3. ASSUME NEW m \in Nat, NEW a \in Nat, NEW p \in 0 .. 47,
                 NEW q \in 0 .. 47, q < p
          PROVE  q + 30 * (m - a) < p + 30 * (m - a)
      BY <3>3
    <3>4. Place' + 30 * (MaxAttempts - attempt)
             < Place + 30 * (MaxAttempts - attempt)
      BY <1>2, <3>1, <3>3, AttemptsLeft, Zenon
    <3>5. QED
      BY <3>2, <3>4, Zenon
  <2>3. QED
    BY <1>3, <2>1, <2>2
<1>7. QED
  BY <1>4, <1>5, <1>6, WhereItGoes, Zenon DEF Goes, FieldInv

\* ... its death ends it, a cleanup begins with seven steps, and the rest of
\* the world leaves it alone.
LEMMA OthersDoNotAdd ==
    ASSUME FieldInv
    PROVE  /\ Crash => Remaining' = 0
           /\ CleanupExisting => Remaining' = 7
           /\ Quiet => Remaining' = Remaining
<1>1. ASSUME Crash
      PROVE  Remaining' = 0
  <2>1. pc' = "idle"
    BY <1>1 DEF Crash
  <2>2. QED
    BY <2>1 DEF Remaining, Looping, Place, EndPlace, SweepStep
<1>2. ASSUME CleanupExisting
      PROVE  Remaining' = 7
  <2>1. pc' = "sweepContainers" /\ sweep' = "closeout"
    BY <1>2 DEF CleanupExisting, Sweep
  <2>2. ~Looping' /\ EndPlace' = 7
    BY <2>1 DEF Looping, EndPlace, SweepPlace, SweepStep
  <2>3. QED
    BY <2>2 DEF Remaining, Place
<1>3. ASSUME Quiet
      PROVE  Remaining' = Remaining
  <2>1. /\ pc' = pc /\ exc' = exc /\ phase' = phase /\ sweep' = sweep
        /\ attempt' = attempt
    BY <1>3, QuietFrame, Zenon DEF memory, attempt
  <2>2. QED
    BY <2>1, Zenon DEF Remaining, Looping, Place, LoopPlace, EndPlace,
       ContainerPlace, SweepPlace
<1>4. QED
  BY <1>1, <1>2, <1>3

\* A run takes at most 20 + 30 * MaxAttempts steps of the controller, and a
\* cleanup seven, for every set of faults and whatever Docker, the operator
\* and the clock do meanwhile: each step of run_flow or cleanup_existing goes
\* forward, and only the operator's next cleanup gives the process more to do.
\* What InvocationEnds adds to this is that the process never waits for ever.
THEOREM InvocationIsBounded ==
    Spec => /\ [](Remaining \in 0 .. 20 + 30 * MaxAttempts)
            /\ [][/\ Controller => Remaining' < Remaining
                  /\ CleanupExisting => Remaining' = 7
                  /\ ~CleanupExisting => Remaining' <= Remaining]_vars
<1> DEFINE Bounded == Remaining <= 20 + 30 * MaxAttempts
           Step == /\ Controller => Remaining' < Remaining
                   /\ CleanupExisting => Remaining' = 7
                   /\ ~CleanupExisting => Remaining' <= Remaining
<1>1. IInv => FieldInv
  BY Fields DEF IInv
<1>a. IInv => Remaining \in Nat
  BY <1>1, RemainingType
<1>b. (IInv => Remaining \in Nat)'
  BY <1>a, PTL
<1>2. IInv /\ [Next]_vars => [Step]_vars
  <2> SUFFICES ASSUME IInv, Next
               PROVE  Step
    OBVIOUS
  <2>1. FieldInv
    BY <1>1
  <2>2. Remaining \in Nat /\ Remaining' \in Nat
    BY <1>a, <1>b, IInvNext, Zenon
  <2>3. Controller => Remaining' < Remaining
    BY <2>1, ControllerAdvances
  <2>4. /\ CleanupExisting => Remaining' = 7
        /\ Crash => Remaining' = 0
        /\ Environment => Remaining' = Remaining
    BY <2>1, OthersDoNotAdd DEF Quiet
  <2>5. ~CleanupExisting => Remaining' <= Remaining
    BY <2>2, <2>3, <2>4 DEF Next
  <2>6. QED
    BY <2>3, <2>4, <2>5
<1>3. Init => Bounded
  <2> SUFFICES ASSUME Init
               PROVE  Bounded
    OBVIOUS
  <2>1. pc = "received" /\ attempt = 0
    BY DEF Init, attempt
  <2>2. Looping /\ Place = 20
    BY <2>1 DEF Looping, Place, LoopPlace, ContainerPlace
  <2>3. Remaining = 20 + 30 * (MaxAttempts - 0)
    BY <2>1, <2>2, Zenon DEF Remaining
  <2>4. QED
    BY <2>3, ConstantsAssumption
<1>4. IInv /\ IInv' /\ Bounded /\ [Next]_vars /\ [Step]_vars => Bounded'
  <2> SUFFICES ASSUME IInv, IInv', Bounded, [Next]_vars, [Step]_vars
               PROVE  Bounded'
    OBVIOUS
  <2>1. Remaining \in Nat /\ Remaining' \in Nat /\ MaxAttempts \in 1 .. 5
    BY <1>a, <1>b, ConstantsAssumption
  <2>2. Remaining' = 7 \/ Remaining' <= Remaining
    <3>1. CASE Step
      BY <3>1
    <3>2. CASE UNCHANGED vars
      <4>1. Remaining' = Remaining
        BY <1>1, <3>2, OthersDoNotAdd DEF Quiet
      <4>2. QED
        BY <2>1, <4>1
    <3>3. QED
      BY <3>1, <3>2
  <2>3. QED
    BY <2>1, <2>2
<1>5. IInv /\ Bounded => Remaining \in 0 .. 20 + 30 * MaxAttempts
  <2> SUFFICES ASSUME IInv, Bounded
               PROVE  Remaining \in 0 .. 20 + 30 * MaxAttempts
    OBVIOUS
  <2>1. Remaining \in Nat /\ MaxAttempts \in 1 .. 5
    BY <1>1, RemainingType, ConstantsAssumption
  <2>2. QED
    BY <2>1
<1> HIDE DEF Bounded, Step
<1>6. Spec => [](Remaining \in 0 .. 20 + 30 * MaxAttempts) /\ [][Step]_vars
  BY <1>2, <1>3, <1>4, <1>5, Invariance, PTL DEF Spec
<1>7. QED
  BY <1>6 DEF Step
=============================================================================
