---------------------- MODULE ConcurrentCleanupProofs ----------------------
(***************************************************************************)
(* Theorems about ConcurrentCleanup, for every value of its constants and  *)
(* any number of cleanups beside the run.                                  *)
(*                                                                         *)
(* The steps that the run takes by itself are steps of IncidentController, *)
(* and IncidentControllerProofs shows what they preserve: FieldInv,        *)
(* ClientInv and TeardownInv, the parts of its invariant that speak of the *)
(* run's memory, of Docker and the journal, and of what a sweep has        *)
(* established.  What is left is that the cleaner can only take away       *)
(* (CleanerFrame), that the races in the run do no more (RaceFrame), and   *)
(* that no process holds a success of a run that is not torn down.         *)
(***************************************************************************)
EXTENDS ConcurrentCleanup, IncidentControllerProofs

TornDown == resources = {} /\ workspaces = {} /\ ~verifierTree

\* A success in the memory of either process or on disk is of a run that is
\* torn down and past the last step at which it could start anything.
SuccessIsFinal ==
    \A c \in {control, disk, ccontrol} :
        c.outcome = "SUCCEEDED" => ~Undecided /\ TornDown

CleanerTypeOK == ccontrol \in Control /\ ccleanOk \in BOOLEAN

CInv == FieldInv /\ ClientInv /\ TeardownInv /\ CleanerTypeOK
            /\ SuccessIsFinal

\* The steps of the three kinds.
OwnStep == (RunsByItself \/ Crash \/ World) /\ UNCHANGED cleaner
Race == ContainerVanishes \/ ComposeVanishes \/ RetryRaces \/ SweepRaces
CleanerStep == CleanerStarts \/ CleanerGoesOn \/ CleanerDies

\* The run's own steps and the world's are steps of IncidentController.
LEMMA Kinds ==
    ASSUME ConcurrentNext
    PROVE  \/ OwnStep /\ Next
           \/ Race /\ UNCHANGED cleaner
           \/ CleanerStep
<1>1. CASE RunGoesOn
  BY <1>1, Zenon DEF RunGoesOn, RunsByItself, OwnStep, Race, Next
<1>2. CASE RunDies \/ World
  BY <1>2, Zenon DEF RunDies, World, OwnStep, Next, Environment
<1>3. QED
  BY <1>1, <1>2, Zenon DEF ConcurrentNext, CleanerStep

-----------------------------------------------------------------------------
(***************************************************************************)
(* Frames.                                                                 *)
(***************************************************************************)
\* Neither way to remove the trees adds one.
LEMMA Removal ==
    ASSUME RemoveTrees \/ LeaveTrees
    PROVE  /\ workspaces' \subseteq workspaces
           /\ verifierTree' \in {FALSE, verifierTree}
<1>1. CASE RemoveTrees
  BY <1>1, Zenon DEF RemoveTrees
<1>2. CASE LeaveTrees
  BY <1>2, Zenon DEF LeaveTrees
<1>3. QED
  BY <1>1, <1>2

\* What is torn down stays so while things are only taken away.
LEMMA LessIsTornDown ==
    ASSUME TornDown, resources' \subseteq resources,
           workspaces' \subseteq workspaces,
           verifierTree' \in {FALSE, verifierTree}
    PROVE  TornDown'
<1>1. resources' = {} /\ workspaces' = {}
  BY SMT DEF TornDown
<1>2. ~verifierTree'
  BY Zenon DEF TornDown
<1>3. QED
  BY <1>1, <1>2 DEF TornDown

\* The cleaner only takes away: containers, trees and the draft.  It leaves
\* the run's memory, its journal and its clients alone, and writes control.json
\* once, from what it read when it was started.
LEMMA CleanerFrame ==
    ASSUME CleanerStep
    PROVE  /\ UNCHANGED <<pc, control, exc, candidate, phase, checks, records,
                          sweep, cleanOk, intents, sdkIncomplete, inflight,
                          stray, expired>>
           /\ resources' \subseteq resources /\ late' \subseteq late
           /\ workspaces' \subseteq workspaces
           /\ verifierTree' \in {FALSE, verifierTree}
           /\ draft' \in {draft, NoDigest}
           /\ \/ UNCHANGED disk /\ ccontrol' \in {ccontrol, disk}
              \/ Cleaner!CloseControl
<1> USE DEF run, memory, Cleaner!memory, Cleaner!reports, Cleaner!artifacts,
         Cleaner!trees, Cleaner!docker, Cleaner!environment
<1>1. CASE CleanerStarts
  BY <1>1, Zenon DEF CleanerStarts, Cleaner!CleanupExisting
<1>2. CASE CleanerDies
  BY <1>2, Zenon DEF CleanerDies, Fresh, vars, reports, artifacts, trees,
     docker, environment
<1>3. CASE UNCHANGED run /\ UNCHANGED inflight /\ Cleaner!SweepContainers
  BY <1>3, SMT DEF Cleaner!SweepContainers, Cleaner!RemoveKeys
<1>4. CASE UNCHANGED run /\ UNCHANGED inflight /\ Cleaner!SweepCompose
  BY <1>4, SMT DEF Cleaner!SweepCompose, Cleaner!RemoveKeys
<1>5. CASE UNCHANGED run /\ UNCHANGED inflight /\ Cleaner!SweepWorkspaces
  <2>1. RemoveTrees \/ LeaveTrees
    BY <1>5, Zenon DEF Cleaner!SweepWorkspaces, Cleaner!RemoveTrees,
       Cleaner!LeaveTrees, RemoveTrees, LeaveTrees
  <2>2. QED
    BY <1>5, <2>1, Removal, Zenon DEF Cleaner!SweepWorkspaces
<1>6. CASE UNCHANGED run /\ UNCHANGED inflight /\ CleanerSweepRaces
  BY <1>6, Removal, Zenon DEF CleanerSweepRaces, reports, artifacts, docker,
     environment
<1>7. CASE /\ UNCHANGED run /\ UNCHANGED inflight
           /\ \/ Cleaner!RevokeDraft \/ Cleaner!WriteCloseout
              \/ Cleaner!CloseControl \/ Cleaner!MockNotify
  BY <1>7, Zenon DEF Cleaner!RevokeDraft, Cleaner!WriteCloseout,
     Cleaner!CloseControl, Cleaner!MockNotify, Cleaner!Goto
<1>8. QED
  BY <1>1, <1>2, <1>3, <1>4, <1>5, <1>6, <1>7, Zenon
  DEF CleanerStep, CleanerGoesOn

\* What the cleaner holds keeps its type, and what it writes is no success
\* that it did not read.
LEMMA CleanerTyped ==
    ASSUME CleanerStep, CleanerTypeOK, disk \in Control
    PROVE  /\ CleanerTypeOK'
           /\ disk' \in {disk, ccontrol'}
           /\ ccontrol'.outcome = "SUCCEEDED" =>
                 "SUCCEEDED" \in {ccontrol.outcome, disk.outcome}
<1>1. CASE Cleaner!CloseControl
  <2>1. /\ disk' = ccontrol' /\ ccleanOk' = ccleanOk
        /\ \E o \in {ccontrol.outcome, "CLEANUP_FAILED"},
              s \in {"CLOSED", "CLEANUP_FAILED"} :
              ccontrol' = [ccontrol EXCEPT !.clean = ccleanOk, !.outcome = o,
                                           !.state = s]
    BY <1>1, Zenon DEF Cleaner!CloseControl, Cleaner!memory
  <2>2. PICK o \in {ccontrol.outcome, "CLEANUP_FAILED"},
             s \in {"CLOSED", "CLEANUP_FAILED"} :
             ccontrol' = [ccontrol EXCEPT !.clean = ccleanOk, !.outcome = o,
                                          !.state = s]
    BY <2>1
  <2>3. o \in Outcome /\ s \in State
    BY ControlFields, SMT DEF CleanerTypeOK, Outcome, State
  <2>4. ccontrol' \in Control
    BY <2>2, <2>3, Updates, Zenon DEF CleanerTypeOK
  <2>5. ccontrol'.outcome = o
    BY <2>2, SMT DEF CleanerTypeOK, Control
  <2>6. o = "SUCCEEDED" => ccontrol.outcome = "SUCCEEDED"
    OBVIOUS
  <2>7. QED
    BY <2>1, <2>4, <2>5, <2>6, Zenon DEF CleanerTypeOK
<1>2. CASE ~Cleaner!CloseControl
  <2>1. UNCHANGED disk /\ ccontrol' \in {ccontrol, disk}
    BY <1>2, CleanerFrame, Zenon
  <2>2. ccleanOk' \in BOOLEAN
    BY Zenon DEF CleanerStep, CleanerStarts, CleanerGoesOn, CleanerDies,
       Fresh, CleanerSweepRaces, CleanerTypeOK, Cleaner!CleanupExisting,
       Cleaner!SweepContainers, Cleaner!SweepCompose,
       Cleaner!SweepWorkspaces, Cleaner!RevokeDraft, Cleaner!WriteCloseout,
       Cleaner!CloseControl, Cleaner!MockNotify, Cleaner!Sweep,
       Cleaner!memory
  <2>3. QED
    BY <2>1, <2>2, Zenon DEF CleanerTypeOK
<1>3. QED
  BY <1>1, <1>2

\* Where the run meets the cleaner it goes on without its client, or raises,
\* or counts the sweep as incomplete.
LEMMA RaceFrame ==
    ASSUME Race
    PROVE  /\ UNCHANGED <<control, disk, candidate, phase, records, sweep,
                          intents, sdkIncomplete, draft, inflight, resources,
                          stray, late, expired>>
           /\ checks' \in {FALSE, checks} /\ cleanOk' \in {FALSE, cleanOk}
           /\ exc' \in {exc, "FlowError"}
           /\ workspaces' \subseteq workspaces
           /\ verifierTree' \in {FALSE, verifierTree}
           /\ \/ /\ pc \in {"running", "composing"}
                 /\ Current \notin inflight
                 /\ pc' = IF pc = "running" THEN "reap" ELSE "composeDown"
              \/ pc = "retry" /\ pc' = "handler"
              \/ /\ pc = "sweepWorkspaces" /\ ~cleanOk'
                 /\ pc' = IF sweep = "delivery" THEN "gate" ELSE "revoke"
<1> USE DEF memory, reports, artifacts, trees, docker, environment
<1>1. CASE ContainerVanishes \/ ComposeVanishes
  BY <1>1, Zenon DEF ContainerVanishes, ComposeVanishes, Goto
<1>2. CASE RetryRaces \/ SweepRaces
  BY <1>2, Removal, Zenon DEF RetryRaces, SweepRaces, Raise
<1>3. QED
  BY <1>1, <1>2 DEF Race

-----------------------------------------------------------------------------
(***************************************************************************)
(* The parts of the invariant.                                             *)
(***************************************************************************)
\* The run's own steps keep the types, the journal and the sweeps by the
\* lemmas of IncidentControllerProofs; the next three are about the others.
\* First the types ...
LEMMA FieldsStay ==
    CInv /\ (Race \/ CleanerStep) => FieldInv'
<1> SUFFICES ASSUME CInv, Race \/ CleanerStep
             PROVE  FieldInv'
  OBVIOUS
<1> USE DEF FieldInv, CInv
<1>1. CASE Race
  <2>1. ControlTypeOK' /\ intents' \subseteq Key /\ attempt' = attempt
    BY <1>1, RaceFrame, Zenon DEF ControlTypeOK, attempt
  <2>2. pc' \in {"reap", "composeDown", "handler", "gate", "revoke"}
    BY <1>1, RaceFrame, Zenon
  <2>3. MemoryTypeOK'
    <3>1. /\ candidate' \in Digest \cup {NoDigest} /\ phase' \in Phase
          /\ records' \subseteq Attempt /\ sweep' \in {"delivery", "closeout"}
          /\ exc' \in Exception
      BY <1>1, RaceFrame, Zenon DEF MemoryTypeOK, Exception
    <3>2. QED
      BY <2>2, <3>1, Zenon DEF MemoryTypeOK, RunStep, SweepStep, CloseStep
  <2>4. FlagTypeOK'
    BY <1>1, RaceFrame, Zenon DEF FlagTypeOK
  <2>5. Attempting' => Attempting
    BY <1>1, RaceFrame, SMT DEF Attempting, AttemptStep, CandidateStep,
       TestStep, DeliveryStep, SweepStep
  <2>6. QED
    BY <2>1, <2>3, <2>4, <2>5
<1>2. CASE CleanerStep
  <2>0. CleanerTypeOK /\ disk \in Control
    BY DEF ControlTypeOK
  <2>a. CleanerTypeOK' /\ disk' \in {disk, ccontrol'}
    BY <1>2, <2>0, CleanerTyped
  <2>1. disk' \in Control
    BY <2>0, <2>a DEF CleanerTypeOK
  <2>2. ControlTypeOK' /\ intents' \subseteq Key
    BY <1>2, <2>1, CleanerFrame, Zenon DEF ControlTypeOK
  <2>3. MemoryTypeOK'
    BY <1>2, CleanerFrame, Zenon DEF MemoryTypeOK
  <2>4. FlagTypeOK'
    BY <1>2, CleanerFrame, Zenon DEF FlagTypeOK
  <2>5. (Attempting' <=> Attempting) /\ attempt' = attempt
    BY <1>2, CleanerFrame, Zenon DEF Attempting, attempt
  <2>6. QED
    BY <2>2, <2>3, <2>4, <2>5
<1>3. QED
  BY <1>1, <1>2

\* ... then the journal: fewer containers need no more intents ...
LEMMA ClientsStay ==
    CInv /\ (Race \/ CleanerStep) => ClientInv'
<1> SUFFICES ASSUME CInv, Race \/ CleanerStep
             PROVE  ClientInv'
  OBVIOUS
<1>0. ClientInv
  BY DEF CInv
<1>1. Journaled'
  <2>1. /\ UNCHANGED <<inflight, stray, intents>>
        /\ resources' \subseteq resources /\ late' \subseteq late
    BY RaceFrame, CleanerFrame, Zenon
  <2>2. QED
    BY <1>0, <2>1, SMT DEF ClientInv, Journaled
<1>2. ClientIsWatched'
  <2>1. CASE Race
    BY <1>0, <2>1, RaceFrame, SMT DEF ClientInv, ClientIsWatched
  <2>2. CASE CleanerStep
    BY <1>0, <2>2, CleanerFrame, Zenon DEF ClientInv, ClientIsWatched,
       Current, attempt
  <2>3. QED
    BY <2>1, <2>2
<1>3. IntentFirst'
  <2>1. CASE Race
    BY <1>0, <2>1, RaceFrame, SMT DEF ClientInv, IntentFirst, TestStep,
       attempt
  <2>2. CASE CleanerStep
    BY <1>0, <2>2, CleanerFrame, Zenon DEF ClientInv, IntentFirst, Current,
       attempt
  <2>3. QED
    BY <2>1, <2>2
<1>4. RecordsCoverCompose'
  <2>1. CASE Race
    BY <1>0, <2>1, RaceFrame, SMT DEF ClientInv, RecordsCoverCompose,
       TestStep, attempt, ContainerKey
  <2>2. CASE CleanerStep
    BY <1>0, <2>2, CleanerFrame, SMT DEF ClientInv, RecordsCoverCompose,
       attempt, ContainerKey
  <2>3. QED
    BY <2>1, <2>2
<1>5. QED
  BY <1>1, <1>2, <1>3, <1>4 DEF ClientInv

\* ... and what the sweeps established: it is of things that are gone.
LEMMA TeardownStays ==
    CInv /\ (Race \/ CleanerStep) => TeardownInv'
<1> SUFFICES ASSUME CInv, Race \/ CleanerStep
             PROVE  TeardownInv'
  OBVIOUS
<1>1. CASE Race
  <2>1. pc' \in {"reap", "composeDown", "handler"}
            \/ (pc' \in {"gate", "revoke"} /\ ~cleanOk')
    BY <1>1, RaceFrame, Zenon
  <2>2. QED
    BY <2>1, SMT DEF TeardownInv, GateIsClean, ContainersAreSwept,
       DockerIsSwept, TreesAreSwept, DeliveryStep, CloseStep
<1>2. CASE CleanerStep
  <2>1. /\ UNCHANGED <<pc, cleanOk, sdkIncomplete>>
        /\ resources' \subseteq resources /\ workspaces' \subseteq workspaces
        /\ verifierTree' \in {FALSE, verifierTree}
    BY <1>2, CleanerFrame, Zenon
  <2>2. GateIsClean'
    BY <2>1, Zenon DEF CInv, TeardownInv, GateIsClean
  <2>3. ContainersAreSwept'
    BY <2>1, Zenon DEF CInv, TeardownInv, ContainersAreSwept, ContainerKey
  <2>4. DockerIsSwept'
    BY <2>1, Zenon DEF CInv, TeardownInv, DockerIsSwept
  <2>5. TreesAreSwept'
    BY <2>1, Zenon DEF CInv, TeardownInv, TreesAreSwept
  <2>6. QED
    BY <2>2, <2>3, <2>4, <2>5 DEF TeardownInv
<1>3. QED
  BY <1>1, <1>2

\* A run that is decided and torn down stays so: what creates a container or
\* a tree is behind it.
LEMMA NothingStarts ==
    ASSUME ClientInv, [Next]_vars, ~Undecided, TornDown
    PROVE  ~Undecided' /\ TornDown'
<1>1. ~Undecided'
  BY WhereFrom, QuietFrame, Zenon DEF Undecided, memory
<1>2. inflight = {}
  BY SMT DEF ClientInv, ClientIsWatched, Undecided, RunStep
<1>3. resources' \subseteq resources
  BY <1>2, DockerSteps, SMT
<1>4. ~CreateWorkspace /\ ~StartProvider /\ ~ProviderReturns
      /\ ~ProviderFails /\ ~BeginIndependent /\ ~RemoveVerifierTree /\ ~Retry
  BY Zenon DEF CreateWorkspace, StartProvider, ProviderReturns,
     ProviderFails, BeginIndependent, RemoveVerifierTree, Retry, Undecided,
     RunStep
<1>5. UNCHANGED trees \/ RemoveTrees \/ LeaveTrees
  BY <1>4, WhoWrites, Zenon DEF SweepWorkspaces
<1>6. workspaces' \subseteq workspaces
          /\ verifierTree' \in {FALSE, verifierTree}
  BY <1>5, Removal, Zenon DEF trees
<1>7. QED
  BY <1>1, <1>3, <1>6, LessIsTornDown

\* Only MarkSucceeded makes a success; every other write keeps the outcome or
\* writes another.
LEMMA WhereSuccessComesFrom ==
    ASSUME FieldInv, [Next]_vars, NEW c \in {control', disk'},
           c.outcome = "SUCCEEDED"
    PROVE  MarkSucceeded \/ "SUCCEEDED" \in {control.outcome, disk.outcome}
<1>0. control \in Control /\ candidate \in Digest \cup {NoDigest}
          /\ cleanOk \in BOOLEAN
  BY DEF FieldInv, ControlTypeOK, MemoryTypeOK, FlagTypeOK
<1>1. CASE ValidateIncident \/ CollectEvidence \/ AcceptCandidate
  BY <1>0, <1>1, StateSaveEffect, Zenon
<1>2. CASE BeginAttempt
  BY <1>0, <1>2, BeginAttemptEffect, Zenon DEF Written
<1>3. CASE AttemptsExhausted
  BY <1>0, <1>3, AttemptsExhaustedEffect, Zenon
<1>4. CASE WriteVerification
  BY <1>0, <1>4, WriteVerificationEffect, Zenon
<1>5. CASE RecordPreDelivery
  BY <1>0, <1>5, RecordPreDeliveryEffect, Zenon
<1>6. CASE HandleException
  BY <1>0, <1>6, HandleExceptionEffect, Zenon
<1>7. CASE CloseControl
  BY <1>0, <1>7, CloseControlEffect, Zenon
<1>8. CASE ~Writer
  <2>1. disk' = disk /\ control' \in {control, disk}
    BY <1>8, WhoWrites, Zenon DEF Crash, CleanupExisting
  <2>2. QED
    BY <2>1, Zenon
<1>9. QED
  BY <1>1, <1>2, <1>3, <1>4, <1>5, <1>6, <1>7, <1>8, Zenon DEF Writer

\* When the run marks its success, its teardown is behind it.
LEMMA SuccessAfterTeardown ==
    ASSUME FieldInv, TeardownInv, MarkSucceeded
    PROVE  ~Undecided' /\ TornDown'
<1>1. control \in Control /\ candidate \in Digest \cup {NoDigest}
  BY DEF FieldInv, ControlTypeOK, MemoryTypeOK
<1>2. pc = "succeed" /\ pc' \in {"publish", "handler"}
  BY <1>1, MarkSucceededEffect, Zenon DEF Written
<1>3. TornDown
  BY <1>2, SMT DEF TeardownInv, GateIsClean, DockerIsSwept, TreesAreSwept,
     TornDown, DeliveryStep
<1>4. TornDown' = TornDown
  BY Zenon DEF MarkSucceeded, docker, trees, TornDown
<1>5. ~Undecided'
  BY <1>2, SMT DEF Undecided, RunStep, SweepStep
<1>6. QED
  BY <1>3, <1>4, <1>5

\* Whichever process writes control.json, a success it writes is a true one.
LEMMA SuccessStaysFinal ==
    ASSUME CInv,
           \/ OwnStep /\ [Next]_vars
           \/ Race /\ UNCHANGED cleaner
           \/ CleanerStep
    PROVE  SuccessIsFinal'
<1> SUFFICES ASSUME NEW c \in {control', disk', ccontrol'},
                    c.outcome = "SUCCEEDED"
             PROVE  ~Undecided' /\ TornDown'
  BY Zenon DEF SuccessIsFinal
<1>0. "SUCCEEDED" \in {control.outcome, disk.outcome, ccontrol.outcome}
          => ~Undecided /\ TornDown
  BY Zenon DEF CInv, SuccessIsFinal
<1>1. CASE OwnStep /\ [Next]_vars
  <2>1. MarkSucceeded
            \/ "SUCCEEDED" \in {control.outcome, disk.outcome,
                                ccontrol.outcome}
    BY <1>1, WhereSuccessComesFrom, Zenon DEF CInv, OwnStep, cleaner, process
  <2>2. QED
    BY <1>0, <1>1, <2>1, SuccessAfterTeardown, NothingStarts, Zenon DEF CInv
<1>2. CASE Race /\ UNCHANGED cleaner
  <2>1. c \in {control, disk, ccontrol}
    BY <1>2, RaceFrame, Zenon DEF cleaner, process
  <2>2. ~Undecided /\ TornDown
    BY <1>0, <2>1, Zenon
  <2>3. ~Undecided'
    BY <1>2, <2>2, RaceFrame, SMT DEF Undecided, RunStep, SweepStep
  <2>4. TornDown'
    BY <1>2, <2>2, RaceFrame, LessIsTornDown, Zenon
  <2>5. QED
    BY <2>3, <2>4
<1>3. CASE CleanerStep
  <2>1. c \in {control, disk, ccontrol'} /\ CleanerTypeOK /\ disk \in Control
    <3>1. CleanerTypeOK /\ disk \in Control
      BY DEF CInv, FieldInv, ControlTypeOK
    <3>2. disk' \in {disk, ccontrol'} /\ control' = control
      BY <1>3, <3>1, CleanerFrame, CleanerTyped, Zenon
    <3>3. QED
      BY <3>1, <3>2, Zenon
  <2>2. "SUCCEEDED" \in {control.outcome, disk.outcome, ccontrol.outcome}
    BY <1>3, <2>1, CleanerTyped, Zenon
  <2>3. ~Undecided /\ TornDown
    BY <1>0, <2>2
  <2>4. TornDown'
    BY <1>3, <2>3, CleanerFrame, LessIsTornDown, Zenon
  <2>5. ~Undecided'
    BY <1>3, <2>3, CleanerFrame, Zenon DEF Undecided
  <2>6. QED
    BY <2>4, <2>5
<1>4. QED
  BY <1>1, <1>2, <1>3

-----------------------------------------------------------------------------
(***************************************************************************)
(* The inductive invariant, and what follows from it.                      *)
(***************************************************************************)
\* CInv is inductive.
LEMMA CInvInit == ConcurrentInit => CInv
<1> SUFFICES ASSUME ConcurrentInit
             PROVE  CInv
  OBVIOUS
<1>1. FieldInv /\ ClientInv /\ TeardownInv
  BY IInvInit, Fields DEF ConcurrentInit, IInv, JournalInv, SweptInv
<1>2. control \in Control /\ ccontrol = control /\ disk = control
  BY <1>1, Zenon DEF FieldInv, ControlTypeOK, ConcurrentInit, Init
<1>3. CleanerTypeOK
  BY <1>2, Zenon DEF CleanerTypeOK, ConcurrentInit
<1>4. control.outcome = "RUNNING"
  BY Zenon DEF ConcurrentInit, Init
<1>5. SuccessIsFinal
  BY <1>2, <1>4, SMT DEF SuccessIsFinal
<1>6. QED
  BY <1>1, <1>3, <1>5 DEF CInv

\* Steps of the run, races and steps of the cleaner all keep it.
LEMMA CInvNext == CInv /\ [ConcurrentNext]_allVars => CInv'
<1> SUFFICES ASSUME CInv, [ConcurrentNext]_allVars
             PROVE  CInv'
  OBVIOUS
<1>1. CASE OwnStep /\ [Next]_vars
  <2>1. CleanerTypeOK'
    BY <1>1, Zenon DEF CInv, CleanerTypeOK, OwnStep, cleaner, process
  <2>2. QED
    BY <1>1, <2>1, FieldsKept, ClientsKept, TeardownKept, SuccessStaysFinal
    DEF CInv
<1>2. CASE Race /\ UNCHANGED cleaner
  <2>1. CleanerTypeOK'
    BY <1>2, Zenon DEF CInv, CleanerTypeOK, cleaner, process
  <2>2. QED
    BY <1>2, <2>1, FieldsStay, ClientsStay, TeardownStays, SuccessStaysFinal
    DEF CInv
<1>3. CASE CleanerStep
  <2>1. CleanerTypeOK'
    <3>1. CleanerTypeOK /\ disk \in Control
      BY DEF CInv, FieldInv, ControlTypeOK
    <3>2. QED
      BY <1>3, <3>1, CleanerTyped
  <2>2. QED
    BY <1>3, <2>1, FieldsStay, ClientsStay, TeardownStays, SuccessStaysFinal
    DEF CInv
<1>4. CASE UNCHANGED allVars
  <2>1. UNCHANGED vars /\ UNCHANGED <<ccontrol, ccleanOk>>
    BY <1>4, Zenon DEF allVars, cleaner, process
  <2>2. FieldInv' /\ ClientInv' /\ TeardownInv'
    BY <2>1, FieldsKept, ClientsKept, TeardownKept DEF CInv
  <2>3. CleanerTypeOK' /\ SuccessIsFinal'
    BY <2>1, Zenon DEF CInv, CleanerTypeOK, SuccessIsFinal, Undecided,
       TornDown, vars, memory, trees, docker
  <2>4. QED
    BY <2>2, <2>3 DEF CInv
<1>5. QED
  BY <1>1, <1>2, <1>3, <1>4, Kinds

\* The invariant holds in every state of the run and the cleanups beside it.
THEOREM ConcurrentInvariance == ConcurrentSpec => []CInv
  BY CInvInit, CInvNext, PTL DEF ConcurrentSpec

\* A client runs only while the run waits for it, so none does in a closeout
\* or after a success.
LEMMA NoClient ==
    ASSUME CInv, pc \in CloseStep \/ ~Undecided \/ pc = "publish"
    PROVE  inflight = {}
  BY SMT DEF CInv, ClientInv, ClientIsWatched, CloseStep, Undecided, RunStep

\* Whatever Docker runs or may still start is in the journal, with any number
\* of cleanups beside the run.
THEOREM JournalAlwaysCovers == ConcurrentSpec => []JournalCoversDocker
<1>1. CInv => JournalCoversDocker
  BY DEF CInv, ClientInv, Journaled, JournalCoversDocker
<1>2. QED
  BY <1>1, ConcurrentInvariance, PTL

\* When the run calls its own cleanup complete, nothing of it is left.
THEOREM TeardownIsTrue == ConcurrentSpec => []OwnTeardownIsTrue
<1>1. CInv => OwnTeardownIsTrue
  BY NoClient, SMT DEF CInv, TeardownInv, DockerIsSwept, TreesAreSwept,
     OwnTeardownIsTrue
<1>2. QED
  BY <1>1, ConcurrentInvariance, PTL

\* A success on disk is of a run that is torn down and starts nothing more.
THEOREM SuccessMeansTornDown == ConcurrentSpec => []SuccessIsTornDown
<1>1. CInv => SuccessIsTornDown
  <2> SUFFICES ASSUME CInv, disk.outcome = "SUCCEEDED"
               PROVE  inflight = {} /\ TornDown
    BY DEF SuccessIsTornDown, TornDown
  <2>1. ~Undecided /\ TornDown
    BY Zenon DEF CInv, SuccessIsFinal
  <2>2. QED
    BY <2>1, NoClient
<1>2. QED
  BY <1>1, ConcurrentInvariance, PTL

\* Only the run writes a draft, and only when everything of it is gone.
THEOREM DraftAfterOwnTeardown == ConcurrentSpec => DraftFollowsTeardown
<1>1. ASSUME CInv, [ConcurrentNext]_allVars, draft' \notin {draft, NoDigest}
      PROVE  /\ pc = "publish" /\ pc' = "published"
             /\ inflight \cup resources = {}
             /\ workspaces = {} /\ ~verifierTree
  <2>1. ~CleanerStep /\ ~Race /\ ~UNCHANGED allVars
    BY <1>1, CleanerFrame, RaceFrame, Zenon DEF allVars, vars, artifacts
  <2>2. [Next]_vars
    BY <1>1, <2>1, Kinds, Zenon
  <2>3. MockPublish
    BY <1>1, <2>2, WhoWrites, Zenon DEF RevokeDraft
  <2>4. pc = "publish" /\ pc' = "published"
    BY <1>1, <2>3, Zenon DEF MockPublish, Goto
  <2>5. TornDown
    BY <1>1, <2>4, SMT DEF CInv, TeardownInv, GateIsClean, DockerIsSwept,
       TreesAreSwept, TornDown, DeliveryStep
  <2>6. QED
    BY <1>1, <2>4, <2>5, NoClient DEF TornDown
<1>2. CInv /\ [ConcurrentNext]_allVars =>
          [draft' \notin {draft, NoDigest} =>
              /\ pc = "publish" /\ pc' = "published"
              /\ inflight \cup resources = {}
              /\ workspaces = {} /\ ~verifierTree]_allVars
  BY <1>1
<1>3. QED
  BY <1>2, ConcurrentInvariance, PTL DEF ConcurrentSpec, DraftFollowsTeardown
=============================================================================
