------------------------- MODULE ConcurrentCleanup -------------------------
(***************************************************************************)
(* `cleanup` beside the run it cleans up.  cleanup --latest takes the      *)
(* newest run directory, nothing marks a directory as in use, and so       *)
(* cleanup_existing can start while run_flow is still in it, as a second   *)
(* process that reads and writes the same files, trees and containers.     *)
(*                                                                         *)
(* The run is IncidentController with the steps it takes by itself.  The   *)
(* cleaner is the same code in a process of its own: the instance Cleaner  *)
(* gives that code the cleaner's memory and leaves it the shared world.    *)
(***************************************************************************)
EXTENDS IncidentController

CONSTANT MaxCleanups    \* how often the operator starts cleanup

ASSUME MaxCleanupsAssumption == MaxCleanups \in Nat

VARIABLES
    cleanups,   \* how often it was started
    \* the cleaner's own pc, control, candidate, phase and so on
    cpc, ccontrol, ccandidate, cphase, cchecks, cexc, crecords, csweep, ccleanOk

process == <<cpc, ccontrol, ccandidate, cphase, cchecks, cexc, crecords,
             csweep, ccleanOk>>
cleaner == <<cleanups, process>>
run == <<pc, control, exc, memory>>
allVars == <<vars, cleaner>>

\* A client of the run that is still starting is to the cleaner what the
\* client of a dead controller is to its recovery: a cidfile without an id.
Cleaner == INSTANCE IncidentController WITH
    pc <- cpc, control <- ccontrol, candidate <- ccandidate, phase <- cphase,
    checks <- cchecks, exc <- cexc, records <- crecords, sweep <- csweep,
    cleanOk <- ccleanOk, orphans <- orphans \cup inflight

\* The memory of a process that has just been started.
Fresh ==
    /\ ccontrol' = disk /\ ccandidate' = NoDigest
    /\ cphase' = "attempt-unit" /\ cchecks' = FALSE /\ cexc' = "none"
    /\ crecords' = {} /\ csweep' = "closeout" /\ ccleanOk' = FALSE

ConcurrentInit ==
    /\ Init
    /\ cleanups = 0
    /\ cpc = "idle" /\ ccontrol = disk /\ ccandidate = NoDigest
    /\ cphase = "attempt-unit" /\ cchecks = FALSE /\ cexc = "none"
    /\ crecords = {} /\ csweep = "closeout" /\ ccleanOk = FALSE

-----------------------------------------------------------------------------
(***************************************************************************)
(* The run, while somebody may take its containers and trees away.         *)
(***************************************************************************)
\* create_candidate works in the workspace, and makes its worker directory
\* beside it; it raises where there is none.
RunsByItself ==
    /\ Controller
    /\ pc' = "proposed" => attempt \in workspaces
    /\ workerRoots' \subseteq workerRoots \cup workspaces

\* The cleaner removed what the client was waiting for.
ContainerVanishes ==
    /\ pc = "running"
    /\ Current \notin inflight \cup resources
    /\ checks' = FALSE
    /\ Goto("reap")
    /\ UNCHANGED <<control, disk, candidate, phase, records, sweep, cleanOk,
                   reports, artifacts, trees, docker, environment>>

ComposeVanishes ==
    /\ pc = "composing"
    /\ Current \notin inflight \cup resources
    /\ checks' = FALSE
    /\ Goto("composeDown")
    /\ UNCHANGED <<control, disk, candidate, phase, records, sweep, cleanOk,
                   reports, artifacts, trees, docker, environment>>

\* Two rmtree calls of one tree: each finds entries gone that it has listed,
\* and reports a failure although nothing is left.
RetryRaces ==
    /\ pc = "retry" /\ cpc = "sweepWorkspaces"
    /\ RemoveTrees /\ Raise("FlowError")
    /\ UNCHANGED <<control, disk, memory, reports, artifacts, docker,
                   environment>>

SweepRaces ==
    /\ pc = "sweepWorkspaces" /\ cpc = "sweepWorkspaces"
    /\ RemoveTrees /\ cleanOk' = FALSE
    /\ pc' = IF sweep = "delivery" THEN "gate" ELSE "revoke"
    /\ UNCHANGED <<control, disk, exc, candidate, phase, checks, records,
                   sweep, reports, artifacts, docker, environment>>

RunGoesOn ==
    /\ RunsByItself \/ ContainerVanishes \/ ComposeVanishes \/ RetryRaces
         \/ SweepRaces
    /\ UNCHANGED cleaner

RunDies == Crash /\ UNCHANGED cleaner

-----------------------------------------------------------------------------
(***************************************************************************)
(* The cleaner.                                                            *)
(***************************************************************************)
CleanerSweepRaces ==
    /\ cpc = "sweepWorkspaces" /\ pc \in {"retry", "sweepWorkspaces", "untree"}
    /\ RemoveTrees /\ ccleanOk' = FALSE
    /\ cpc' = "revoke"
    /\ UNCHANGED <<ccontrol, ccandidate, cphase, cchecks, cexc, crecords,
                   csweep, cleanups, disk, reports, artifacts, docker,
                   environment>>

CleanerStarts ==
    /\ cleanups < MaxCleanups
    /\ cleanups' = cleanups + 1
    /\ UNCHANGED <<run, inflight, orphans>>
    /\ Cleaner!CleanupExisting

CleanerGoesOn ==
    /\ UNCHANGED <<cleanups, run, inflight, orphans>>
    /\ \/ Cleaner!SweepContainers \/ Cleaner!SweepCompose
       \/ Cleaner!SweepWorkspaces \/ CleanerSweepRaces
       \/ Cleaner!RevokeDraft \/ Cleaner!WriteCloseout
       \/ Cleaner!CloseControl \/ Cleaner!MockNotify

CleanerDies ==
    /\ "crash" \in faults /\ cpc # "idle"
    /\ cpc' = "idle" /\ Fresh
    /\ UNCHANGED <<cleanups, vars>>

-----------------------------------------------------------------------------
\* docker run --mount needs the tree that it binds.
Mounted(k) ==
    CASE k[2] \in {"attempt-unit", "attempt-verifier"} -> k[1] \in workspaces
      [] k[2] \in {"independent-unit", "independent-verifier"} -> verifierTree
      [] OTHER -> TRUE

World ==
    /\ \/ DaemonCreates /\ \A k \in inflight : Mounted(k)
       \/ StrayEnds \/ DeadlinePasses \/ FaultsCease
    /\ UNCHANGED cleaner

ConcurrentNext ==
    RunGoesOn \/ RunDies \/ CleanerStarts \/ CleanerGoesOn \/ CleanerDies
        \/ World

ConcurrentSpec == ConcurrentInit /\ [][ConcurrentNext]_allVars

-----------------------------------------------------------------------------
(***************************************************************************)
(* What holds although the two processes know nothing of each other.       *)
(***************************************************************************)
\* Whatever Docker runs, or may still start, is in the journal, so that a
\* cleanup that is not refused finds it.
JournalCoversDocker ==
    inflight \cup resources \cup stray \cup late \subseteq intents

\* When the run calls its own cleanup complete, it is: a cleaner can only take
\* more away.  (What the cleaner calls complete may not be: the run goes on.)
OwnTeardownIsTrue ==
    pc \in CloseStep /\ cleanOk =>
        /\ inflight \cup resources = {}
        /\ workspaces = {} /\ ~verifierTree

\* A success on disk, whichever process wrote it there, is of a run that tore
\* everything down before and starts nothing any more.
SuccessIsTornDown ==
    disk.outcome = "SUCCEEDED" =>
        /\ inflight \cup resources = {}
        /\ workspaces = {} /\ ~verifierTree

\* Only the run writes a draft, and only after its own teardown.
DraftFollowsTeardown ==
    [][draft' \notin {draft, NoDigest} =>
          /\ pc = "publish" /\ pc' = "published"
          /\ inflight \cup resources = {}
          /\ workspaces = {} /\ ~verifierTree]_allVars
=============================================================================
