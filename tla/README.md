# A TLA+ model of the Deep Agents incident workflow

The repository is a local, disposable incident workflow. A *controller*
(`scripts/runner.py`) takes one incident scenario, obtains candidate patches
from a provider, tests each in locked-down containers, re-applies and re-tests
an accepted patch in a clean tree, and only then writes a mock draft delivery.
Everything that survives the process lives in one *run directory*; what else
can outlive it are Docker containers, Compose projects and a worker process.
The controller may die anywhere, Docker and the file system may fail, and an
operator repeats `cleanup` afterwards, or starts it while the run still goes
on. The modules here are about that: what the durable state says after any
sequence of these events, and what the verdict in it rests on.

## 1. Inventory

Components, the state each keeps, what it does, who it talks to, what is hard
about it and what makes it correct. `PROJECT.json` lists the same parts with
their modelling status.

**Incident controller** (`run_flow`, runner.py 2900-3218).
State: `control` in memory and `control.json` on disk, the attempt number, the
accepted candidate, the Compose records, the exception on its way.
Operations: validate, collect evidence, then per attempt: write the attempt
counter, copy a workspace, ask the provider, check the candidate, test it,
verify it independently, clean up, check eligibility, mark success, publish;
the except ladder; closeout and notification in `finally`.
Hard: every write is a crash point; `finally` blocks replace exceptions; the
except clause's own write can fail; verdict, draft and notification are
separate files. Correct when the draft is exactly the tested digest, appears
only after teardown, and no later event upgrades a verdict.

**Recovery** (`cleanup_existing`, `cleanup_resources`, `closeout`,
`remove_workspaces`, `mock_notify`; 2727-2897, 3771-3923). State: only the run
directory. It validates the journals against `control.json`, removes
containers, projects and trees, revokes the draft, rewrites `closeout.json` and
`control.json`. Hard: it refuses inconsistent directories for good, so
`run_flow` must never leave one; its parts fail independently; it may be
repeated for ever, also on a closed run. Correct when it is always accepted,
terminates, and eventually reclaims everything. No lock keeps it from a run
that is still live, so some of this has to hold for two processes at once.

**Candidate-test containers** (1690-2028). State: an intent file per attempt
and phase, a cidfile that the Docker client writes, the container itself.
Journal, launch with a timeout, reap in `finally`, re-inspect at cleanup. Hard:
the client can be killed or outlive the controller while the daemon has not
yet created the container; the cidfile can stay empty. Correct when whatever
Docker runs is in the journal first, and what is journaled is removed.

**Compose veto** (2151-2477, `compose.event-indexing.yaml`). A second, stateful
test whose only authority is to reject. Found again through its own intent
file and, in the live process, through a list in memory.

**Independent verification** (`independent_verify`, 2535-2599). A clean tree,
both containers again, the digest of the re-applied patch compared to the
candidate's; the tree is removed in `finally`.

**Delivery** (`delivery_eligibility_issues`, `mock_publish`; 2602-2724). Reads
the candidate, the verdicts, the receipts and the cleanup flag twice, then
writes the draft.

**Artifact verification** (`verify_run` and its helpers; 3221-3768). Reads a
closed run directory and lists the issues it finds.

**Candidate providers** (`FixtureCandidateProvider` 1146-1188,
`DeepAgentsCandidateProvider` 1396-1679). The first holds patches; the second
makes a worker directory in the attempt, supervises a worker process
(1191-1228), turns the tree it leaves into a patch (1292-1393), removes the
directory in `finally` and writes an execution record.

**Deep Agents workers** (`scripts/deepagents_worker.py`,
`typescript-runtime/src/deepagents_worker.ts`). One request, one bounded agent,
one result file.

**Patch policy** (840-945, 1071-1143, 1292-1393). How the worker's tree becomes
a diff, which paths that diff touches, whether it may, and what `git apply`
makes of it. Hard: the code reads the diff line by line, git reads hunks, and
they do not even end lines at the same characters; what is applied must be what
was checked, on every tree a worker may leave. Correct when an accepted
candidate is the worker's tree, changes only what policy and scenario permit,
and an ordinary repair gets through.

**Evidence and redaction** (473-519, 761-837). Pure functions of the incident,
the evidence file and the policy.

**Event-indexing fixture and its verifiers**
(`fixtures/repositories/event-indexing-collision`, `verifiers/`,
`integration/event_indexing_verifier.py`). The program under repair: an
idempotent consumer with a ledger and an index, and the two verifiers that
decide whether a repair of its identity functions is right.

**Smokes, qualification, installers** (`scripts/run-network-isolated-*.sh`,
`*_sdk_smoke.*`, `dependency_qualification.py`, ...). Batch programs around the
workflow; the shell smokes own a container and an image and remove them in an
EXIT trap.

## 2. Modules

| module | what it is |
|---|---|
| `IncidentController` | a run, its crashes and its cleanups, over durable state, Docker and trees |
| `IncidentControllerProofs` | theorems about `IncidentController`, among them that it implements `DraftDelivery` |
| `DraftDelivery` | what a run promises about its draft, abstractly |
| `ConcurrentCleanup` | a live run and `cleanup` on the same directory, composed from two copies of `IncidentController` |
| `ConcurrentCleanupProofs` | theorems about it |
| `ProviderContract` | what one Deep Agents attempt promises the controller, abstractly |
| `DeepAgentsAttempt` | `create_candidate` beside the worker process it starts |
| `DeepAgentsAttemptProofs` | theorems about it, among them that it keeps the contract |
| `PatchPolicy` | from the worker's tree through the diff and its checks to the verified workspace |
| `PatchPolicyProofs` | theorems about it |
| `DeliveryEvidence` | receipts and digests, the delivery gate, `verify_run` over files |
| `DeliveryEvidenceProofs` | theorems about it |
| `EventIdentities` | identity functions that join, concatenate or fold fields, and the judges of a repair |
| `EventIdentitiesProofs` | theorems about them: what joining tells apart, and which candidates each judge accepts |
| `RecordConsumer` | the fixture's idempotent consumer, for any identities |
| `RecordConsumerProofs` | theorems about it |
| `EventIndexingVerifier` | the service verifier with its broker, database and index |
| `EventIndexingVerifierProofs` | theorems about it |
| `MC...` | values of the constants for TLC, one module per checked module |

The modules look at one system at different magnifications.
`IncidentController` is a whole run; a candidate is a digest there, a Deep
Agents attempt is three steps (`StartProvider`, `ProviderReturns`,
`ProviderFails`), a verdict is a Boolean. `DeepAgentsAttempt` opens the three
steps and is shown to keep `ProviderContract`, which says what they assume.
`DeliveryEvidence` opens the verdict and the gate: it has no crashes (they are
in `IncidentController`) but has the files, the trusted inputs and the receipts
that the Boolean stands for. `PatchPolicy` opens what is a set of permitted
edits in `DeepAgentsAttempt` and a digest elsewhere: the text of the patch and
the two readers of it. `ConcurrentCleanup` adds no detail but a second process.
The event-indexing modules are the program under repair and what its verifiers
decide; a run sees only their verdict.

### IncidentController

One step is what lies between two effects that survive the process: an atomic
`write_json`, a Docker call, the creation or removal of a tree. `pc` names the
place in `run_flow`; `exc` is the exception on its way; `control` is the
dictionary in memory and `disk` is `control.json`. `intents`, `results`,
`verification`, `draft`, `closeout`, `notice` and `sdkIncomplete` are the other
artifacts. `attemptDirs`, `workspaces`, `workerRoots` and `verifierTree` are
directories: a workspace and a worker directory exist only inside an attempt
directory, because `remove_workspaces` finds the attempt by its workspace.

Docker is four sets of `<<attempt, phase>>`: `inflight` (a client of a live
controller asked for it), `resources` (it exists and somebody waits for it),
`stray` (a client nobody waits for may still create it; `orphans` are those
that outlived the controller), `late` (it was created by such a client).
`unreadable` are the cidfiles that a killed client left without an id: the code
refuses them (runner.py:1842-1848).

Faults are a set: `crash`, `interrupt` (a KeyboardInterrupt), `docker` (a call
fails or times out), `filesystem` (an rmtree fails), `unlink` (the revocation
of the draft fails), `io` (a write fails before or after its effect). While a
kind is in `faults` it may happen any number of times; `FaultsCease` empties
the set, which only liveness needs. An interrupt may come between any two steps
of the try block. No except clause catches it: it goes through the `finally` of
whatever is open to the closeout, with the outcome held at that moment, which
may be RUNNING (`Unwind`). During the closeout nothing holds it up and it is
the same as a death (`Crash`).

Actions follow the code's order; `PROJECT.json` maps each to its lines. Points
worth knowing when reading:

- `Save` is a write of `control.json` with the event after it: the file is
  replaced atomically, the event may fail after the replacement.
- `Raise` leaves the try block, through `independent_verify`'s `finally` when
  the verifier's tree exists.
- `ReapContainer` is the `finally` of `_run_candidate_test_container`; its
  `FlowError` replaces a time-out, as in the code.
- `SweepContainers`, `SweepCompose`, `SweepWorkspaces` are `cleanup_resources`,
  once for the delivery gate and once for `closeout`. Containers are found
  through durable intents, Compose projects through the records in memory.
- `CleanupExisting` starts the same closeout from what is on disk.
- A failing write inside `closeout` ends the process and is a `Crash`.

The faulty variants at the head of the module (`...InMemory`, `...Forgets`,
...) are used by no specification; each is a plausible mistake that a property
has to notice.

### ConcurrentCleanup

`cleanup --latest` takes the newest run directory, and nothing marks one as in
use. The run is `IncidentController` with the steps it takes by itself; the
cleaner is an `INSTANCE` of the same module that has a `pc`, a `control` and a
sweep of its own and shares files, trees and Docker. To the cleaner a client of
the run that is still starting is like one of a dead controller: a cidfile
without an id. What the run meets where the single process could not is an
action of its own: a container that vanishes under its client
(`ContainerVanishes`, `ComposeVanishes`), two `rmtree` of one tree
(`RetryRaces`, `SweepRaces`, `CleanerSweepRaces`), a bind mount or a provider
whose tree is gone (`Mounted`, `RunsByItself`). Both processes write
`control.json` through one temporary name, `control.json.tmp`; that one of the
two replaces may fail for it is not modelled.

### DeepAgentsAttempt and ProviderContract

A tree is the set of items by which it differs from the shadow Git baseline:
permitted edits, changes outside the permitted paths, irregular changes, links,
editor backups of two kinds, caches, files that `.gitignore` hides. A patch is
a set of items, a digest is the set (`tree_digest` does not see caches). The
worker puts any items into its tree and answers or does not; its tool
permissions are not relied on. `pc` follows the code: directory, copy, request,
baseline commit; `Popen`, wait, SIGTERM, grace, SIGKILL; result, validation,
backups, caches, diff, apply; `finally` with `rmtree` and the execution record.

Faults: `crash` (the controller dies), `interrupt` (KeyboardInterrupt: it
passes `except Exception`, so the record keeps the outcome RUNNING),
`filesystem` (`rmtree` fails), `io` (a write fails). A worker that nobody waits
for any more may go on writing, and a late write may bring a removed directory
back. The refinement mapping is `Step`, `Root`, `Incomplete`, `Running`.

### PatchPolicy

A file is a mode and a set of lines; a line is known by what a reader of the
patch could take it for: code, a sensitive marker, binary bytes, too much text,
or text that begins with `-- ` or `++ ` and goes on with a name, which in a
hunk prints like a `---` or `+++` header. These are git's lines, which end at a
newline. `str.splitlines` (runner.py:843, 887) also ends one at a carriage
return, a form feed, U+2028 and their like, so a line has a `rest`: the
`Fragment`s in it that look like a `diff --git` line, a path header or metadata
to the code and like nothing to git. What git prints (`FileHeaders`,
`HunkHeaders`, `MayPair` for rename detection) and accepts (`Fits`) is external
and modelled from how the code calls it: `ls-files`, `add -N`, `diff`,
`apply --check`, `apply`. The checks (`PatchOK`, `PatchBytesOK`, `ContractOK`,
`ScenarioAllows`, `Reconciled`) are the code's, in its order, first for the
provider and then for the verifier's clean tree. A step of git may run into its
time limit, `git apply` in the middle. Lines have no order and a file is
shorter than a diff's context, so the model has no hunks that leave part of a
file out.

### DeliveryEvidence

`files` is the run directory: for each kind of artifact its contents per
attempt, or once. A tree is the version of the fixture and the patch, a
verifier bundle is a version. `claim` is what `scenario_test`,
`independent_verify` and `controller_test` read for the next receipt, before
the container runs; `executions` is history: which verifier really ran over
which tree. Beside the controller somebody edits the fixture or the verifier at
any time, the retained patch may change at any time, and the artifacts of a
successful run may be lost or replaced by those of the same name of another
attempt or another run (`Misplace`). Receipts are not forged: the repository
calls artifacts "local evidence, not immutable attestations". `Eligible` is the
gate's reading, from memory; `VerifyRun` is `verify_run`'s, from the files.
Versions only grow: an edit that is taken back is not told apart by a digest.
After the clean re-application has hashed the patch, `apply_candidate` reads it
three more times (text, `git apply --check`, `git apply`); the model has the
last.

### EventIdentities, RecordConsumer, EventIndexingVerifier

A candidate is a pair of `Code`, one for the event's identity and one for the
document's: the fields it reads, whether ":" or nothing goes between them, which
of them are case-folded first, and whether it is the one pure return expression
that the probe evaluates or says the same in other Python. A value is a
sequence of tokens, because the separator may occur in it. The judges are the
assertions of `verifiers/`, of the integration verifier and of the fixture's
tests, over their own sample events. The tests run any Python; the two verifiers
refuse what the probe cannot evaluate (`Probed`, `candidate_probe.py:80-146`).

Of the expressions that the probe does evaluate (149-206) `Code` has f-strings
and `+` over whole or folded fields. Constants other than the separator,
subscripts, look-ups in dictionaries, `split` and `strip` are left out. A
look-up can name the samples of one judge and treat other events as it likes,
so no judgement by samples says anything of such a candidate, and what the
properties and theorems say of candidates is said of `Code`. That an identity
is deterministic and at most 512 bytes long is not modelled either.

`RecordConsumer` takes the identities as parameters. It delivers any event at
any time and any number of times. `EventIndexingVerifier` is `run()` call by
call; Kafka, PostgreSQL and OpenSearch are external and fail, the producer's
retries append an event again or out of order, the verifier is killed and run
again on the same database. The read-only evidence is constant data.

## 3. What TLC checks

| run | shows |
|---|---|
| `controller_safety` | the type invariant, five invariants, three action properties and the refinement of `DraftDelivery`: two Deep Agents attempts, Compose, all faults |
| `controller_liveness` | invocations end; after faults cease everything is reclaimed and the record settles |
| `concurrent_cleanup` | a run and a cleanup beside it, either dying at any step: what stays true |
| `provider` | a Deep Agents attempt beside its worker, all faults: evidence, contract, termination |
| `patch_policy` | every change of at most three of six files, from the worker's tree to the verified workspace |
| `delivery_evidence` | gate and `verify_run` while trusted inputs change and artifacts go astray |
| `record_consumer` | the reference repair's identities under any delivery |
| `event_verifier` | what the judges' samples decide, for every candidate; two runs of the service verifier with a misbehaving broker |
| `late_container` | **violated**: CLOSED with a container |
| `worker_directory` | **violated**: CLOSED with a worker directory |
| `success_without_draft` | **violated**: CLOSED and SUCCEEDED without a draft |
| `unvaried_record` | **violated**: an accepted repair ignores the external record |

Type invariants that the prover establishes for every constant (of
`DeepAgentsAttempt`, `PatchPolicy`, `DeliveryEvidence`, `RecordConsumer`) are
not repeated as invariants of these runs.

Properties of a run (`IncidentController`).

- `WriteAhead`: whatever Docker runs or may still start is in the durable
  journal, and the journal lies within the durable attempt counter.
- `CleanupNeverRefused`: `cleanup_existing` accepts what the controller leaves,
  however it died.
- `DraftIsExactCandidate`: a draft is the digest that passed its tests and the
  clean re-application, in the attempt that `control.json` names.
- `ClosedIsClean`: CLOSED means no awaited container, no project, no workspace,
  no verifier tree and no execution record that admits a left-over.
- `StrandedDraftIsReported`: a draft that survives the verdict against it is
  reported in `closeout.json`.
- `PublishAfterTeardown`: the draft appears once, after everything of the run
  is gone and the verdict is durable.
- `OutcomeNeverUpgraded`: a durable verdict is only downgraded, and a run on
  record as RUNNING becomes a success only by the process that holds the
  tested and verified candidate: run_flow at its end, or its own closeout when
  a signal came in that write. A cleanup leaves RUNNING what it is.
- `CompleteCloseoutVerifies`: after a closeout that reports complete cleanup
  `verify_run` (as far as the model keeps its inputs) finds nothing, but for a
  draft that `closeout.json` itself calls stranded, or the missing draft of a
  success where a crash or a signal came before the delivery.
- `InvocationEnds`, `EventuallyReclaimed`, `EventuallySettled`: liveness.
- `ImplementsDraftDelivery`: refinement of the abstract specification.

Properties of a run with a cleanup beside it (`ConcurrentCleanup`).

- `JournalCoversDocker`: whatever Docker runs or may still start is in the
  journal, so that a cleanup that is not refused finds it.
- `OwnTeardownIsTrue`: when the run calls its own cleanup complete, it is. What
  the cleaner calls complete need not be, since the run goes on.
- `SuccessIsTornDown`: a SUCCEEDED on disk, whichever process wrote it back, is
  of a run that tore everything down before and starts nothing more.
- `DraftFollowsTeardown`: only the run writes a draft, after its own teardown.

Properties of an attempt (`DeepAgentsAttempt`).

- `DiffSeesWhatWasValidated`: when Git reads the worker's tree the worker has
  ended and the tree is the validated one.
- `OnlyThePatchReachesTheWorkspace`: what is in the workspace came through the
  retained patch, which has permitted edits only.
- `ReturnedCandidateVerifies`: candidate, patch file, execution record,
  workspace and the verifier's clean tree agree, although files that Git
  ignores are in the worker's tree only.
- `NoSurvivor`: only a dead or interrupted controller leaves a worker behind
  (`docs/threat-model.md:52` leaves it to the operator).
- `EvidenceIsHonest`: the execution record never claims more than is so.
- `ImplementsProviderContract`, `AttemptEnds`.

Properties of the patch (`PatchPolicy`).

- `AcceptedChangeStaysInPolicy`: an accepted candidate changes, in the
  workspace that was verified, exactly the paths its record names, each
  permitted by policy and by scenario, and no mode.
- `CandidateIsTheWorkersTree`: nothing is lost or added between the worker's
  tree and that workspace, ignored files excepted.
- `ValidatedPatchApplies`: git can apply what the line-by-line reading lets
  through, and changes no path which that reading has not named and checked. It
  may change fewer, when a fragment of a line passed for a header; then, and
  only then, the comparison of the applied paths (runner.py:1134) refuses. What
  passed it for the provider is not refused to the verifier.
- `OrdinaryRepairIsAccepted`: a plain repair of the scenario's files is never
  refused. (What is not plain: see below.)

Properties of the evidence (`DeliveryEvidence`).

- `DraftRestsOnExecutions`: two executions, by one verifier, of the tree that
  the retained patch makes of one fixture, are behind every draft, and its
  receipts say just that; the digests are read before and after the verifier
  runs, and anything may change in between.
- `AcceptedRunWasTested`: what `verify_run` accepts as a success rests on such
  executions of this run and attempt, with the trusted inputs in force,
  whatever artifacts went astray.
- `PublishedRunVerifies`: the converse; if nothing went astray, what the gate
  let through passes `verify_run`, for either source.

Properties of the fixture and its verifiers.

- `DuplicateMeansReplay`, `IndexHoldsLatest`, `ReplayChangesNothing`: only
  replays are suppressed, the index has one document for each record, the
  event indexed last, and a late replay changes nothing. (The first delivery of
  an old revision does replace a newer one; nothing asks for more.)
- `LogicIsEnoughForOneRecord`: the six sampled events decide about all events
  of a record with plain values (single tokens, in one case), and for
  candidates that join whole fields with ":" about events with awkward values
  too (tenants that differ in case, values that begin or end with another).
- `RefusedOnlyForItsForm`: what the tests accept the verifier refuses only
  because the probe does not evaluate it, and it accepts nothing else.
- `DecisionsAreOfThisRun`: rows of a killed run decide nothing.
  `VetoHasACause`: a right candidate fails only for a disturbance. `RunEnds`.

Bounds. `MaxEdits`, `MaxVersion`, `MaxMisplaced`, `MaxCleanups`,
`MaxBrokerFaults` and `MaxRuns` bound what the environment may do; all are
constants, and the proofs hold for any value of them. Two attempts are enough
for a retry with leftovers of the first attempt, one less than needed for
nothing the code does differently on a third. Two digests distinguish "the
same" from "another" candidate. Digests are symmetric in the safety runs; the
liveness run uses no symmetry and one attempt. Every container phase and
Compose are always present, and every kind of fault may recur without bound.
Two permitted edits let a patch be partly applied. Two attempts, two patches,
one edit of each trusted input and two misplaced artifacts let stale evidence
of every origin meet; a success binds result and verification separately, so
two misplacements are the least that could fool it. Beside a cleaner the run
has two attempts of which the first has a patch, Compose, and crashes as the
only fault, since the second process is the disturbance here: with the other
faults, or with Deep Agents attempts, the product is too large for one run, and
the theorems take over (section 4). One cleanup is enough for the stale memory
that is the hazard. Three edited paths with a limit of two changed ones put one
path over the limit; six repositories and ten drafts give each kind of line and
of fragment a place before and after the change. Two tenants, two providers and
two revisions are what the identities have to tell apart. Every candidate that
joins some of the five fields with ":" in each identity is judged (1024), and
64 pairs of the fixture's and the reference repair's identities as they are,
without separator, with tenants folded, or in Python that the probe refuses.
Broker faults and reruns are explored for three candidates: the reference
repair, the fixture as shipped and one that only the service verifier accepts.

Fairness. The controller is one thread of straight-line code whose external
calls all have a timeout, so it never stays before a step for ever
(`WF(Controller)`). The operator repeats cleanup (`WF(CleanupExisting)`): the
docs ask for that after an incomplete cleanup. A Docker client nobody waits for
ends (`WF(StrayEnds)`), and faults do not last for ever (`WF(FaultsCease)`);
without the last two nothing could be promised. An attempt is the same
controller (`WF` of its steps): each of its external calls has a time-out, and
after SIGKILL it waits without one, for a process that cannot refuse to end.
Nothing is assumed of the worker. The service verifier is sequential with
time-outs (`WF(Verifier)`), and its clock runs (`WF(DeadlinePasses)`).

### What does not hold

The first four are runs that expect their violation, and findings.

- A `docker run` client that outlives the controller, or its own timeout, can
  create its container after cleanup saw it absent. `closeout` then says
  complete and the run is CLOSED with a running container. A later cleanup
  removes it (`EventuallyReclaimed`), but nothing asks for one. The
  architecture document says that the journal "closes the host-process crash
  window".
- `remove_workspaces` looks for `attempt-*/workspace`. If `rmtree` has removed
  the workspace and then fails, the attempt directory and the worker directory
  in it are invisible to every later cleanup, which closes the run.
- The SUCCEEDED verdict is durable before the draft. After a crash between the
  two, cleanup closes the run as a success without a draft, which `verify_run`
  reports as an issue and nothing repairs.
- No sample of the verifiers or tests varies `external_record_id`, so a repair
  that leaves it out of both identities is accepted, although the diagnosis
  says that both must include it.

Beside a live run a cleanup costs guarantees that hold for one process. It read
`control.json` when it started and writes it back at its end: a RUNNING that it
read may replace the run's SUCCEEDED, and an attempt counter that it read may
fall below the journal of an attempt the run has begun since. From then on
every cleanup refuses the directory ("cleanup intent attempt exceeds controller
state", runner.py:3839), so `CleanupNeverRefused` fails there, and
`ClosedIsClean`, `StrandedDraftIsReported` and `OutcomeNeverUpgraded` with it;
it may also unlink the draft of a run that has just succeeded. No document of
the repository promises otherwise, so this is a fact and not a finding. The
four properties of `concurrent_cleanup` are what is left.

The patch policy refuses some harmless repairs, all but one kind before
anything is applied. A removed line that begins with `-- ` (an SQL comment) and
an added one that begins with `++ ` print as `--- ` and `+++ ` and are read as
path headers; an empty file that comes or goes has no path header; moving a
file prints as a rename, which is refused. `Ordinary` in `PatchPolicy` excludes
just these, and text behind a form feed or another separator of `splitlines`
that looks like a header. With two such texts, a `diff --git` and a `---` of
one path, both lists of paths agree and the patch is let through although git
changes fewer paths: that one is refused after it was applied (1134), in the
disposable workspace.

The judges of a repair see a dozen events with plain values. An identity that
concatenates its fields without a separator, or folds the tenant's case, passes
every judge, and then gives two tenants' records one document when one value
begins with what another ends with, or when the tenants differ in case only
(`ConcatenationMergesTenants` proves the first). So `LogicIsEnoughForOneRecord`
says no more of such code than what plain values need. And a repair that is
green in the workspace may be refused for good, because it is not the one
expression that the probe evaluates; the documents say so
(docs/architecture.md:71) and a test asserts it (test_acceptance.py:928-997).

Facts that no property contradicts, but worth knowing. The reference repair
joins values with ":", which `from_mapping` lets values contain: with it the
documents of (tenant "a", provider "a:a") and (tenant "a:a", provider "a") are
one, so `record_consumer` and the theorems take values without it. The
execution record names no run: `verify_run` accepts that of another run with
the same attempt, patch and digest; the receipts are what binds a run, and
`AcceptedRunWasTested` holds though such a record may be put in its place. A
verified run stops verifying once fixture or verifier are edited.

Two more facts show in `EventuallySettled`: an execution record with an
incomplete cleanup, and a cidfile without an id, keep a run CLEANUP_FAILED for
ever, because nothing rewrites either.

## 4. What is proved

Eight modules hold theorems; every one is checked to its last leaf by TLAPS.

**`IncidentControllerProofs`** proves, for every number of attempts from one to
five, every set of digests, either provider, with or without Compose and for
every set of faults: `TypeCorrect`, `JournalBeforeLaunch` (`WriteAhead`),
`CleanupAlwaysAccepted` (`CleanupNeverRefused`), `DraftMatchesCandidate`
(`DraftIsExactCandidate`), `ClosedMeansClean` (`ClosedIsClean`),
`StrandedIsReported` (`StrandedDraftIsReported`), `DraftAfterTeardown`
(`PublishAfterTeardown`), `VerdictNeverUpgraded` (`OutcomeNeverUpgraded`),
`CloseoutVerifies` (`CompleteCloseoutVerifies`), `RunImplementsDelivery`
(`ImplementsDraftDelivery`) and `InvocationIsBounded`. The only assumption is
`ConstantsAssumption`.

All follow from `Invariance`: an inductive invariant `IInv` holds. The
properties are not inductive: that a draft matches the verdicts needs to know
where the process is between accepting a candidate and publishing it
(`EligibleAtPublish`, `PublishIsDurable`), that no cleanup makes a success
needs to know whose success is held but not yet written (`SuccessIsEarned`),
that `CLOSED` is clean needs what
each part of a sweep has established so far (`ContainersAreSwept`,
`DockerIsSwept`, `TreesAreSwept`), and the journal needs that the attempt
counter on disk is not behind the one in memory (`AttemptIsDurable`). `IInv` is
the conjunction of these parts, each named and commented in
`IncidentController`. Three groups of them, `FieldInv`, `ClientInv` and
`TeardownInv`, do not say what a cleanup leaves, only what the run has
established, and hold beside a second process too. `CloseoutVerifies` needs one
more invariant, `ReportInv`: a closeout that is finished reports what is there,
a success is backed by its verdicts, and it has its draft.

The argument is organised by three tables that the proofs cite instead of
looking at forty actions each time: `WhoWrites` (which actions change a
variable), `WhereTo` and `WhereFrom` (which actions lead to and out of a step).
Every part of `IInv` is then a lemma about the few actions that the tables
leave.

`RunImplementsDelivery` is the refinement: with the mapping of
`IncidentController` every step of a run, a crash or a cleanup is a step of
`DraftDelivery` or a stutter. Two facts carry it: a digest that is eligible is
vetted, and there is no way back to a draft once the run is over (`NoWayBack`).
They follow from `IInv`.

`InvocationIsBounded` is the part of `InvocationEnds` that needs no fairness. A
rank, `Remaining`, is the place in the attempt or after the attempts plus 30
for each attempt that is left; every step of the controller lowers it, nothing
but the operator's next cleanup raises it, it begins at 20 + 30 *
`MaxAttempts` and a cleanup begins at seven. So no fault, and no order of
them, makes the controller go round for ever: not the except ladder, whose own
writes fail, nor the `finally` blocks that replace an exception.

**`ConcurrentCleanupProofs`** proves, under `ConstantsAssumption` and for every
finite number of cleanups and every set of faults, `JournalAlwaysCovers`,
`TeardownIsTrue`, `SuccessMeansTornDown` and `DraftAfterOwnTeardown`. The
invariant `CInv` is `FieldInv`, `ClientInv` and `TeardownInv` of the run, types
of the cleaner, and `SuccessIsFinal`: no process holds a success of a run that
is not torn down. Steps are of three kinds. The run's own steps keep the first
three parts by the lemmas of `IncidentControllerProofs`; a race changes nothing
but what it loses (`RaceFrame`); a cleaner only takes away (`CleanerFrame`). So
here the proof covers what the run of TLC cannot: all faults, Deep Agents
attempts and repeated cleanups.

**`DeepAgentsAttemptProofs`** proves, for every set of edits and of faults,
from `AttemptAssumption` alone: `ValidatedTreeIsRead`,
`WorkspaceComesFromPatch`, `CandidateVerifies`, `WorkersEnd`,
`RecordsAreHonest` (one for each invariant), `AttemptKeepsContract`, the
refinement of `ProviderContract`, and `AttemptIsBounded`: at most fourteen
steps, whatever the worker, a signal or the deadline does. Its `IInv` says what
each place in `create_candidate` knows: when a worker may run
(`WorkerFollowsStep`), how the try block was left (`OutcomeFollowsStep`), that
patch and workspace are empty before their step (`PatchFollowsStep`), that what
was removed stays removed unless a worker was abandoned (`RemovalFollowsStep`),
and that the record is what memory held (`RecordFollowsStep`). The refinement
needs `IInv` for the two steps that leave the attempt: a return has to know
that no worker runs.

**`PatchPolicyProofs`** proves, for every set of paths, policy, scenario,
repository, draft and limit, from `PatchAssumption` alone: `ReadingCoversGit`
(`ValidatedPatchApplies`), `NothingIsLostOrAdded`
(`CandidateIsTheWorkersTree`), `PolicyHolds` (`AcceptedChangeStaysInPolicy`)
and `RepairsAreAccepted` (`OrdinaryRepairIsAccepted`). The core is the lemma
`ReadingCovers`: a patch which passes names at least the files git has sections
for, and exactly those if no fragment looks like a header. That what is
accepted is exactly what was named rests on the comparison after the patch was
applied, which the invariant remembers for the verifier (`RecordIsChecked`).

**`DeliveryEvidenceProofs`** proves, for every number of attempts, edits and
misplaced artifacts, `DraftRests` (`DraftRestsOnExecutions`),
`AcceptedWasTested` (`AcceptedRunWasTested`) and `PublishedVerifies`
(`PublishedRunVerifies`). The invariant is `Shape` (where the controller is
decides which receipts and claims exist), `ReceiptsSound` (a receipt, in memory
or in a file of whatever origin, is backed by an execution), `ClaimsSound` (so
is what is about to become one) and, for the converse, `Kept` (files are what
memory held unless something went astray). Beside the module's assumptions it
uses `NoContentIsMissing`: the value that stands for an absent file is no
file's content.

**`EventIdentitiesProofs`** is about identities, without a state machine. An
identity is a join, defined by recursion over the parts, so its first part
proves what that recursion computes: `LeastNumber` (a set of numbers has a
least one, from the properties of `..` and finite sets) gives `SetInduction`,
induction over the numbers of a *set* instead of an operator, and from it
follow that the recursive function exists (`PrefixesExist`) and what an
identity tells apart: whole fields joined with ":" are told apart if no value
has the separator in it (`IdentityTellsFields`), and any other `Code` tells
apart values of one token each, in one case (`IdentityTellsTokens`); `Legible`
is the disjunction of the two. The second part says which candidates of `Code`
the judges accept, for field lists of any length and order: the tests accept
exactly those that are `Discerning` (`TestsAcceptTheDiscerning`), that is, keep
the fields which the samples vary and leave event type and revision out of the
document, and the verifier's logic exactly those of them that the probe
evaluates (`LogicAcceptsTheDiscerning`); of these the service verifier's own
look at the identities refuses none (`TheDiscerningAreProbed`). The third says
what a discerning candidate is right about: all events of one record that are
legible to it (`TheDiscerningAreRightOnARecord`), and all legible events
whatever if both identities join the record's ID as well
(`TheCompleteAreRight`). `ConcatenationMergesTenants` shows that legible cannot
be left out: the reference repair without a separator is accepted by every
judge and merges two tenants.

**`RecordConsumerProofs`** proves for every set of events that replays are
harmless whatever the identities are (`ReplayIsHarmless`), that only replays
are suppressed if keys tell events apart (`OnlyReplaysSuppressed`), and that
the index holds the latest event of each record if document identities name
records (`IndexIsLatest`). These two hypotheses are what a repair has to
establish, and the reference repair does, for any number of records, tenants,
providers and revisions (`TheReferenceRepairIsRight`).

**`EventIndexingVerifierProofs`** proves, for every candidate, broker and
number of interrupted runs, all the invariants of the `event_verifier` run.

- `TypeCorrect` and `DecisionsAreFresh` (`DecisionsAreOfThisRun`). The step
  that matters is the statement that clears the ledger: from there on its rows
  have exactly the keys of the records this run has processed.
- `VetoesHaveACause` (`VetoHasACause`). The invariant `Undisturbed` follows a
  run that nothing has disturbed, for a candidate that the logic accepts: the
  topic and what was read of it are the four events in their order, one of them
  is a duplicate once it is processed, and each document is that of the last
  event which was indexed under it. Which of the four share a key or a document
  comes from `EventIdentitiesProofs`.
- `LogicSufficesForOneRecord` (`LogicIsEnoughForOneRecord`) and
  `RefusalIsOfTheForm` (`RefusedOnlyForItsForm`), by the characterisation of the
  judges, for every candidate of `Code`. `OnlyTheRecordIsOverlooked` goes with
  the finding of `unvaried_record`: an accepted candidate is right about the
  plain events of two records exactly if both identities join
  `external_record_id`, and about the awkward ones too if it joins whole fields
  with ":". Of other code more is overlooked, see section 3.
- `RunIsBounded`: a run takes at most 24 steps; a step of the polling loop
  reads a record, and what is not there in time is left to the deadline.

Only model-checked are the liveness properties (`InvocationEnds`,
`EventuallyReclaimed`, `EventuallySettled`, `AttemptEnds`, `RunEnds`): fairness
is beyond the prover. Of `InvocationEnds`, `AttemptEnds` and `RunEnds` the
bounds above prove that the process cannot loop; what TLC adds is that it does
not wait for ever. The other two are about repeated cleanups, and no number of
cleanups is enough while faults go on.

## 5. What the model leaves out

- In `IncidentController`, artifacts that somebody edits. Cleanup's identity
  checks are there because files could be edited; only the controller writes
  them there. `DeliveryEvidence` has stale and lost artifacts, not forged ones.
- Liveness of a run beside a cleaner: two processes and fairness are too much
  for TLC within reasonable time. Two cleaners and no run are not modelled
  either; `ConcurrentCleanup` has cleaners one after another.
- A late container never exits by itself, and a Docker client orphaned by a
  crash ends but is not killed. Both make the model's obligations harder.
- The Docker CLI's treatment of the cidfile, the daemon and the clock are
  external; they are modelled from how the code uses them.
- The format of the execution record and of requests, `verify_run`'s scan for
  sensitive markers, prompts, logs, JSON, and hash collisions.
- The feedback to the provider, its last four items with bounded output
  (runner.py:570): it shapes what the agent proposes, and any proposal is
  allowed here. The idempotency key (runner.py:2945): it is recorded, nothing
  compares it, so there is no behaviour to model.

### Not modelled

- *Evidence collection and redaction*: pure functions from a file to text; no
  state, no order, nothing that two steps could disagree on.
- *Network-isolated SDK smokes*: a shell script that starts one container under
  a name with its own nonce and removes it in an EXIT trap. No other
  program reads that state, so a model of it would restate the trap.
- *Dependency and image qualification, public-surface check*: batch validation
  of lock files, reports and text, whose substance is formats.
- *Workflow policy and preflight*: constants checked at import, and read-only
  calls that describe the host.
- *Installers and bootstrap*: sequences of package-manager and Docker calls
  without state of their own.
- *The workers' tool boundary, the subject scenario's verifier*: what a
  candidate's tree may contain is taken as arbitrary, which is weaker than what
  these permit.
- *The rest of the probe's subset of Python*: constants, subscripts, look-ups,
  `split` and `strip`, and the size limits (see `EventIdentities` in section
  2). Nothing is said of candidates that use them.

## 6. Plan

All of it is done, in this order.

1. `IncidentController`, its properties, `DraftDelivery`, proofs.
2. `EventIdentities`, `RecordConsumer` with proofs, `EventIndexingVerifier`.
3. `ProviderContract`, `DeepAgentsAttempt` with proofs.
4. `DeliveryEvidence` and its proofs.
5. The interrupt in `IncidentController`; `ConcurrentCleanup` and its proofs.
6. `PatchPolicy` and its proofs.
7. The refinement of `DraftDelivery`, the proofs of `StrandedDraftIsReported`
   and `CompleteCloseoutVerifies`, `EventIndexingVerifierProofs`.
8. `EventIdentitiesProofs`, and with it the other invariants of
   `EventIndexingVerifier` and the reference repair in `RecordConsumer`; the
   bounds on the steps of a run, an attempt and a service verification.

Two modules of an earlier plan were dropped. One would have had a single
container with names, labels and cidfile, below the four sets of
`IncidentController`: labels and arguments are data that no step of the code
changes, and what a cidfile may hold is already there (`unreadable`). The other
was the smoke's shell trap, for the reason given above.
