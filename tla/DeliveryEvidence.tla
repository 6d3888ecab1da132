-------------------------- MODULE DeliveryEvidence --------------------------
(***************************************************************************)
(* The evidence on which a draft rests: which receipt of the trusted       *)
(* verifier names which candidate, patch, fixture and verifier, and what   *)
(* the two readers of that evidence accept - the delivery gate, from what  *)
(* run_flow holds, and verify_run, from the files of a closed directory.   *)
(*                                                                         *)
(* The controller is not alone with its files.  Somebody may edit the      *)
(* fixture or the verifier while a run goes on; a patch may change after   *)
(* it was tested; an artifact may get lost, or give way to the artifact    *)
(* of the same name of another attempt or of another run.  Nobody forges a *)
(* receipt: the artifacts are "local evidence, not immutable attestations".*)
(*                                                                         *)
(* A digest is what it is computed from: a tree is the version of the      *)
(* fixture and the patch applied to it, a bundle is a version.             *)
(***************************************************************************)
EXTENDS Integers

CONSTANTS
    Patch,          \* the patches a provider may propose
    None,           \* no artifact, no receipt
    MaxAttempts,    \* bound of the attempts of a run
    MaxVersion,     \* bound of the edits of the fixture and of the verifier
    MaxMisplaced    \* bound of the artifacts lost or replaced

ASSUME EvidenceAssumption ==
    /\ MaxAttempts \in Nat \ {0} /\ MaxVersion \in Nat \ {0}
    /\ MaxMisplaced \in Nat
    /\ None \notin Patch

Attempt == 1..MaxAttempts
Version == 1..MaxVersion
Phase == {"attempt", "independent"}

\* tree_digest of a copy of the fixture with a patch applied.
Tree(f, p) == <<f, p>>
TreeType == Version \X Patch

\* The kinds of artifacts, and the slot of those that a run has once.
Kind == {"candidate", "patch", "execution", "result", "verification",
         "cleanup", "draft"}
PerAttempt == {"candidate", "patch", "execution", "result"}
Once == 0
Slots(kind) == IF kind \in PerAttempt THEN Attempt ELSE {Once}

VARIABLES
    pc,             \* the place in run_flow
    source,         \* control.candidate_source
    control,        \* attempts, outcome, candidate_digest, cleanup flag;
                    \* "FAILED" stands for REJECTED and TIMED_OUT as well
    workspace,      \* the tree of the attempt, then of the re-application
    candidate,      \* provided_candidate.record
    claim,          \* the digests read for the receipt of the next execution
    test,           \* test_result
    verification,   \* the verdict of independent_verify
    files,          \* the artifacts of the run directory
    fixture,        \* version of the scenario's repository
    verifier,       \* version of the verifier bundle
    misplaced,      \* how many artifacts were lost or replaced
    executions      \* history: the executions the verifier completed

held == <<workspace, candidate, claim, test, verification>>
trusted == <<fixture, verifier>>
vars == <<pc, source, control, held, files, trusted, misplaced, executions>>

-----------------------------------------------------------------------------
(***************************************************************************)
(* What a receipt binds: everything but its nonce.                         *)
(***************************************************************************)
Body(run, attempt, phase, tree, patch, f, v) ==
    [run |-> run, attempt |-> attempt, phase |-> phase, tree |-> tree,
     patch |-> patch, fixture |-> f, verifier |-> v]

BodyType == [run : {"this", "other"}, attempt : Attempt, phase : Phase,
             tree : TreeType, patch : Patch, fixture : Version,
             verifier : Version]
NonceType == {"this", "other"} \X (Attempt \X Phase)
ReceiptType == [nonce : NonceType, body : BodyType]
TestType == [passed : BOOLEAN, receipt : ReceiptType \cup {None}]

CandidateType == [attempt : Attempt, name : Attempt, patch : Patch,
                  tree : TreeType]
VerificationType == [accepted : BOOLEAN, tree : TreeType,
                     tested : TreeType, test : TestType]
ClaimType == [tree : TreeType \cup {None}, patch : Patch, fixture : Version,
              verifier : Version \cup {None}]

Content ==
    [candidate |-> CandidateType,
     patch |-> Patch,
     execution |-> [attempt : Attempt, patch : Patch, tree : TreeType],
     result |-> [attempt : Attempt, tree : TreeType, test : TestType],
     verification |-> VerificationType,
     cleanup |-> BOOLEAN,
     draft |-> [run : {"this", "other"}, tree : TreeType,
                receipts : ReceiptType \X ReceiptType]]

\* A missing file is no file's content.
ASSUME NoContentIsMissing == \A kind \in Kind : None \notin Content[kind]

-----------------------------------------------------------------------------
(***************************************************************************)
(* The artifacts that other runs of the same scenario and source left:     *)
(* runs that delivered patch p at attempt n, before any edit.              *)
(***************************************************************************)
Elsewhere(kind, n, p) ==
    LET tree == Tree(1, p)
        Passed(phase) ==
            [passed |-> TRUE,
             receipt |-> [nonce |-> <<"other", <<n, phase>>>>,
                          body |-> Body("other", n, phase, tree, p, 1, 1)]]
    IN [candidate |->
            [attempt |-> n, name |-> n, patch |-> p, tree |-> tree],
        patch |-> p,
        execution |-> [attempt |-> n, patch |-> p, tree |-> tree],
        result |-> [attempt |-> n, tree |-> tree, test |-> Passed("attempt")],
        verification |->
            [accepted |-> TRUE, tree |-> tree, tested |-> tree,
             test |-> Passed("independent")],
        cleanup |-> TRUE,
        draft |-> [run |-> "other", tree |-> tree,
                   receipts |-> <<Passed("attempt").receipt,
                                  Passed("independent").receipt>>]][kind]

Put(kind, slot, content) == files' = [files EXCEPT ![kind][slot] = content]

Init ==
    /\ pc = "next"
    /\ source \in {"fixture", "deepagents"}
    /\ control = [attempts |-> 0, outcome |-> "RUNNING", digest |-> None,
                  clean |-> FALSE]
    /\ workspace = None /\ candidate = None /\ claim = None
    /\ test = None /\ verification = None
    /\ files = [kind \in Kind |-> [slot \in Slots(kind) |-> None]]
    /\ fixture = 1 /\ verifier = 1
    /\ misplaced = 0
    /\ executions = {}

-----------------------------------------------------------------------------
(***************************************************************************)
(* Faulty variants of definitions below, used by no specification: each is *)
(* a plausible mistake in the code, named before the property that notices *)
(* it.                                                                     *)
(***************************************************************************)
\* DraftRestsOnExecutions: the gate trusts the digests that it read before
\* the verifier ran.
ExpectedRemembered(phase, record, tree) ==
    Body("this", control.attempts, phase, tree, record.patch, claim.fixture,
         claim.verifier)

\* AcceptedRunWasTested: the patch has only to be there.
PatchArtifactExists(record, attempt) ==
    record.name = attempt /\ files["patch"][attempt] # None

\* PublishedRunVerifies: the draft's receipts are compared in the order in
\* which the files were written last.
DraftLinkedBackwards ==
    LET draft == files["draft"][Once]
    IN /\ draft # None
       /\ draft.run = "this"
       /\ draft.tree = control.digest
       /\ draft.receipts = <<files["verification"][Once].test.receipt,
                             files["result"][control.attempts].test.receipt>>

-----------------------------------------------------------------------------
(***************************************************************************)
(* Reading the evidence.                                                   *)
(***************************************************************************)
\* _trusted_verifier_receipt: the receipt of a passed test, if it binds
\* exactly what the reader expects.
TrustedReceipt(packet, body) ==
    IF packet.passed /\ packet.receipt # None /\ packet.receipt.body = body
    THEN packet.receipt
    ELSE None

\* candidate_patch_artifact_issues: there are none.
PatchArtifactMatches(record, attempt) ==
    /\ record.name = attempt
    /\ files["patch"][attempt] # None
    /\ files["patch"][attempt] = record.patch

\* The identities that a reader binds a receipt to; the fixture and the
\* verifier are digested anew.
Expected(phase, record, tree) ==
    Body("this", control.attempts, phase, tree, record.patch, fixture,
         verifier)

GateReceipt(packet, phase) ==
    TrustedReceipt(packet, Expected(phase, candidate, candidate.tree))

\* delivery_eligibility_issues: there are none.
Eligible ==
    /\ PatchArtifactMatches(candidate, control.attempts)
    /\ LET first == GateReceipt(test, "attempt")
           second == GateReceipt(verification.test, "independent")
       IN first # None /\ second # None /\ first.nonce # second.nonce
    /\ verification.accepted
    /\ verification.tree = candidate.tree
    /\ verification.tested = candidate.tree
    /\ control.clean

-----------------------------------------------------------------------------
(***************************************************************************)
(* run_flow.                                                               *)
(***************************************************************************)
\* The next attempt copies the fixture.
StartAttempt ==
    /\ pc = "next" /\ control.attempts < MaxAttempts
    /\ control' = [control EXCEPT !.attempts = @ + 1]
    /\ workspace' = Tree(fixture, None)
    /\ pc' = "propose"
    /\ UNCHANGED <<source, candidate, claim, test, verification, files,
                   trusted, misplaced, executions>>

\* The provider patches the workspace, the controller retains the patch and
\* writes the candidate.
CreateCandidate ==
    /\ pc = "propose"
    /\ \E p \in Patch :
          LET n == control.attempts
              tree == Tree(workspace[1], p)
          IN /\ workspace' = tree
             /\ candidate' = [attempt |-> n, name |-> n, patch |-> p,
                              tree |-> tree]
             /\ files' = [files EXCEPT
                    !["patch"][n] = p,
                    !["candidate"][n] = candidate',
                    !["execution"][n] =
                        IF source = "deepagents"
                        THEN [attempt |-> n, patch |-> p, tree |-> tree]
                        ELSE None]
    /\ pc' = "test"
    /\ UNCHANGED <<source, control, claim, test, verification, trusted,
                   misplaced, executions>>

\* scenario_test and controller_test read the digests of the attempt.
ClaimAttempt ==
    /\ pc = "test"
    /\ claim' = [tree |-> workspace, patch |-> candidate.patch,
                 fixture |-> fixture, verifier |-> verifier]
    /\ pc' = "testing"
    /\ UNCHANGED <<source, control, workspace, candidate, test, verification,
                   files, trusted, misplaced, executions>>

\* independent_verify reads the fixture's digest and the patch's ...
ClaimIndependent ==
    LET p == files["patch"][control.attempts]
    IN /\ pc = "verify"
       /\ p # None
       /\ claim' = [tree |-> None, patch |-> p, fixture |-> fixture,
                    verifier |-> None]
       /\ pc' = "reapply"
       /\ UNCHANGED <<source, control, workspace, candidate, test,
                      verification, files, trusted, misplaced, executions>>

\* ... copies the one, applies the other, and controller_test reads the rest.
Reapply ==
    LET p == files["patch"][control.attempts]
    IN /\ pc = "reapply"
       /\ p # None
       /\ workspace' = Tree(fixture, p)
       /\ claim' = [claim EXCEPT !.tree = workspace', !.verifier = verifier]
       /\ pc' = "verifying"
       /\ UNCHANGED <<source, control, candidate, test, verification, files,
                      trusted, misplaced, executions>>

\* controller_test runs the verifier over the workspace.  When it completes
\* a receipt is issued, although another check of the packet may still fail.
Receipt(phase) ==
    [nonce |-> <<"this", <<control.attempts, phase>>>>,
     body |-> Body("this", control.attempts, phase, claim.tree, claim.patch,
                   claim.fixture, claim.verifier)]

Packets(phase) ==
    [passed : BOOLEAN, receipt : {Receipt(phase)}]
        \cup {[passed |-> FALSE, receipt |-> None]}

Execute(packet) ==
    executions' = IF packet.receipt = None
                  THEN executions
                  ELSE executions \cup {[nonce |-> packet.receipt.nonce,
                                         tree |-> workspace,
                                         verifier |-> verifier]}

TestAttempt ==
    /\ pc = "testing"
    /\ \E packet \in Packets("attempt") :
          /\ Execute(packet)
          /\ test' = packet
          /\ Put("result", control.attempts,
                 [attempt |-> control.attempts, tree |-> candidate.tree,
                  test |-> packet])
          /\ pc' = IF packet.passed THEN "verify" ELSE "next"
    /\ UNCHANGED <<source, control, workspace, candidate, claim, verification,
                   trusted, misplaced>>

\* Accepted is what passed again and is the candidate's tree.
TestIndependent ==
    /\ pc = "verifying"
    /\ \E packet \in Packets("independent") :
          /\ Execute(packet)
          /\ verification' =
                 [accepted |-> packet.passed /\ claim.tree = candidate.tree,
                  tree |-> workspace, tested |-> candidate.tree,
                  test |-> packet]
          /\ Put("verification", Once, verification')
          /\ pc' = IF verification'.accepted THEN "clean" ELSE "next"
    /\ UNCHANGED <<source, control, workspace, candidate, claim, test, trusted,
                   misplaced>>

\* The cleanup before delivery; an incomplete one ends the run.
CleanBeforeDelivery ==
    /\ pc = "clean"
    /\ \E complete \in BOOLEAN :
          /\ Put("cleanup", Once, complete)
          /\ control' = [control EXCEPT
                 !.digest = candidate.tree,
                 !.clean = complete,
                 !.outcome = IF complete THEN @ ELSE "FAILED"]
          /\ pc' = IF complete THEN "gate" ELSE "closeout"
    /\ UNCHANGED <<source, workspace, candidate, claim, test, verification,
                   trusted, misplaced, executions>>

\* The gate, and the verdict.
Authorise ==
    /\ pc = "gate"
    /\ control' = [control EXCEPT
           !.outcome = IF Eligible THEN "SUCCEEDED" ELSE "FAILED"]
    /\ pc' = IF Eligible THEN "publish" ELSE "closeout"
    /\ UNCHANGED <<source, held, files, trusted, misplaced, executions>>

\* mock_publish asks again.
MockPublish ==
    /\ pc = "publish"
    /\ IF Eligible
       THEN /\ Put("draft", Once,
                   [run |-> "this", tree |-> candidate.tree,
                    receipts |-> <<GateReceipt(test, "attempt"),
                        GateReceipt(verification.test, "independent")>>])
            /\ UNCHANGED control
       ELSE /\ control' = [control EXCEPT !.outcome = "FAILED"]
            /\ UNCHANGED files
    /\ pc' = "published"
    /\ UNCHANGED <<source, held, trusted, misplaced, executions>>

\* Any other end: the attempts are exhausted, a provider or a patch is
\* refused, an artifact cannot be read, the deadline passes, Docker fails.
Fail ==
    /\ pc \notin {"closeout", "closed"}
    /\ control' = [control EXCEPT !.outcome = "FAILED"]
    /\ pc' = "closeout"
    /\ UNCHANGED <<source, held, files, trusted, misplaced, executions>>

\* Cleanup may be incomplete, and the unlink of a draft may fail.
Closeout ==
    /\ pc \in {"published", "closeout"}
    /\ \E complete, unlinked \in BOOLEAN :
          /\ control' = [control EXCEPT
                 !.outcome = IF complete THEN @ ELSE "CLEANUP_FAILED"]
          /\ IF unlinked /\ (~complete \/ control.outcome # "SUCCEEDED")
             THEN Put("draft", Once, None)
             ELSE UNCHANGED files
    /\ pc' = "closed"
    /\ UNCHANGED <<source, held, trusted, misplaced, executions>>

-----------------------------------------------------------------------------
(***************************************************************************)
(* Everybody else.                                                         *)
(***************************************************************************)
EditFixture ==
    /\ fixture < MaxVersion
    /\ fixture' = fixture + 1
    /\ UNCHANGED <<pc, source, control, held, files, verifier, misplaced,
                   executions>>

EditVerifier ==
    /\ verifier < MaxVersion
    /\ verifier' = verifier + 1
    /\ UNCHANGED <<pc, source, control, held, files, fixture, misplaced,
                   executions>>

\* An artifact is lost, or gives way to that of another attempt or run.  The
\* live run reads only the patch again; the rest matters when verify_run
\* reads it as the evidence of a success.
Misplace ==
    /\ misplaced < MaxMisplaced
    /\ \E kind \in Kind : \E slot \in Slots(kind) :
          /\ \/ pc \notin {"closeout", "closed"} /\ kind = "patch"
             \/ pc = "closed" /\ control.outcome = "SUCCEEDED"
          /\ files[kind][slot] # None
          /\ \/ Put(kind, slot, None)
             \/ \E other \in Slots(kind) : Put(kind, slot, files[kind][other])
             \/ \E n \in Attempt, p \in Patch :
                   Put(kind, slot, Elsewhere(kind, n, p))
    /\ misplaced' = misplaced + 1
    /\ UNCHANGED <<pc, source, control, held, trusted, executions>>

Controller ==
    \/ StartAttempt \/ CreateCandidate
    \/ ClaimAttempt \/ TestAttempt
    \/ ClaimIndependent \/ Reapply \/ TestIndependent
    \/ CleanBeforeDelivery \/ Authorise \/ MockPublish
    \/ Fail \/ Closeout

Next == Controller \/ EditFixture \/ EditVerifier \/ Misplace

Spec == Init /\ [][Next]_vars

-----------------------------------------------------------------------------
(***************************************************************************)
(* verify_run over the files; control.json is the run's own.  What it says *)
(* of the notification, the closeout and the workspaces is VerifyRun of    *)
(* IncidentController.                                                     *)
(***************************************************************************)
FileReceipt(packet, phase) ==
    TrustedReceipt(packet, Expected(phase,
                                    files["candidate"][control.attempts],
                                    control.digest))

\* verify_trusted_completion_artifacts: there are no issues.
TrustedCompletion ==
    LET n == control.attempts
        result == files["result"][n]
        verdict == files["verification"][Once]
    IN /\ n >= 1
       /\ files["candidate"][n] # None /\ result # None /\ verdict # None
       /\ files["candidate"][n].tree = control.digest
       /\ result.attempt = n /\ result.tree = control.digest
       /\ verdict.accepted
       /\ verdict.tree = control.digest /\ verdict.tested = control.digest
       /\ LET first == FileReceipt(result.test, "attempt")
              second == FileReceipt(verdict.test, "independent")
          IN first # None /\ second # None /\ first.nonce # second.nonce

\* The draft is this run's, and names the receipts of the other files.
DraftLinked ==
    LET draft == files["draft"][Once]
    IN /\ draft # None
       /\ draft.run = "this"
       /\ draft.tree = control.digest
       /\ draft.receipts = <<files["result"][control.attempts].test.receipt,
                             files["verification"][Once].test.receipt>>

\* verify_deepagents_real_model_artifacts: one linked chain of evidence.
RealModelChain ==
    LET n == control.attempts
        record == files["candidate"][n]
        execution == files["execution"][n]
    IN /\ record.attempt = n
       /\ PatchArtifactMatches(record, n)
       /\ record.tree = control.digest
       /\ execution # None
       /\ execution.attempt = n
       /\ execution.patch = record.patch /\ execution.tree = control.digest
       /\ files["result"][n].test.passed
       /\ files["verification"][Once].test.passed

VerifyRun ==
    IF control.outcome = "SUCCEEDED"
    THEN /\ TrustedCompletion
         /\ PatchArtifactMatches(files["candidate"][control.attempts],
                                 control.attempts)
         /\ control.clean /\ files["cleanup"][Once] = TRUE
         /\ DraftLinked
         /\ source = "deepagents" => RealModelChain
    ELSE files["draft"][Once] = None

-----------------------------------------------------------------------------
(***************************************************************************)
(* Properties.                                                             *)
(***************************************************************************)
\* Every variable has its type.
TypeOK ==
    /\ pc \in {"next", "propose", "test", "testing", "verify", "reapply",
               "verifying", "clean", "gate", "publish", "published",
               "closeout", "closed"}
    /\ source \in {"fixture", "deepagents"}
    /\ control \in [attempts : 0..MaxAttempts,
                    outcome : {"RUNNING", "SUCCEEDED", "FAILED",
                               "CLEANUP_FAILED"},
                    digest : TreeType \cup {None}, clean : BOOLEAN]
    /\ workspace \in {None} \cup TreeType \cup (Version \X {None})
    /\ candidate \in CandidateType \cup {None}
    /\ claim \in ClaimType \cup {None}
    /\ test \in TestType \cup {None}
    /\ verification \in VerificationType \cup {None}
    /\ DOMAIN files = Kind
    /\ \A kind \in Kind :
          files[kind] \in [Slots(kind) -> Content[kind] \cup {None}]
    /\ fixture \in Version /\ verifier \in Version
    /\ misplaced \in 0..MaxMisplaced
    /\ executions \subseteq [nonce : NonceType, tree : TreeType,
                             verifier : Version]

\* The execution behind a receipt was of this tree, by this verifier.
Backs(receipt, tree, version) ==
    [nonce |-> receipt.nonce, tree |-> tree, verifier |-> version]
        \in executions

\* Two executions, of the attempt and of the clean re-application, by one
\* verifier, back the receipts of a draft for the patch on one fixture.
Rests(draft, patch) ==
    \E f, v \in Version :
        /\ draft.tree = Tree(f, patch)
        /\ \A i \in 1..2 :
              /\ Backs(draft.receipts[i], draft.tree, v)
              /\ draft.receipts[i].body.fixture = f
              /\ draft.receipts[i].body.verifier = v
              /\ draft.receipts[i].body.patch = patch
        /\ draft.receipts[1].nonce # draft.receipts[2].nonce

\* A draft that mock_publish writes rests on two executions of what it
\* names - although the digests of a receipt are read before the verifier
\* runs and again at the gate, and the fixture, the verifier and the patch
\* may change in between (docs/threat-model.md: "Patch changes after
\* testing").
DraftRestsOnExecutions ==
    [][pc = "publish" /\ pc' = "published" /\ control'.outcome = "SUCCEEDED"
          => Rests(files'["draft"][Once], candidate.patch)]_vars

\* What verify_run accepts as a success is a draft that rests on executions
\* of this run and attempt, by the verifier and on the fixture in force, and
\* the retained patch is the one that was tested - whatever artifacts were
\* lost or replaced by stale ones ("Stale or replayed receipt").
AcceptedRunWasTested ==
    pc = "closed" /\ control.outcome = "SUCCEEDED" /\ VerifyRun =>
        LET draft == files["draft"][Once]
            patch == files["patch"][control.attempts]
        IN /\ Rests(draft, patch)
           /\ draft.tree = Tree(fixture, patch)
           /\ draft.receipts[1].body.verifier = verifier
           /\ \A i \in 1..2 :
                 draft.receipts[i].nonce[2][1] = control.attempts

\* The two readers agree: what the gate let through is what verify_run
\* accepts, for either source, while nobody touches the files and the
\* fixture and the verifier are those the receipts name.
PublishedRunVerifies ==
    /\ pc = "closed" /\ control.outcome = "SUCCEEDED" /\ misplaced = 0
    /\ verification.test.receipt.body.fixture = fixture
    /\ verification.test.receipt.body.verifier = verifier
    => VerifyRun

=============================================================================
