------------------------ MODULE DeliveryEvidenceProofs ------------------------
(***************************************************************************)
(* What a draft of DeliveryEvidence rests on, for any number of attempts,  *)
(* patches, edits and misplaced artifacts.                                 *)
(***************************************************************************)
EXTENDS DeliveryEvidence, TLAPS

-----------------------------------------------------------------------------
(***************************************************************************)
(* Types.                                                                  *)
(***************************************************************************)
ControlType == [attempts : 0..MaxAttempts,
                outcome : {"RUNNING", "SUCCEEDED", "FAILED", "CLEANUP_FAILED"},
                digest : TreeType \cup {None}, clean : BOOLEAN]

FilesOK ==
    /\ DOMAIN files = Kind
    /\ \A kind \in Kind :
          files[kind] \in [Slots(kind) -> Content[kind] \cup {None}]

ExecutionType == [nonce : NonceType, tree : TreeType, verifier : Version]

Place == {"next", "propose", "test", "testing", "verify", "reapply",
          "verifying", "clean", "gate", "publish", "published", "closeout",
          "closed"}

HeldOK ==
    /\ workspace \in {None} \cup TreeType \cup (Version \X {None})
    /\ candidate \in CandidateType \cup {None}
    /\ claim \in ClaimType \cup {None}
    /\ test \in TestType \cup {None}
    /\ verification \in VerificationType \cup {None}

\* What the process holds at each place of run_flow.
HoldsOK ==
    /\ pc \in {"propose", "test", "testing", "verify", "reapply", "verifying",
               "clean", "gate", "publish"} => control.attempts \in Attempt
    /\ pc = "propose" => workspace \in Version \X {None}
    /\ pc \in {"test", "testing", "verify", "reapply", "verifying", "clean",
               "gate", "publish"} => candidate \in CandidateType
    /\ pc \in {"test", "testing", "verifying"} => workspace \in TreeType
    /\ pc \in {"testing", "verifying"} =>
           /\ claim \in ClaimType
           /\ claim.tree = workspace
           /\ claim.verifier \in Version
    /\ pc = "reapply" => claim \in ClaimType
    /\ pc \in {"verify", "reapply", "verifying", "clean", "gate", "publish"} =>
           test \in TestType
    /\ pc \in {"clean", "gate", "publish"} => verification \in VerificationType

Shape == TypeOK /\ HoldsOK

\* TypeOK by the names of its parts.
LEMMA TypeParts ==
    TypeOK <=> /\ pc \in Place /\ source \in {"fixture", "deepagents"}
               /\ control \in ControlType /\ HeldOK /\ FilesOK
               /\ fixture \in Version /\ verifier \in Version
               /\ misplaced \in 0..MaxMisplaced
               /\ executions \subseteq ExecutionType
BY DEF TypeOK, Place, ControlType, HeldOK, FilesOK, ExecutionType

\* Replacing one artifact by one of its kind keeps the types.
LEMMA PutKeeps ==
    ASSUME FilesOK, NEW kind \in Kind, NEW slot \in Slots(kind),
           NEW content \in Content[kind] \cup {None},
           Put(kind, slot, content)
    PROVE  FilesOK'
<1>1. DOMAIN files' = Kind
  BY DEF Put, FilesOK
<1>2. ASSUME NEW k \in Kind
      PROVE  files'[k] \in [Slots(k) -> Content[k] \cup {None}]
  <2>1. files[k] \in [Slots(k) -> Content[k] \cup {None}]
    BY DEF FilesOK
  <2>2. CASE k # kind
    <3>1. files'[k] = files[k]
      BY <2>2 DEF Put, FilesOK
    <3> QED BY <2>1, <3>1
  <2>3. CASE k = kind
    <3>1. files'[k] = [files[k] EXCEPT ![slot] = content]
      BY <2>3 DEF Put, FilesOK
    <3> QED BY <2>1, <2>3, <3>1
  <2> QED BY <2>2, <2>3
<1> QED BY <1>1, <1>2 DEF FilesOK

\* The contents of each kind.
LEMMA ContentOf ==
    /\ Content["candidate"] = CandidateType
    /\ Content["patch"] = Patch
    /\ Content["execution"] =
           [attempt : Attempt, patch : Patch, tree : TreeType]
    /\ Content["result"] = [attempt : Attempt, tree : TreeType, test : TestType]
    /\ Content["verification"] = VerificationType
    /\ Content["cleanup"] = BOOLEAN
    /\ Content["draft"] = [run : {"this", "other"}, tree : TreeType,
                           receipts : ReceiptType \X ReceiptType]
BY DEF Content

\* Which artifacts exist per attempt and which once.
LEMMA SlotsOf ==
    /\ \A kind \in {"candidate", "patch", "execution", "result"} :
           kind \in Kind /\ Slots(kind) = Attempt
    /\ \A kind \in {"verification", "cleanup", "draft"} :
           kind \in Kind /\ Slots(kind) = {Once}
BY DEF Slots, Kind, PerAttempt

\* What is read back has its type.
LEMMA FilesRead ==
    ASSUME FilesOK, NEW n \in Attempt
    PROVE  /\ files["candidate"][n] \in CandidateType \cup {None}
           /\ files["patch"][n] \in Patch \cup {None}
           /\ files["result"][n] \in
                  [attempt : Attempt, tree : TreeType, test : TestType]
                      \cup {None}
           /\ files["verification"][Once] \in VerificationType \cup {None}
           /\ files["draft"][Once] \in
                  [run : {"this", "other"}, tree : TreeType,
                   receipts : ReceiptType \X ReceiptType] \cup {None}
<1>1. ASSUME NEW kind \in Kind, NEW slot \in Slots(kind)
      PROVE  files[kind][slot] \in Content[kind] \cup {None}
  BY DEF FilesOK
<1>2. \A kind \in {"candidate", "patch", "result"} :
        files[kind][n] \in Content[kind] \cup {None}
  BY <1>1, SlotsOf
<1>3. \A kind \in {"verification", "draft"} :
        files[kind][Once] \in Content[kind] \cup {None}
  BY <1>1, SlotsOf
<1>4. /\ files["candidate"][n] \in Content["candidate"] \cup {None}
      /\ files["patch"][n] \in Content["patch"] \cup {None}
      /\ files["result"][n] \in Content["result"] \cup {None}
  BY <1>2
<1>5. /\ files["verification"][Once] \in Content["verification"] \cup {None}
      /\ files["draft"][Once] \in Content["draft"] \cup {None}
  BY <1>3
<1> QED BY <1>4, <1>5, ContentOf

\* Attempts and versions are numbers, and there is a first of each.
LEMMA Numbers ==
    /\ Attempt \subseteq Nat /\ Version \subseteq Nat
    /\ 1 \in Attempt /\ 1 \in Version
BY EvidenceAssumption DEF Attempt, Version

\* An artifact of another run has its type.
LEMMA ElsewhereType ==
    ASSUME NEW kind \in Kind, NEW n \in Attempt, NEW p \in Patch
    PROVE  Elsewhere(kind, n, p) \in Content[kind]
<1> DEFINE Passed(phase) ==
             [passed |-> TRUE,
              receipt |-> [nonce |-> <<"other", <<n, phase>>>>,
                           body |-> Body("other", n, phase, Tree(1, p), p,
                                         1, 1)]]
<1>1. Tree(1, p) \in TreeType
  BY Numbers DEF Tree, TreeType
<1>2. ASSUME NEW phase \in Phase
      PROVE  Passed(phase) \in TestType /\ Passed(phase).receipt \in ReceiptType
  <2>1. <<"other", <<n, phase>>>> \in NonceType
    BY DEF NonceType
  <2>2. Body("other", n, phase, Tree(1, p), p, 1, 1) \in BodyType
    BY <1>1, Numbers DEF Body, BodyType
  <2> QED BY <2>1, <2>2 DEF TestType, ReceiptType
<1>3. {"attempt", "independent"} = Phase
  BY DEF Phase
<1> HIDE DEF Passed
<1>4. CASE kind = "candidate"
  <2>1. Elsewhere(kind, n, p)
          = [attempt |-> n, name |-> n, patch |-> p, tree |-> Tree(1, p)]
    BY <1>4 DEF Elsewhere
  <2> QED BY <1>1, <1>4, <2>1, ContentOf DEF CandidateType
<1>5. CASE kind = "patch"
  BY <1>5, ContentOf DEF Elsewhere
<1>6. CASE kind = "execution"
  <2>1. Elsewhere(kind, n, p)
          = [attempt |-> n, patch |-> p, tree |-> Tree(1, p)]
    BY <1>6 DEF Elsewhere
  <2> QED BY <1>1, <1>6, <2>1, ContentOf
<1>7. CASE kind = "result"
  <2>1. Elsewhere(kind, n, p)
          = [attempt |-> n, tree |-> Tree(1, p), test |-> Passed("attempt")]
    BY <1>7 DEF Elsewhere, Passed
  <2> QED BY <1>1, <1>2, <1>3, <1>7, <2>1, ContentOf
<1>8. CASE kind = "verification"
  <2>1. Elsewhere(kind, n, p)
          = [accepted |-> TRUE, tree |-> Tree(1, p), tested |-> Tree(1, p),
             test |-> Passed("independent")]
    BY <1>8 DEF Elsewhere, Passed
  <2> QED BY <1>1, <1>2, <1>3, <1>8, <2>1, ContentOf DEF VerificationType
<1>9. CASE kind = "cleanup"
  BY <1>9, ContentOf DEF Elsewhere
<1>10. CASE kind = "draft"
  <2>1. Elsewhere(kind, n, p)
          = [run |-> "other", tree |-> Tree(1, p),
             receipts |-> <<Passed("attempt").receipt,
                            Passed("independent").receipt>>]
    BY <1>10 DEF Elsewhere, Passed
  <2> QED BY <1>1, <1>2, <1>3, <1>10, <2>1, ContentOf
<1> QED BY <1>4, <1>5, <1>6, <1>7, <1>8, <1>9, <1>10 DEF Kind

\* Replacing one value of a function.
LEMMA ExceptKeeps ==
    ASSUME NEW D, NEW S, NEW f \in [D -> S], NEW x \in D, NEW v \in S
    PROVE  [f EXCEPT ![x] = v] \in [D -> S]
OBVIOUS

\* What run_flow writes when a provider has answered.
LEMMA CandidateFiles ==
    ASSUME FilesOK, NEW n \in Attempt, NEW p \in Patch,
           NEW c \in CandidateType,
           NEW e \in Content["execution"] \cup {None},
           files' = [files EXCEPT !["patch"][n] = p, !["candidate"][n] = c,
                                  !["execution"][n] = e]
    PROVE  /\ FilesOK'
           /\ files'["patch"] = [files["patch"] EXCEPT ![n] = p]
           /\ files'["candidate"] = [files["candidate"] EXCEPT ![n] = c]
           /\ files'["execution"] = [files["execution"] EXCEPT ![n] = e]
           /\ \A k \in {"result", "verification", "cleanup", "draft"} :
                 files'[k] = files[k]
<1>1. /\ DOMAIN files = Kind
      /\ {"patch", "candidate", "execution", "result", "verification",
          "cleanup", "draft"} \subseteq Kind
  BY DEF FilesOK, Kind
<1>2. /\ DOMAIN files' = Kind
      /\ files'["patch"] = [files["patch"] EXCEPT ![n] = p]
      /\ files'["candidate"] = [files["candidate"] EXCEPT ![n] = c]
      /\ files'["execution"] = [files["execution"] EXCEPT ![n] = e]
      /\ \A k \in {"result", "verification", "cleanup", "draft"} :
            files'[k] = files[k]
  BY <1>1
<1>3. /\ files["patch"] \in [Attempt -> Content["patch"] \cup {None}]
      /\ files["candidate"] \in [Attempt -> Content["candidate"] \cup {None}]
      /\ files["execution"] \in [Attempt -> Content["execution"] \cup {None}]
  BY SlotsOf, <1>1 DEF FilesOK
<1>4. /\ files'["patch"] \in [Attempt -> Content["patch"] \cup {None}]
      /\ files'["candidate"] \in [Attempt -> Content["candidate"] \cup {None}]
      /\ files'["execution"] \in [Attempt -> Content["execution"] \cup {None}]
  <2>1. /\ p \in Content["patch"] \cup {None}
        /\ c \in Content["candidate"] \cup {None}
    BY ContentOf
  <2>2. files'["patch"] \in [Attempt -> Content["patch"] \cup {None}]
    <3>1. [files["patch"] EXCEPT ![n] = p]
            \in [Attempt -> Content["patch"] \cup {None}]
      BY <1>3, <2>1, ExceptKeeps
    <3> QED BY <1>2, <3>1
  <2>3. files'["candidate"] \in [Attempt -> Content["candidate"] \cup {None}]
    <3>1. [files["candidate"] EXCEPT ![n] = c]
            \in [Attempt -> Content["candidate"] \cup {None}]
      BY <1>3, <2>1, ExceptKeeps
    <3> QED BY <1>2, <3>1
  <2>4. files'["execution"] \in [Attempt -> Content["execution"] \cup {None}]
    <3>1. [files["execution"] EXCEPT ![n] = e]
            \in [Attempt -> Content["execution"] \cup {None}]
      BY <1>3, ExceptKeeps
    <3> QED BY <1>2, <3>1
  <2> QED BY <2>2, <2>3, <2>4
<1>5. \A k \in {"result", "verification", "cleanup", "draft"} :
        files'[k] \in [Slots(k) -> Content[k] \cup {None}]
  BY <1>1, <1>2 DEF FilesOK
<1>6. \A k \in Kind : files'[k] \in [Slots(k) -> Content[k] \cup {None}]
  BY <1>4, <1>5, SlotsOf DEF Kind
<1> QED BY <1>2, <1>6 DEF FilesOK

\* The receipt and result of an execution have their types.
LEMMA PacketType ==
    ASSUME NEW phase \in Phase, control.attempts \in Attempt,
           claim \in ClaimType, claim.tree \in TreeType,
           claim.verifier \in Version
    PROVE  /\ Receipt(phase) \in ReceiptType
           /\ Packets(phase) \subseteq TestType
<1>1. <<"this", <<control.attempts, phase>>>> \in NonceType
  BY DEF NonceType
<1>2. claim.patch \in Patch /\ claim.fixture \in Version
  BY DEF ClaimType
<1>3. Body("this", control.attempts, phase, claim.tree, claim.patch,
           claim.fixture, claim.verifier) \in BodyType
  BY <1>2 DEF Body, BodyType
<1>4. Receipt(phase) \in ReceiptType
  BY <1>1, <1>3 DEF Receipt, ReceiptType
<1>5. [passed |-> FALSE, receipt |-> None] \in TestType
  BY DEF TestType
<1>6. [passed : BOOLEAN, receipt : {Receipt(phase)}] \subseteq TestType
  BY <1>4 DEF TestType
<1> QED BY <1>4, <1>5, <1>6 DEF Packets

\* A completed execution has its type.
LEMMA ExecuteType ==
    ASSUME executions \subseteq ExecutionType, workspace \in TreeType,
           verifier \in Version, NEW packet \in TestType, Execute(packet)
    PROVE  executions' \subseteq ExecutionType
<1>1. CASE packet.receipt = None
  BY <1>1 DEF Execute
<1>2. CASE packet.receipt # None
  <2>1. packet.receipt.nonce \in NonceType
    BY <1>2 DEF TestType, ReceiptType
  <2> QED BY <1>2, <2>1 DEF Execute, ExecutionType
<1> QED BY <1>1, <1>2

-----------------------------------------------------------------------------
\* Shape holds in an empty run directory.
LEMMA ShapeInit == Init => Shape
<1> SUFFICES ASSUME Init PROVE Shape
  OBVIOUS
<1>1. FilesOK
  BY DEF Init, FilesOK
<1>2. control \in ControlType
  BY EvidenceAssumption DEF Init, ControlType
<1>3. TypeOK
  BY <1>1, <1>2, TypeParts, Numbers, EvidenceAssumption
     DEF Init, Place, HeldOK
<1>4. HoldsOK
  BY DEF Init, HoldsOK
<1> QED BY <1>3, <1>4 DEF Shape

\* Every action keeps Shape.
LEMMA ShapeNext == Shape /\ [Next]_vars => Shape'
<1> SUFFICES ASSUME Shape, [Next]_vars PROVE Shape'
  OBVIOUS
<1> USE DEF Shape
<1>0. /\ pc \in Place /\ source \in {"fixture", "deepagents"}
      /\ control \in ControlType /\ HeldOK /\ FilesOK
      /\ fixture \in Version /\ verifier \in Version
      /\ misplaced \in 0..MaxMisplaced
      /\ executions \subseteq ExecutionType
      /\ HoldsOK
  BY TypeParts
<1> DEFINE Parts == /\ pc \in Place /\ source \in {"fixture", "deepagents"}
                    /\ control \in ControlType /\ HeldOK /\ FilesOK
                    /\ fixture \in Version /\ verifier \in Version
                    /\ misplaced \in 0..MaxMisplaced
                    /\ executions \subseteq ExecutionType
<1>a. SUFFICES Parts' /\ HoldsOK'
  BY TypeParts, PTL
<1>1. CASE StartAttempt
  <2>1. control' \in ControlType /\ control'.attempts \in Attempt
    BY <1>0, <1>1, EvidenceAssumption DEF StartAttempt, ControlType, Attempt
  <2>2. workspace' \in Version \X {None}
    BY <1>0, <1>1 DEF StartAttempt, Tree
  <2>3. Parts'
    BY <1>0, <1>1, <2>1, <2>2 DEF StartAttempt, Place, HeldOK, FilesOK, trusted
  <2>4. HoldsOK'
    BY <1>1, <2>1, <2>2 DEF StartAttempt, HoldsOK
  <2> QED BY <2>3, <2>4
<1>2. CASE CreateCandidate
  <2>1. PICK p \in Patch :
          /\ workspace' = Tree(workspace[1], p)
          /\ candidate' = [attempt |-> control.attempts,
                           name |-> control.attempts, patch |-> p,
                           tree |-> Tree(workspace[1], p)]
          /\ files' = [files EXCEPT
                 !["patch"][control.attempts] = p,
                 !["candidate"][control.attempts] = candidate',
                 !["execution"][control.attempts] =
                     IF source = "deepagents"
                     THEN [attempt |-> control.attempts, patch |-> p,
                           tree |-> Tree(workspace[1], p)]
                     ELSE None]
    BY <1>2 DEF CreateCandidate
  <2>2. control.attempts \in Attempt /\ workspace \in Version \X {None}
    BY <1>0, <1>2 DEF CreateCandidate, HoldsOK
  <2>3. Tree(workspace[1], p) \in TreeType
    BY <2>2 DEF Tree, TreeType
  <2>4. candidate' \in CandidateType
    BY <2>1, <2>2, <2>3 DEF CandidateType
  <2> DEFINE e == IF source = "deepagents"
                  THEN [attempt |-> control.attempts, patch |-> p,
                        tree |-> Tree(workspace[1], p)]
                  ELSE None
  <2>5. e \in Content["execution"] \cup {None}
    BY <2>2, <2>3, ContentOf
  <2>6. FilesOK'
    <3>1. files' = [files EXCEPT
                      !["patch"][control.attempts] = p,
                      !["candidate"][control.attempts] = candidate',
                      !["execution"][control.attempts] = e]
      BY <2>1
    <3> HIDE DEF e
    <3> QED BY <1>0, <2>2, <2>4, <2>5, <3>1, CandidateFiles
  <2>7. Parts'
    BY <1>0, <1>2, <2>1, <2>3, <2>4, <2>6
       DEF CreateCandidate, Place, HeldOK, trusted
  <2>8. HoldsOK'
    BY <1>0, <1>2, <2>1, <2>2, <2>3, <2>4 DEF CreateCandidate, HoldsOK
  <2> QED BY <2>7, <2>8
<1>3. CASE ClaimAttempt
  <2>1. candidate.patch \in Patch /\ workspace \in TreeType
    BY <1>0, <1>3 DEF ClaimAttempt, HoldsOK, CandidateType
  <2>2. claim' \in ClaimType /\ claim'.tree = workspace
        /\ claim'.verifier \in Version
    BY <1>0, <1>3, <2>1 DEF ClaimAttempt, ClaimType
  <2>3. Parts'
    BY <1>0, <1>3, <2>2 DEF ClaimAttempt, Place, HeldOK, FilesOK, trusted
  <2>4. HoldsOK'
    BY <1>0, <1>3, <2>1, <2>2 DEF ClaimAttempt, HoldsOK
  <2> QED BY <2>3, <2>4
<1>4. CASE TestAttempt
  <2>1. PICK packet \in Packets("attempt") :
          /\ Execute(packet) /\ test' = packet
          /\ Put("result", control.attempts,
                 [attempt |-> control.attempts, tree |-> candidate.tree,
                  test |-> packet])
          /\ pc' = IF packet.passed THEN "verify" ELSE "next"
    BY <1>4 DEF TestAttempt
  <2>2. /\ control.attempts \in Attempt /\ candidate \in CandidateType
        /\ workspace \in TreeType /\ claim \in ClaimType
        /\ claim.tree = workspace /\ claim.verifier \in Version
    BY <1>0, <1>4 DEF TestAttempt, HoldsOK
  <2>3. packet \in TestType
    BY <2>1, <2>2, PacketType DEF Phase
  <2>4. [attempt |-> control.attempts, tree |-> candidate.tree,
         test |-> packet] \in Content["result"] \cup {None}
    BY <2>2, <2>3, ContentOf DEF CandidateType
  <2>5. FilesOK'
    BY <1>0, <2>1, <2>2, <2>4, PutKeeps, SlotsOf
  <2>6. executions' \subseteq ExecutionType
    BY <1>0, <2>1, <2>2, <2>3, ExecuteType
  <2>7. Parts'
    BY <1>0, <1>4, <2>1, <2>3, <2>5, <2>6
       DEF TestAttempt, Place, HeldOK, trusted
  <2>8. HoldsOK'
    BY <1>4, <2>1, <2>2, <2>3 DEF TestAttempt, HoldsOK
  <2> QED BY <2>7, <2>8
<1>5. CASE ClaimIndependent
  <2>1. control.attempts \in Attempt
    BY <1>0, <1>5 DEF ClaimIndependent, HoldsOK
  <2>2. files["patch"][control.attempts] \in Patch
    BY <1>0, <1>5, <2>1, FilesRead DEF ClaimIndependent
  <2>3. claim' \in ClaimType
    BY <1>0, <1>5, <2>2 DEF ClaimIndependent, ClaimType
  <2>4. Parts'
    BY <1>0, <1>5, <2>3 DEF ClaimIndependent, Place, HeldOK, FilesOK, trusted
  <2>5. HoldsOK'
    BY <1>0, <1>5, <2>1, <2>3 DEF ClaimIndependent, HoldsOK
  <2> QED BY <2>4, <2>5
<1>6. CASE Reapply
  <2>1. control.attempts \in Attempt /\ claim \in ClaimType
    BY <1>0, <1>6 DEF Reapply, HoldsOK
  <2>2. files["patch"][control.attempts] \in Patch
    BY <1>0, <1>6, <2>1, FilesRead DEF Reapply
  <2>3. workspace' \in TreeType
    BY <1>0, <1>6, <2>2 DEF Reapply, Tree, TreeType
  <2>4. claim' \in ClaimType /\ claim'.tree = workspace'
        /\ claim'.verifier \in Version
    BY <1>0, <1>6, <2>1, <2>3 DEF Reapply, ClaimType
  <2>5. Parts'
    BY <1>0, <1>6, <2>3, <2>4 DEF Reapply, Place, HeldOK, FilesOK, trusted
  <2>6. HoldsOK'
    BY <1>0, <1>6, <2>1, <2>3, <2>4 DEF Reapply, HoldsOK
  <2> QED BY <2>5, <2>6
<1>7. CASE TestIndependent
  <2>1. PICK packet \in Packets("independent") :
          /\ Execute(packet)
          /\ verification' =
                 [accepted |-> packet.passed /\ claim.tree = candidate.tree,
                  tree |-> workspace, tested |-> candidate.tree,
                  test |-> packet]
          /\ Put("verification", Once, verification')
          /\ pc' = IF verification'.accepted THEN "clean" ELSE "next"
    BY <1>7 DEF TestIndependent
  <2>2. /\ control.attempts \in Attempt /\ candidate \in CandidateType
        /\ workspace \in TreeType /\ claim \in ClaimType
        /\ claim.tree = workspace /\ claim.verifier \in Version
        /\ test \in TestType
    BY <1>0, <1>7 DEF TestIndependent, HoldsOK
  <2>3. packet \in TestType
    BY <2>1, <2>2, PacketType DEF Phase
  <2>4. verification' \in VerificationType
    <3>1. (packet.passed /\ claim.tree = candidate.tree) \in BOOLEAN
      BY <2>3 DEF TestType
    <3> QED BY <2>1, <2>2, <2>3, <3>1 DEF VerificationType, CandidateType
  <2>5. FilesOK'
    BY <1>0, <2>1, <2>4, PutKeeps, SlotsOf, ContentOf
  <2>6. executions' \subseteq ExecutionType
    BY <1>0, <2>1, <2>2, <2>3, ExecuteType
  <2>7. pc' \in {"clean", "next"}
    BY <2>1
  <2>8. Parts'
    BY <1>0, <1>7, <2>4, <2>5, <2>6, <2>7
       DEF TestIndependent, Place, HeldOK, trusted
  <2>9. HoldsOK'
    BY <1>7, <2>2, <2>4, <2>7 DEF TestIndependent, HoldsOK
  <2> QED BY <2>8, <2>9
<1>8. CASE CleanBeforeDelivery
  <2>1. PICK complete \in BOOLEAN :
          /\ Put("cleanup", Once, complete)
          /\ control' = [control EXCEPT
                 !.digest = candidate.tree, !.clean = complete,
                 !.outcome = IF complete THEN @ ELSE "FAILED"]
          /\ pc' = IF complete THEN "gate" ELSE "closeout"
    BY <1>8 DEF CleanBeforeDelivery
  <2>2. candidate \in CandidateType
    BY <1>0, <1>8 DEF CleanBeforeDelivery, HoldsOK
  <2>3. control' \in ControlType /\ control'.attempts = control.attempts
    BY <1>0, <2>1, <2>2 DEF ControlType, CandidateType
  <2>4. FilesOK'
    BY <1>0, <2>1, PutKeeps, SlotsOf, ContentOf
  <2>5. Parts'
    BY <1>0, <1>8, <2>1, <2>3, <2>4
       DEF CleanBeforeDelivery, Place, HeldOK, trusted
  <2>6. HoldsOK'
    BY <1>0, <1>8, <2>1, <2>3 DEF CleanBeforeDelivery, HoldsOK
  <2> QED BY <2>5, <2>6
<1>9. CASE Authorise
  <2>1. control' \in ControlType /\ control'.attempts = control.attempts
    BY <1>0, <1>9 DEF Authorise, ControlType
  <2>2. Parts'
    BY <1>0, <1>9, <2>1 DEF Authorise, Place, HeldOK, FilesOK, trusted, held
  <2>3. HoldsOK'
    BY <1>0, <1>9, <2>1 DEF Authorise, HoldsOK, held
  <2> QED BY <2>2, <2>3
<1>10. CASE MockPublish
  <2>1. /\ control.attempts \in Attempt /\ candidate \in CandidateType
        /\ test \in TestType /\ verification \in VerificationType
    BY <1>0, <1>10 DEF MockPublish, HoldsOK
  <2>2. control' \in ControlType
    BY <1>0, <1>10 DEF MockPublish, ControlType
  <2>3. FilesOK'
    <3>1. CASE ~Eligible
      BY <1>0, <1>10, <3>1 DEF MockPublish, FilesOK
    <3>2. CASE Eligible
      <4>1. /\ GateReceipt(test, "attempt") # None
            /\ GateReceipt(verification.test, "independent") # None
        BY <3>2 DEF Eligible
      <4>2. /\ GateReceipt(test, "attempt") \in ReceiptType
            /\ GateReceipt(verification.test, "independent") \in ReceiptType
        BY <2>1, <4>1
           DEF GateReceipt, TrustedReceipt, TestType, VerificationType
      <4>3. [run |-> "this", tree |-> candidate.tree,
             receipts |-> <<GateReceipt(test, "attempt"),
                 GateReceipt(verification.test, "independent")>>]
              \in Content["draft"] \cup {None}
        BY <2>1, <4>2, ContentOf DEF CandidateType
      <4>4. Put("draft", Once,
                [run |-> "this", tree |-> candidate.tree,
                 receipts |-> <<GateReceipt(test, "attempt"),
                     GateReceipt(verification.test, "independent")>>])
        BY <1>10, <3>2 DEF MockPublish
      <4> QED BY <1>0, <4>3, <4>4, PutKeeps, SlotsOf
    <3> QED BY <3>1, <3>2
  <2>4. Parts'
    BY <1>0, <1>10, <2>2, <2>3 DEF MockPublish, Place, HeldOK, trusted, held
  <2>5. HoldsOK'
    BY <1>10 DEF MockPublish, HoldsOK
  <2> QED BY <2>4, <2>5
<1>11. CASE Fail
  <2>1. control' \in ControlType
    BY <1>0, <1>11 DEF Fail, ControlType
  <2>2. Parts'
    BY <1>0, <1>11, <2>1 DEF Fail, Place, HeldOK, FilesOK, trusted, held
  <2>3. HoldsOK'
    BY <1>11 DEF Fail, HoldsOK
  <2> QED BY <2>2, <2>3
<1>12. CASE Closeout
  <2>1. control' \in ControlType
    BY <1>0, <1>12 DEF Closeout, ControlType
  <2>2. FilesOK'
    <3>1. CASE Put("draft", Once, None)
      BY <1>0, <3>1, PutKeeps, SlotsOf
    <3>2. CASE UNCHANGED files
      BY <1>0, <3>2 DEF FilesOK
    <3> QED BY <1>12, <3>1, <3>2 DEF Closeout
  <2>3. Parts'
    BY <1>0, <1>12, <2>1, <2>2 DEF Closeout, Place, HeldOK, trusted, held
  <2>4. HoldsOK'
    BY <1>12 DEF Closeout, HoldsOK
  <2> QED BY <2>3, <2>4
<1>13. CASE EditFixture
  <2>1. fixture' \in Version
    BY <1>0, <1>13, EvidenceAssumption DEF EditFixture, Version
  <2>2. Parts'
    BY <1>0, <1>13, <2>1 DEF EditFixture, HeldOK, FilesOK, held
  <2>3. HoldsOK'
    BY <1>0, <1>13 DEF EditFixture, HoldsOK, held
  <2> QED BY <2>2, <2>3
<1>14. CASE EditVerifier
  <2>1. verifier' \in Version
    BY <1>0, <1>14, EvidenceAssumption DEF EditVerifier, Version
  <2>2. Parts'
    BY <1>0, <1>14, <2>1 DEF EditVerifier, HeldOK, FilesOK, held
  <2>3. HoldsOK'
    BY <1>0, <1>14 DEF EditVerifier, HoldsOK, held
  <2> QED BY <2>2, <2>3
<1>15. CASE Misplace
  <2>0. PICK kind \in Kind :
          \E slot \in Slots(kind) :
             /\ files[kind][slot] # None
             /\ \/ Put(kind, slot, None)
                \/ \E other \in Slots(kind) :
                      Put(kind, slot, files[kind][other])
                \/ \E n \in Attempt, p \in Patch :
                      Put(kind, slot, Elsewhere(kind, n, p))
    BY <1>15 DEF Misplace
  <2>1. PICK slot \in Slots(kind) :
          /\ files[kind][slot] # None
          /\ \/ Put(kind, slot, None)
             \/ \E other \in Slots(kind) : Put(kind, slot, files[kind][other])
             \/ \E n \in Attempt, p \in Patch :
                   Put(kind, slot, Elsewhere(kind, n, p))
    BY <2>0
  <2>2. FilesOK'
    <3>1. CASE Put(kind, slot, None)
      BY <1>0, <3>1, PutKeeps
    <3>2. ASSUME NEW other \in Slots(kind), Put(kind, slot, files[kind][other])
          PROVE  FilesOK'
      <4>1. files[kind][other] \in Content[kind] \cup {None}
        BY <1>0 DEF FilesOK
      <4> QED BY <1>0, <3>2, <4>1, PutKeeps
    <3>3. ASSUME NEW n \in Attempt, NEW p \in Patch,
                 Put(kind, slot, Elsewhere(kind, n, p))
          PROVE  FilesOK'
      BY <1>0, <3>3, PutKeeps, ElsewhereType
    <3> QED BY <2>1, <3>1, <3>2, <3>3
  <2>3. misplaced' \in 0..MaxMisplaced
    BY <1>0, <1>15, EvidenceAssumption DEF Misplace
  <2>4. Parts'
    BY <1>0, <1>15, <2>2, <2>3 DEF Misplace, HeldOK, trusted, held
  <2>5. HoldsOK'
    BY <1>0, <1>15 DEF Misplace, HoldsOK, held
  <2> QED BY <2>4, <2>5
<1>16. CASE UNCHANGED vars
  <2>1. Parts'
    BY <1>0, <1>16 DEF vars, HeldOK, FilesOK, trusted, held
  <2>2. HoldsOK'
    BY <1>0, <1>16 DEF vars, HoldsOK, held
  <2> QED BY <2>1, <2>2
<1> QED BY <1>1, <1>2, <1>3, <1>4, <1>5, <1>6, <1>7, <1>8, <1>9, <1>10,
           <1>11, <1>12, <1>13, <1>14, <1>15, <1>16 DEF Next, Controller

\* Every variable keeps its type, for any number of attempts and edits.
THEOREM TypeCorrect == Spec => []TypeOK
<1>1. Spec => []Shape
  BY ShapeInit, ShapeNext, PTL DEF Spec
<1>2. Shape => TypeOK
  BY DEF Shape
<1> QED BY <1>1, <1>2, PTL

-----------------------------------------------------------------------------
(***************************************************************************)
(* A receipt of this run tells of a completed execution.  Its digests were *)
(* read before the execution; a re-application, whose fixture was read     *)
(* earlier still, may have copied a later one.                             *)
(***************************************************************************)
Backed(receipt, done, f, v) ==
    LET body == receipt.body
    IN body.run = "this" =>
           /\ receipt.nonce = <<"this", <<body.attempt, body.phase>>>>
           /\ \E execution \in done :
                 /\ execution.nonce = receipt.nonce
                 /\ execution.tree = body.tree
                 /\ body.verifier <= execution.verifier
                 /\ execution.verifier <= v
           /\ body.phase = "attempt" => body.tree[2] = body.patch
           /\ body.phase = "independent" =>
                 body.fixture <= body.tree[1] /\ body.tree[1] <= f

Tested(packet, done, f, v) ==
    packet.receipt # None => Backed(packet.receipt, done, f, v)

\* Every receipt that is held or filed is backed.
AfterTest == {"verify", "reapply", "verifying", "clean", "gate", "publish"}
AfterVerdict == {"clean", "gate", "publish"}

ReceiptsSound ==
    /\ pc \in AfterTest => Tested(test, executions, fixture, verifier)
    /\ pc \in AfterVerdict =>
           Tested(verification.test, executions, fixture, verifier)
    /\ \A n \in Attempt : files["result"][n] # None =>
           Tested(files["result"][n].test, executions, fixture, verifier)
    /\ files["verification"][Once] # None =>
           Tested(files["verification"][Once].test, executions, fixture,
                  verifier)

\* The claims for the next receipt hold of what will be executed.
ClaimsSound ==
    /\ pc \in {"test", "testing", "verify", "reapply", "verifying", "clean",
               "gate", "publish"} => candidate.tree[2] = candidate.patch
    /\ pc \in {"test", "testing"} => workspace = candidate.tree
    /\ pc = "testing" => claim.patch = candidate.patch
    /\ pc \in {"testing", "verifying"} => claim.verifier <= verifier
    /\ pc = "reapply" => claim.fixture <= fixture
    /\ pc = "verifying" =>
           claim.fixture <= claim.tree[1] /\ claim.tree[1] <= fixture

Sound == Shape /\ ReceiptsSound /\ ClaimsSound

\* What was executed stays executed, and edits only count upwards.
LEMMA Grows ==
    ASSUME Shape, [Next]_vars
    PROVE  /\ executions \subseteq executions'
           /\ fixture \in Nat /\ fixture' \in Nat /\ fixture <= fixture'
           /\ verifier \in Nat /\ verifier' \in Nat /\ verifier <= verifier'
<1>1. /\ fixture \in Nat /\ verifier \in Nat
      /\ fixture' \in Nat /\ verifier' \in Nat
  <2>1. Shape'
    BY ShapeNext
  <2>2. /\ fixture \in Version /\ verifier \in Version
        /\ fixture' \in Version /\ verifier' \in Version
    BY <2>1 DEF Shape, TypeOK
  <2> QED BY <2>2, Numbers
<1>2. CASE EditFixture
  BY <1>1, <1>2 DEF EditFixture
<1>3. CASE EditVerifier
  BY <1>1, <1>3 DEF EditVerifier
<1>4. CASE TestAttempt \/ TestIndependent
  <2>1. PICK packet : Execute(packet)
    BY <1>4 DEF TestAttempt, TestIndependent
  <2>2. executions \subseteq executions'
    BY <2>1 DEF Execute
  <2>3. fixture' = fixture /\ verifier' = verifier
    BY <1>4 DEF TestAttempt, TestIndependent, trusted
  <2> QED BY <1>1, <2>2, <2>3
<1>5. CASE UNCHANGED <<trusted, executions>>
  BY <1>1, <1>5 DEF trusted
<1>6. CASE Controller /\ ~(TestAttempt \/ TestIndependent)
  BY <1>5, <1>6 DEF Controller, StartAttempt, CreateCandidate, ClaimAttempt,
     ClaimIndependent, Reapply, CleanBeforeDelivery, Authorise, MockPublish,
     Fail, Closeout
<1>7. CASE Misplace \/ UNCHANGED vars
  BY <1>5, <1>7 DEF Misplace, vars
<1> QED BY <1>2, <1>3, <1>4, <1>6, <1>7 DEF Next

\* So a backed receipt stays backed.
LEMMA BackedStays ==
    ASSUME NEW packet \in TestType,
           NEW done, NEW more,
           done \subseteq more, done \subseteq ExecutionType,
           NEW f \in Nat, NEW g \in Nat, f <= g,
           NEW v \in Nat, NEW w \in Nat, v <= w,
           Tested(packet, done, f, v)
    PROVE  Tested(packet, more, g, w)
<1>1. SUFFICES ASSUME packet.receipt # None, packet.receipt.body.run = "this"
               PROVE  Backed(packet.receipt, more, g, w)
  BY DEF Tested, Backed
<1> DEFINE receipt == packet.receipt
           body == packet.receipt.body
<1>2. receipt \in ReceiptType
  BY <1>1 DEF TestType
<1>3. body \in BodyType
  BY <1>2 DEF ReceiptType
<1>4. body.tree[1] \in Nat /\ body.fixture \in Nat /\ body.verifier \in Nat
  BY <1>3, Numbers DEF BodyType, TreeType
<1>5. Backed(receipt, done, f, v)
  BY <1>1 DEF Tested
<1>6. PICK execution \in done :
        /\ execution.nonce = receipt.nonce
        /\ execution.tree = body.tree
        /\ body.verifier <= execution.verifier
        /\ execution.verifier <= v
  BY <1>1, <1>5 DEF Backed
<1>7. execution.verifier \in Nat
  BY <1>6, Numbers DEF ExecutionType
<1>8. \E e \in more : /\ e.nonce = receipt.nonce /\ e.tree = body.tree
                      /\ body.verifier <= e.verifier /\ e.verifier <= w
  <2>1. execution.verifier <= w
    BY <1>6, <1>7
  <2> QED BY <1>6, <2>1
<1>9. body.phase = "independent" =>
        body.fixture <= body.tree[1] /\ body.tree[1] <= g
  BY <1>1, <1>4, <1>5 DEF Backed
<1> QED BY <1>1, <1>5, <1>8, <1>9 DEF Backed

\* The receipts that were there stay backed in every step.
LEMMA ReceiptsStay ==
    ASSUME Shape, ReceiptsSound, [Next]_vars
    PROVE  /\ pc \in AfterTest =>
                  Tested(test, executions', fixture', verifier')
           /\ pc \in AfterVerdict =>
                  Tested(verification.test, executions', fixture', verifier')
           /\ \A n \in Attempt : files["result"][n] # None =>
                  Tested(files["result"][n].test, executions', fixture',
                         verifier')
           /\ files["verification"][Once] # None =>
                  Tested(files["verification"][Once].test, executions',
                         fixture', verifier')
<1>1. ASSUME NEW packet \in TestType,
             Tested(packet, executions, fixture, verifier)
      PROVE  Tested(packet, executions', fixture', verifier')
  <2>1. executions \subseteq ExecutionType
    BY TypeParts DEF Shape
  <2> QED BY <1>1, <2>1, Grows, BackedStays
<1>2. HoldsOK /\ FilesOK
  BY TypeParts DEF Shape
<1>3. pc \in AfterTest => Tested(test, executions', fixture', verifier')
  BY <1>1, <1>2 DEF HoldsOK, ReceiptsSound, AfterTest
<1>4. pc \in AfterVerdict =>
        Tested(verification.test, executions', fixture', verifier')
  BY <1>1, <1>2 DEF HoldsOK, ReceiptsSound, AfterVerdict, VerificationType
<1>5. ASSUME NEW n \in Attempt, files["result"][n] # None
      PROVE  Tested(files["result"][n].test, executions', fixture', verifier')
  <2>1. files["result"][n].test \in TestType
    BY <1>2, <1>5, FilesRead
  <2> QED BY <1>1, <1>5, <2>1 DEF ReceiptsSound
<1>6. ASSUME files["verification"][Once] # None
      PROVE  Tested(files["verification"][Once].test, executions', fixture',
                    verifier')
  <2>1. files["verification"][Once].test \in TestType
    BY <1>2, <1>6, FilesRead, Numbers DEF VerificationType
  <2> QED BY <1>1, <1>6, <2>1 DEF ReceiptsSound
<1> QED BY <1>3, <1>4, <1>5, <1>6

\* A completed execution backs the receipt that is issued for it.
LEMMA NewReceipt ==
    ASSUME NEW phase \in Phase, NEW packet \in Packets(phase), Shape,
           control.attempts \in Attempt, claim \in ClaimType,
           workspace \in TreeType, claim.tree = workspace,
           claim.verifier \in Version, claim.verifier <= verifier,
           phase = "attempt" => claim.tree[2] = claim.patch,
           phase = "independent" =>
               claim.fixture <= claim.tree[1] /\ claim.tree[1] <= fixture,
           Execute(packet)
    PROVE  Tested(packet, executions', fixture, verifier)
<1>1. SUFFICES ASSUME packet.receipt # None
               PROVE  Backed(packet.receipt, executions', fixture, verifier)
  BY DEF Tested
<1>2. packet.receipt = Receipt(phase)
  BY <1>1 DEF Packets
<1>3. /\ packet.receipt.nonce = <<"this", <<control.attempts, phase>>>>
      /\ packet.receipt.body.run = "this"
      /\ packet.receipt.body.attempt = control.attempts
      /\ packet.receipt.body.phase = phase
      /\ packet.receipt.body.tree = claim.tree
      /\ packet.receipt.body.patch = claim.patch
      /\ packet.receipt.body.fixture = claim.fixture
      /\ packet.receipt.body.verifier = claim.verifier
  BY <1>2 DEF Receipt, Body
<1> DEFINE e == [nonce |-> packet.receipt.nonce, tree |-> workspace,
                 verifier |-> verifier]
<1>4. e \in executions'
  BY <1>1 DEF Execute
<1>5. verifier <= verifier
  BY Numbers DEF Shape, TypeOK
<1>6. \E x \in executions' :
        /\ x.nonce = packet.receipt.nonce
        /\ x.tree = packet.receipt.body.tree
        /\ packet.receipt.body.verifier <= x.verifier
        /\ x.verifier <= verifier
  BY <1>3, <1>4, <1>5
<1> QED BY <1>3, <1>6 DEF Backed

\* Nothing is claimed at first.
LEMMA SoundInit == Init => Sound
<1> SUFFICES ASSUME Init PROVE Sound
  OBVIOUS
<1>1. ClaimsSound
  BY DEF Init, ClaimsSound
<1>2. \A n \in Attempt : files["result"][n] = None
  BY DEF Init, Kind, Slots, PerAttempt
<1>3. files["verification"][Once] = None
  BY DEF Init, Kind, Slots, PerAttempt
<1>4. ReceiptsSound
  BY <1>2, <1>3 DEF Init, ReceiptsSound, AfterTest, AfterVerdict
<1> QED BY <1>1, <1>4, ShapeInit DEF Sound

\* The claims hold again after every step.
LEMMA ClaimsNext == Sound /\ [Next]_vars => ClaimsSound'
<1> SUFFICES ASSUME Sound, [Next]_vars PROVE ClaimsSound'
  OBVIOUS
<1>0. /\ pc \in Place /\ FilesOK /\ HeldOK /\ HoldsOK /\ ClaimsSound
      /\ fixture \in Nat /\ fixture' \in Nat /\ fixture <= fixture'
      /\ verifier \in Nat /\ verifier' \in Nat /\ verifier <= verifier'
  BY TypeParts, Grows DEF Sound, Shape
<1>1. CASE StartAttempt
  BY <1>0, <1>1 DEF StartAttempt, ClaimsSound, trusted
<1>2. CASE CreateCandidate
  BY <1>0, <1>2 DEF CreateCandidate, ClaimsSound, Tree
<1>3. CASE ClaimAttempt
  BY <1>0, <1>3 DEF ClaimAttempt, ClaimsSound, trusted
<1>4. CASE TestAttempt
  BY <1>0, <1>4 DEF TestAttempt, ClaimsSound, trusted
<1>5. CASE ClaimIndependent
  BY <1>0, <1>5 DEF ClaimIndependent, ClaimsSound, trusted
<1>6. CASE Reapply
  <2>1. /\ claim \in ClaimType /\ claim.fixture <= fixture
        /\ candidate.tree[2] = candidate.patch
    BY <1>0, <1>6 DEF Reapply, HoldsOK, ClaimsSound
  <2>2. /\ claim'.fixture = claim.fixture /\ claim'.tree[1] = fixture
        /\ claim'.verifier = verifier
    BY <2>1, <1>6 DEF Reapply, Tree, ClaimType
  <2> QED BY <1>0, <1>6, <2>1, <2>2 DEF Reapply, ClaimsSound, trusted
<1>7. CASE TestIndependent
  BY <1>0, <1>7 DEF TestIndependent, ClaimsSound, trusted
<1>8. CASE CleanBeforeDelivery
  BY <1>0, <1>8 DEF CleanBeforeDelivery, ClaimsSound, trusted
<1>9. CASE Authorise
  BY <1>0, <1>9 DEF Authorise, ClaimsSound, held, trusted
<1>10. CASE MockPublish \/ Fail \/ Closeout
  BY <1>10 DEF MockPublish, Fail, Closeout, ClaimsSound
<1>11. CASE EditFixture \/ EditVerifier \/ Misplace \/ UNCHANGED vars
  <2>1. UNCHANGED <<pc, held>>
    BY <1>11 DEF EditFixture, EditVerifier, Misplace, vars
  <2>2. pc \in {"reapply", "verifying"} =>
          claim.fixture \in Nat /\ claim.fixture <= fixture'
    <3>1. ASSUME pc \in {"reapply", "verifying"} PROVE claim \in ClaimType
      BY <1>0, <3>1 DEF HoldsOK
    <3>2. ASSUME pc \in {"reapply", "verifying"}
          PROVE  claim.fixture \in Nat
      BY <3>1, <3>2, Numbers DEF ClaimType
    <3>3. ASSUME pc = "verifying"
          PROVE  claim.fixture <= fixture
      <4>1. claim.tree[1] \in Nat
        BY <1>0, <3>3, Numbers DEF HoldsOK, TreeType
      <4> QED BY <1>0, <3>2, <3>3, <4>1 DEF ClaimsSound
    <3> QED BY <1>0, <3>2, <3>3 DEF ClaimsSound
  <2>3. pc = "verifying" => claim.tree[1] <= fixture'
    <3>1. SUFFICES ASSUME pc = "verifying" PROVE claim.tree[1] <= fixture'
      OBVIOUS
    <3>2. claim.tree[1] \in Nat
      BY <1>0, <3>1, Numbers DEF HoldsOK, TreeType
    <3> QED BY <1>0, <3>1, <3>2 DEF ClaimsSound
  <2>4. pc \in {"testing", "verifying"} => claim.verifier <= verifier'
    <3>1. SUFFICES ASSUME pc \in {"testing", "verifying"}
                   PROVE  claim.verifier <= verifier'
      OBVIOUS
    <3>2. claim.verifier \in Nat
      BY <1>0, <3>1, Numbers DEF HoldsOK
    <3> QED BY <1>0, <3>1, <3>2 DEF ClaimsSound
  <2> QED BY <1>0, <2>1, <2>2, <2>3, <2>4 DEF ClaimsSound, held
<1> QED BY <1>1, <1>2, <1>3, <1>4, <1>5, <1>6, <1>7, <1>8, <1>9, <1>10,
           <1>11 DEF Next, Controller

\* The receipts are backed again after every step.
LEMMA ReceiptsNext == Sound /\ [Next]_vars => ReceiptsSound'
<1> SUFFICES ASSUME Sound, [Next]_vars PROVE ReceiptsSound'
  OBVIOUS
<1>0. /\ pc \in Place /\ FilesOK /\ HeldOK /\ HoldsOK /\ ClaimsSound
      /\ ReceiptsSound /\ Shape
  BY TypeParts DEF Sound, Shape
<1> DEFINE Fine(packet) == Tested(packet, executions', fixture', verifier')
<1>1. /\ pc \in AfterTest => Fine(test)
      /\ pc \in AfterVerdict => Fine(verification.test)
      /\ \A n \in Attempt : files["result"][n] # None =>
            Fine(files["result"][n].test)
      /\ files["verification"][Once] # None =>
            Fine(files["verification"][Once].test)
  BY <1>0, ReceiptsStay
<1> DEFINE Goal == /\ pc' \in AfterTest => Fine(test')
                   /\ pc' \in AfterVerdict => Fine(verification'.test)
                   /\ \A n \in Attempt : files'["result"][n] # None =>
                         Fine(files'["result"][n].test)
                   /\ files'["verification"][Once] # None =>
                         Fine(files'["verification"][Once].test)
<1>2. SUFFICES Goal
  BY DEF ReceiptsSound
<1> HIDE DEF Fine
<1>3. ASSUME UNCHANGED <<test, verification>>,
             pc' \in AfterTest => pc \in AfterTest,
             pc' \in AfterVerdict => pc \in AfterVerdict,
             files'["result"] = files["result"],
             files'["verification"] = files["verification"]
      PROVE  Goal
  BY <1>1, <1>3
<1>4. ASSUME NEW kind \in Kind \ {"result", "verification"}, NEW slot,
             NEW content, Put(kind, slot, content)
      PROVE  /\ files'["result"] = files["result"]
             /\ files'["verification"] = files["verification"]
  BY <1>0, <1>4 DEF Put, FilesOK, Kind
<1>5. CASE StartAttempt \/ ClaimAttempt \/ ClaimIndependent \/ Reapply
             \/ Authorise \/ Fail \/ EditFixture \/ EditVerifier
             \/ UNCHANGED vars
  BY <1>3, <1>5 DEF StartAttempt, ClaimAttempt, ClaimIndependent, Reapply,
     Authorise, Fail, EditFixture, EditVerifier, vars, held, AfterTest,
     AfterVerdict
<1>6. CASE CreateCandidate
  <2>1. /\ files'["result"] = files["result"]
        /\ files'["verification"] = files["verification"]
    BY <1>0, <1>6 DEF CreateCandidate, FilesOK, Kind
  <2> QED BY <1>3, <1>6, <2>1 DEF CreateCandidate, AfterTest, AfterVerdict
<1>7. CASE TestAttempt
  <2>1. PICK packet \in Packets("attempt") :
          /\ Execute(packet) /\ test' = packet
          /\ Put("result", control.attempts,
                 [attempt |-> control.attempts, tree |-> candidate.tree,
                  test |-> packet])
    BY <1>7 DEF TestAttempt
  <2>2. /\ control.attempts \in Attempt /\ workspace \in TreeType
        /\ claim \in ClaimType /\ claim.tree = workspace
        /\ claim.verifier \in Version /\ claim.verifier <= verifier
        /\ claim.tree[2] = claim.patch
    BY <1>0, <1>7 DEF TestAttempt, HoldsOK, ClaimsSound
  <2>3. Tested(packet, executions', fixture, verifier)
    BY <1>0, <2>1, <2>2, NewReceipt DEF Phase
  <2>4. Fine(packet)
    BY <1>7, <2>3 DEF Fine, TestAttempt, trusted
  <2>5. ASSUME NEW n \in Attempt, files'["result"][n] # None
        PROVE  Fine(files'["result"][n].test)
    <3>1. files["result"] \in [Attempt -> Content["result"] \cup {None}]
      BY <1>0, SlotsOf DEF FilesOK
    <3>2. files'["result"] =
            [files["result"] EXCEPT ![control.attempts] =
                [attempt |-> control.attempts, tree |-> candidate.tree,
                 test |-> packet]]
      BY <1>0, <2>1 DEF Put, FilesOK, Kind
    <3>3. CASE n = control.attempts
      <4>1. files'["result"][n].test = packet
        BY <3>1, <3>2, <3>3
      <4> QED BY <2>4, <4>1
    <3>4. CASE n # control.attempts
      <4>1. files'["result"][n] = files["result"][n]
        BY <3>1, <3>2, <3>4
      <4> QED BY <1>1, <2>5, <4>1
    <3> QED BY <3>3, <3>4
  <2>6. files'["verification"] = files["verification"]
    BY <1>0, <2>1 DEF Put, FilesOK, Kind
  <2>7. pc' \notin AfterVerdict
    BY <1>7 DEF TestAttempt, AfterVerdict
  <2> QED BY <1>1, <2>1, <2>4, <2>5, <2>6, <2>7
<1>8. CASE TestIndependent
  <2>1. PICK packet \in Packets("independent") :
          /\ Execute(packet)
          /\ verification' =
                 [accepted |-> packet.passed /\ claim.tree = candidate.tree,
                  tree |-> workspace, tested |-> candidate.tree,
                  test |-> packet]
          /\ Put("verification", Once, verification')
    BY <1>8 DEF TestIndependent
  <2>2. /\ control.attempts \in Attempt /\ workspace \in TreeType
        /\ claim \in ClaimType /\ claim.tree = workspace
        /\ claim.verifier \in Version /\ claim.verifier <= verifier
        /\ claim.fixture <= claim.tree[1] /\ claim.tree[1] <= fixture
    BY <1>0, <1>8 DEF TestIndependent, HoldsOK, ClaimsSound
  <2>3. Tested(packet, executions', fixture, verifier)
    BY <1>0, <2>1, <2>2, NewReceipt DEF Phase
  <2>4. Fine(packet)
    BY <1>8, <2>3 DEF Fine, TestIndependent, trusted
  <2>5. verification'.test = packet
    BY <2>1
  <2>6. files'["verification"][Once] = verification'
    <3>1. Once \in DOMAIN files["verification"]
      BY <1>0, SlotsOf DEF FilesOK
    <3> QED BY <1>0, <2>1, <3>1 DEF Put, FilesOK, Kind
  <2>7. files'["result"] = files["result"]
    BY <1>0, <2>1 DEF Put, FilesOK, Kind
  <2>8. test' = test /\ pc \in AfterTest
    BY <1>8 DEF TestIndependent, AfterTest
  <2> QED BY <1>1, <2>4, <2>5, <2>6, <2>7, <2>8
<1>9. CASE CleanBeforeDelivery
  <2>1. PICK complete \in BOOLEAN : Put("cleanup", Once, complete)
    BY <1>9 DEF CleanBeforeDelivery
  <2> QED BY <1>3, <1>4, <1>9, <2>1
         DEF CleanBeforeDelivery, Kind, AfterTest, AfterVerdict
<1>10. CASE MockPublish \/ Closeout
  <2>1. \/ UNCHANGED files
        \/ \E content : Put("draft", Once, content)
    BY <1>10 DEF MockPublish, Closeout
  <2>2. /\ UNCHANGED <<test, verification>>
        /\ pc' \notin AfterTest /\ pc' \notin AfterVerdict
    BY <1>10 DEF MockPublish, Closeout, held, AfterTest, AfterVerdict
  <2> QED BY <1>3, <1>4, <2>1, <2>2 DEF Kind
<1>11. CASE Misplace
  <2>0. PICK kind \in Kind :
          \E slot \in Slots(kind) :
             \/ Put(kind, slot, None)
             \/ \E other \in Slots(kind) : Put(kind, slot, files[kind][other])
             \/ \E n \in Attempt, p \in Patch :
                   Put(kind, slot, Elsewhere(kind, n, p))
    BY <1>11 DEF Misplace
  <2>1. PICK slot \in Slots(kind) :
             \/ Put(kind, slot, None)
             \/ \E other \in Slots(kind) : Put(kind, slot, files[kind][other])
             \/ \E n \in Attempt, p \in Patch :
                   Put(kind, slot, Elsewhere(kind, n, p))
    BY <2>0
  <2>2. UNCHANGED <<pc, test, verification>>
    BY <1>11 DEF Misplace, held
  <2>3. CASE kind \notin {"result", "verification"}
    BY <1>3, <1>4, <2>1, <2>2, <2>3
  <2>4. CASE kind = "result"
    <3>1. files'["verification"] = files["verification"]
      BY <1>0, <2>1, <2>4 DEF Put, FilesOK, Kind
    <3>2. ASSUME NEW n \in Attempt, files'["result"][n] # None
          PROVE  Fine(files'["result"][n].test)
      <4>1. slot \in Attempt
        BY <2>4, SlotsOf
      <4>2. files["result"] \in [Attempt -> Content["result"] \cup {None}]
        BY <1>0, SlotsOf DEF FilesOK
      <4>3. CASE n # slot
        <5>1. files'["result"][n] = files["result"][n]
          BY <1>0, <2>1, <2>4, <4>2, <4>3 DEF Put, FilesOK, Kind
        <5> QED BY <1>1, <3>2, <5>1
      <4>4. CASE n = slot
        <5>1. \/ files'["result"][n] = None
              \/ \E other \in Attempt :
                    files'["result"][n] = files["result"][other]
              \/ \E m \in Attempt, p \in Patch :
                    files'["result"][n] = Elsewhere("result", m, p)
          <6>1. ASSUME NEW content, Put(kind, slot, content)
                PROVE  files'["result"][n] = content
            BY <1>0, <2>4, <4>1, <4>2, <4>4, <6>1 DEF Put, FilesOK, Kind
          <6> QED BY <2>1, <2>4, <6>1, SlotsOf
        <5>2. ASSUME NEW m \in Attempt, NEW p \in Patch
              PROVE  Fine(Elsewhere("result", m, p).test)
          BY DEF Fine, Tested, Backed, Elsewhere, Body
        <5> QED BY <1>1, <3>2, <5>1, <5>2
      <4> QED BY <4>3, <4>4
    <3> QED BY <1>1, <2>2, <3>1, <3>2
  <2>5. CASE kind = "verification"
    <3>1. files'["result"] = files["result"]
      BY <1>0, <2>1, <2>5 DEF Put, FilesOK, Kind
    <3>2. slot = Once /\ Once \in DOMAIN files["verification"]
      BY <1>0, <2>5, SlotsOf DEF FilesOK
    <3>3. \/ files'["verification"][Once] = None
          \/ files'["verification"][Once] = files["verification"][Once]
          \/ \E m \in Attempt, p \in Patch :
                files'["verification"][Once] = Elsewhere("verification", m, p)
      <4>1. ASSUME NEW content, Put(kind, slot, content)
            PROVE  files'["verification"][Once] = content
        BY <1>0, <2>5, <3>2, <4>1 DEF Put, FilesOK, Kind
      <4> QED BY <2>1, <2>5, <4>1, SlotsOf
    <3>4. ASSUME NEW m \in Attempt, NEW p \in Patch
          PROVE  Fine(Elsewhere("verification", m, p).test)
      BY DEF Fine, Tested, Backed, Elsewhere, Body
    <3> QED BY <1>1, <2>2, <3>1, <3>3, <3>4
  <2> QED BY <2>3, <2>4, <2>5
<1> QED BY <1>5, <1>6, <1>7, <1>8, <1>9, <1>10, <1>11 DEF Next, Controller

\* Every action keeps receipts and claims sound.
LEMMA SoundNext == Sound /\ [Next]_vars => Sound'
BY ShapeNext, ClaimsNext, ReceiptsNext DEF Sound

\* So they are sound in every state.
LEMMA SoundAlways == Spec => []Sound
BY SoundInit, SoundNext, PTL DEF Spec

-----------------------------------------------------------------------------
(***************************************************************************)
(* The draft and its reader.                                               *)
(***************************************************************************)
\* A receipt whose verifier is the one in force now was issued for an
\* execution by that verifier.
LEMMA BackedNow ==
    ASSUME Shape, NEW receipt \in ReceiptType,
           Backed(receipt, executions, fixture, verifier),
           receipt.body.run = "this", receipt.body.verifier = verifier
    PROVE  Backs(receipt, receipt.body.tree, verifier)
<1>1. PICK e \in executions :
        /\ e.nonce = receipt.nonce /\ e.tree = receipt.body.tree
        /\ receipt.body.verifier <= e.verifier /\ e.verifier <= verifier
  BY DEF Backed
<1>2. e \in ExecutionType
  BY <1>1, TypeParts DEF Shape
<1>3. e.verifier = verifier
  <2>1. e.verifier \in Nat /\ verifier \in Nat
    BY <1>2, Numbers DEF ExecutionType, Shape, TypeOK
  <2> QED BY <1>1, <2>1
<1>4. e = [nonce |-> receipt.nonce, tree |-> receipt.body.tree,
           verifier |-> verifier]
  BY <1>1, <1>2, <1>3 DEF ExecutionType
<1> QED BY <1>1, <1>4 DEF Backs

\* Two receipts that bind one tree, patch, fixture and verifier, the latter
\* two in force, carry a draft.
LEMMA TwoReceipts ==
    ASSUME Shape, NEW n \in Attempt, NEW tree \in TreeType, NEW patch \in Patch,
           NEW first \in ReceiptType, NEW second \in ReceiptType,
           first.body = Body("this", n, "attempt", tree, patch, fixture,
                             verifier),
           second.body = Body("this", n, "independent", tree, patch, fixture,
                              verifier),
           Backed(first, executions, fixture, verifier),
           Backed(second, executions, fixture, verifier)
    PROVE  /\ tree = Tree(fixture, patch)
           /\ Backs(first, tree, verifier) /\ Backs(second, tree, verifier)
           /\ first.nonce = <<"this", <<n, "attempt">>>>
           /\ second.nonce = <<"this", <<n, "independent">>>>
<1>1. /\ first.body.run = "this" /\ first.body.phase = "attempt"
      /\ first.body.attempt = n /\ first.body.tree = tree
      /\ first.body.patch = patch /\ first.body.verifier = verifier
  BY DEF Body
<1>2. /\ second.body.run = "this" /\ second.body.phase = "independent"
      /\ second.body.attempt = n /\ second.body.tree = tree
      /\ second.body.fixture = fixture /\ second.body.verifier = verifier
  BY DEF Body
<1>3. tree[2] = patch
  BY <1>1 DEF Backed
<1>4. tree[1] = fixture
  <2>1. fixture <= tree[1] /\ tree[1] <= fixture
    BY <1>2 DEF Backed
  <2>2. tree[1] \in Nat /\ fixture \in Nat
    BY Numbers DEF TreeType, Shape, TypeOK
  <2> QED BY <2>1, <2>2
<1>5. tree = Tree(fixture, patch)
  BY <1>3, <1>4 DEF TreeType, Tree
<1>6. Backs(first, tree, verifier) /\ Backs(second, tree, verifier)
  BY <1>1, <1>2, BackedNow
<1>7. /\ first.nonce = <<"this", <<n, "attempt">>>>
      /\ second.nonce = <<"this", <<n, "independent">>>>
  BY <1>1, <1>2 DEF Backed
<1> QED BY <1>5, <1>6, <1>7

\* A receipt that a reader trusts is the packet's, and binds the body.
LEMMA TrustedIs ==
    ASSUME NEW packet \in TestType, NEW body,
           TrustedReceipt(packet, body) # None
    PROVE  /\ packet.passed /\ packet.receipt \in ReceiptType
           /\ packet.receipt # None
           /\ TrustedReceipt(packet, body) = packet.receipt
           /\ packet.receipt.body = body
BY DEF TrustedReceipt, TestType

\* What the gate has read when it agrees.
LEMMA GateReads ==
    ASSUME Sound, Eligible, control.attempts \in Attempt,
           pc \in AfterVerdict, candidate \in CandidateType,
           test \in TestType, verification \in VerificationType
    PROVE  /\ candidate.tree = Tree(fixture, candidate.patch)
           /\ GateReceipt(test, "attempt") = test.receipt
           /\ GateReceipt(verification.test, "independent")
                 = verification.test.receipt
           /\ test.receipt.body = Expected("attempt", candidate, candidate.tree)
           /\ verification.test.receipt.body
                 = Expected("independent", candidate, candidate.tree)
           /\ Backs(test.receipt, candidate.tree, verifier)
           /\ Backs(verification.test.receipt, candidate.tree, verifier)
           /\ test.receipt.nonce # verification.test.receipt.nonce
<1>1. /\ GateReceipt(test, "attempt") # None
      /\ GateReceipt(verification.test, "independent") # None
      /\ GateReceipt(test, "attempt").nonce
            # GateReceipt(verification.test, "independent").nonce
  BY DEF Eligible
<1>2. verification.test \in TestType
  BY DEF VerificationType
<1>3. /\ test.receipt \in ReceiptType /\ test.receipt # None
      /\ GateReceipt(test, "attempt") = test.receipt
      /\ test.receipt.body = Expected("attempt", candidate, candidate.tree)
  BY <1>1, TrustedIs DEF GateReceipt
<1>4. /\ verification.test.receipt \in ReceiptType
      /\ verification.test.receipt # None
      /\ GateReceipt(verification.test, "independent")
            = verification.test.receipt
      /\ verification.test.receipt.body
            = Expected("independent", candidate, candidate.tree)
  BY <1>1, <1>2, TrustedIs DEF GateReceipt
<1>5. /\ Backed(test.receipt, executions, fixture, verifier)
      /\ Backed(verification.test.receipt, executions, fixture, verifier)
  BY <1>3, <1>4 DEF Sound, ReceiptsSound, Tested, AfterTest, AfterVerdict
<1>6. candidate.tree \in TreeType /\ candidate.patch \in Patch
  BY DEF CandidateType
<1>7. /\ test.receipt.body =
            Body("this", control.attempts, "attempt", candidate.tree,
                 candidate.patch, fixture, verifier)
      /\ verification.test.receipt.body =
            Body("this", control.attempts, "independent", candidate.tree,
                 candidate.patch, fixture, verifier)
  BY <1>3, <1>4 DEF Expected
<1>8. /\ candidate.tree = Tree(fixture, candidate.patch)
      /\ Backs(test.receipt, candidate.tree, verifier)
      /\ Backs(verification.test.receipt, candidate.tree, verifier)
  BY <1>3, <1>4, <1>5, <1>6, <1>7, TwoReceipts DEF Sound
<1> QED BY <1>1, <1>3, <1>4, <1>8

\* A draft that mock_publish writes rests on two executions, by one verifier
\* and over one fixture, of the tree, the patch, the fixture and the verifier
\* that its receipts name.
THEOREM DraftRests == Spec => DraftRestsOnExecutions
<1>1. ASSUME Sound, [Next]_vars, pc = "publish", pc' = "published",
             control'.outcome = "SUCCEEDED"
      PROVE  Rests(files'["draft"][Once], candidate.patch)
  <2>1. MockPublish
    BY <1>1 DEF Next, Controller, StartAttempt, CreateCandidate, ClaimAttempt,
       TestAttempt, ClaimIndependent, Reapply, TestIndependent,
       CleanBeforeDelivery, Authorise, Fail, Closeout, EditFixture,
       EditVerifier, Misplace, vars
  <2>2. /\ control \in ControlType /\ FilesOK /\ HoldsOK
        /\ fixture \in Version /\ verifier \in Version
    BY <1>1, TypeParts DEF Sound, Shape
  <2>3. Eligible
    BY <1>1, <2>1, <2>2 DEF MockPublish, ControlType
  <2>4. /\ control.attempts \in Attempt /\ candidate \in CandidateType
        /\ test \in TestType /\ verification \in VerificationType
        /\ pc \in AfterVerdict
    BY <1>1, <2>2 DEF HoldsOK, AfterVerdict
  <2>5. files'["draft"][Once] =
          [run |-> "this", tree |-> candidate.tree,
           receipts |-> <<GateReceipt(test, "attempt"),
               GateReceipt(verification.test, "independent")>>]
    <3>1. Once \in DOMAIN files["draft"]
      BY <2>2, SlotsOf DEF FilesOK
    <3> QED BY <2>1, <2>2, <2>3, <3>1 DEF MockPublish, Put, FilesOK, Kind
  <2> DEFINE draft == files'["draft"][Once]
  <2>6. /\ candidate.tree = Tree(fixture, candidate.patch)
        /\ draft.tree = candidate.tree
        /\ draft.receipts[1] = test.receipt
        /\ draft.receipts[2] = verification.test.receipt
        /\ Backs(test.receipt, candidate.tree, verifier)
        /\ Backs(verification.test.receipt, candidate.tree, verifier)
        /\ test.receipt.nonce # verification.test.receipt.nonce
    BY <1>1, <2>3, <2>4, <2>5, GateReads
  <2>7. /\ test.receipt.body.fixture = fixture
        /\ test.receipt.body.verifier = verifier
        /\ test.receipt.body.patch = candidate.patch
        /\ verification.test.receipt.body.fixture = fixture
        /\ verification.test.receipt.body.verifier = verifier
        /\ verification.test.receipt.body.patch = candidate.patch
    BY <1>1, <2>3, <2>4, GateReads DEF Expected, Body
  <2> HIDE DEF draft
  <2>8. \A i \in 1..2 : /\ Backs(draft.receipts[i], draft.tree, verifier)
                        /\ draft.receipts[i].body.fixture = fixture
                        /\ draft.receipts[i].body.verifier = verifier
                        /\ draft.receipts[i].body.patch = candidate.patch
    <3>1. \A i \in 1..2 : i = 1 \/ i = 2
      OBVIOUS
    <3> QED BY <2>6, <2>7, <3>1
  <2>9. Rests(draft, candidate.patch)
    BY <2>2, <2>6, <2>8 DEF Rests
  <2> QED BY <2>9 DEF draft
<1>2. Sound /\ [Next]_vars
        => (pc = "publish" /\ pc' = "published"
                /\ control'.outcome = "SUCCEEDED"
              => Rests(files'["draft"][Once], candidate.patch))
  BY <1>1
<1> QED BY <1>2, SoundAlways, PTL DEF Spec, DraftRestsOnExecutions

\* What verify_run accepts was tested, in this run and attempt, whatever
\* artifacts were lost or replaced.
THEOREM AcceptedWasTested == Spec => []AcceptedRunWasTested
<1>1. Sound => AcceptedRunWasTested
  <2> SUFFICES ASSUME Sound, control.outcome = "SUCCEEDED", VerifyRun
               PROVE  LET draft == files["draft"][Once]
                          patch == files["patch"][control.attempts]
                      IN /\ Rests(draft, patch)
                         /\ draft.tree = Tree(fixture, patch)
                         /\ draft.receipts[1].body.verifier = verifier
                         /\ \A i \in 1..2 :
                               draft.receipts[i].nonce[2][1] = control.attempts
    BY DEF AcceptedRunWasTested
  <2> DEFINE n == control.attempts
             draft == files["draft"][Once]
             patch == files["patch"][n]
             record == files["candidate"][n]
             result == files["result"][n]
             verdict == files["verification"][Once]
             first == FileReceipt(result.test, "attempt")
             second == FileReceipt(verdict.test, "independent")
  <2>1. /\ TrustedCompletion /\ DraftLinked
        /\ PatchArtifactMatches(record, n)
    BY DEF VerifyRun
  <2>2. /\ n >= 1 /\ record # None /\ result # None /\ verdict # None
        /\ record.tree = control.digest
        /\ first # None /\ second # None /\ first.nonce # second.nonce
    BY <2>1 DEF TrustedCompletion
  <2>3. /\ control \in ControlType /\ FilesOK
        /\ fixture \in Version /\ verifier \in Version
    BY TypeParts DEF Sound, Shape
  <2>4. n \in Attempt
    BY <2>2, <2>3, EvidenceAssumption DEF ControlType, Attempt
  <2>5. /\ record \in CandidateType /\ result.test \in TestType
        /\ verdict.test \in TestType
    BY <2>2, <2>3, <2>4, FilesRead DEF VerificationType
  <2>6. /\ draft.tree = control.digest
        /\ draft.receipts = <<result.test.receipt, verdict.test.receipt>>
    BY <2>1 DEF DraftLinked
  <2>7. patch = record.patch
    BY <2>1 DEF PatchArtifactMatches
  <2>8. /\ result.test.receipt \in ReceiptType
        /\ result.test.receipt # None
        /\ first = result.test.receipt
        /\ result.test.receipt.body =
              Expected("attempt", record, control.digest)
    BY <2>2, <2>5, TrustedIs DEF FileReceipt
  <2>9. /\ verdict.test.receipt \in ReceiptType
        /\ verdict.test.receipt # None
        /\ second = verdict.test.receipt
        /\ verdict.test.receipt.body =
              Expected("independent", record, control.digest)
    BY <2>2, <2>5, TrustedIs DEF FileReceipt
  <2> HIDE DEF first, second
  <2>10. /\ Backed(result.test.receipt, executions, fixture, verifier)
         /\ Backed(verdict.test.receipt, executions, fixture, verifier)
    BY <2>2, <2>4, <2>8, <2>9 DEF Sound, ReceiptsSound, Tested
  <2>11. /\ control.digest \in TreeType /\ patch \in Patch
         /\ result.test.receipt.body =
               Body("this", n, "attempt", control.digest, patch, fixture,
                    verifier)
         /\ verdict.test.receipt.body =
               Body("this", n, "independent", control.digest, patch, fixture,
                    verifier)
    BY <2>2, <2>5, <2>7, <2>8, <2>9 DEF Expected, CandidateType
  <2> DEFINE one == result.test.receipt
             two == verdict.test.receipt
  <2>12. /\ control.digest = Tree(fixture, patch)
         /\ Backs(one, control.digest, verifier)
         /\ Backs(two, control.digest, verifier)
         /\ one.nonce = <<"this", <<n, "attempt">>>>
         /\ two.nonce = <<"this", <<n, "independent">>>>
    <3> HIDE DEF patch, one, two, n
    <3>1. /\ one \in ReceiptType /\ two \in ReceiptType
          /\ one.body = Body("this", n, "attempt", control.digest, patch,
                             fixture, verifier)
          /\ two.body = Body("this", n, "independent", control.digest, patch,
                             fixture, verifier)
          /\ Backed(one, executions, fixture, verifier)
          /\ Backed(two, executions, fixture, verifier)
      BY <2>8, <2>9, <2>10, <2>11 DEF one, two, patch, n
    <3> QED BY <2>4, <2>11, <3>1, TwoReceipts DEF Sound
  <2>13. /\ one.body.fixture = fixture /\ one.body.verifier = verifier
         /\ one.body.patch = patch
         /\ two.body.fixture = fixture /\ two.body.verifier = verifier
         /\ two.body.patch = patch
    BY <2>11 DEF Body
  <2>14. /\ draft.tree = control.digest
         /\ draft.receipts[1] = one /\ draft.receipts[2] = two
         /\ one.nonce # two.nonce
    <3>1. one.nonce # two.nonce
      <4> HIDE DEF one, two, n
      <4> QED BY <2>12
    <3>2. draft.tree = control.digest
      BY <2>6
    <3>3. draft.receipts[1] = one /\ draft.receipts[2] = two
      BY <2>6
    <3> HIDE DEF draft, one, two
    <3> QED BY <3>1, <3>2, <3>3
  <2> HIDE DEF draft, patch, one, two, n
  <2>15. \A i \in 1..2 : i = 1 \/ i = 2
    OBVIOUS
  <2>16. \A i \in 1..2 : /\ Backs(draft.receipts[i], draft.tree, verifier)
                         /\ draft.receipts[i].body.fixture = fixture
                         /\ draft.receipts[i].body.verifier = verifier
                         /\ draft.receipts[i].body.patch = patch
                         /\ draft.receipts[i].nonce[2][1] = n
    BY <2>12, <2>13, <2>14, <2>15
  <2>17. Rests(draft, patch)
    BY <2>3, <2>12, <2>14, <2>16 DEF Rests
  <2>18. /\ draft.tree = Tree(fixture, patch)
         /\ draft.receipts[1].body.verifier = verifier
    BY <2>12, <2>13, <2>14
  <2> QED BY <2>16, <2>17, <2>18 DEF draft, patch, n
<1> QED BY <1>1, SoundAlways, PTL

-----------------------------------------------------------------------------
(***************************************************************************)
(* The gate and verify_run agree on a directory that nobody touched: its   *)
(* files are what run_flow held when it delivered.                         *)
(***************************************************************************)
Delivered == pc \in {"published", "closed"} /\ control.outcome = "SUCCEEDED"

\* The artifacts of the current candidate are what memory holds.
CandidateKept ==
    LET n == control.attempts
    IN /\ n \in Attempt /\ candidate \in CandidateType
       /\ candidate.attempt = n /\ candidate.name = n
       /\ files["candidate"][n] = candidate
       /\ files["patch"][n] = candidate.patch
       /\ source = "deepagents" =>
             files["execution"][n] = [attempt |-> n, patch |-> candidate.patch,
                                      tree |-> candidate.tree]

TestKept ==
    /\ test \in TestType /\ test.passed
    /\ files["result"][control.attempts] =
           [attempt |-> control.attempts, tree |-> candidate.tree,
            test |-> test]

VerdictKept ==
    /\ verification \in VerificationType
    /\ verification.accepted /\ verification.test.passed
    /\ verification.tree = candidate.tree
    /\ verification.tested = candidate.tree
    /\ files["verification"][Once] = verification

CleanupKept ==
    /\ control.clean /\ control.digest = candidate.tree
    /\ files["cleanup"][Once] = TRUE

DraftKept ==
    /\ files["draft"][Once] =
           [run |-> "this", tree |-> candidate.tree,
            receipts |-> <<test.receipt, verification.test.receipt>>]
    /\ test.receipt # None /\ verification.test.receipt # None
    /\ test.receipt.nonce # verification.test.receipt.nonce
    /\ \E f, v \in Version :
          /\ test.receipt.body =
                Body("this", control.attempts, "attempt", candidate.tree,
                     candidate.patch, f, v)
          /\ verification.test.receipt.body =
                Body("this", control.attempts, "independent", candidate.tree,
                     candidate.patch, f, v)

\* What the controller has reached is on file unless something went astray.
Kept ==
    /\ pc = "closeout" => control.outcome = "FAILED"
    /\ misplaced = 0 =>
          /\ pc \in {"test", "testing"} \cup AfterTest \/ Delivered =>
                CandidateKept
          /\ pc \in AfterTest \/ Delivered => TestKept
          /\ pc \in AfterVerdict \/ Delivered => VerdictKept
          /\ pc \in {"gate", "publish"} \/ Delivered => CleanupKept
          /\ Delivered => DraftKept

\* At first there is nothing to keep.
LEMMA KeptInit == Init => Kept
BY DEF Init, Kept, Delivered, AfterTest, AfterVerdict

\* What the parts of Kept do not mention may change.
LEMMA KeptParts ==
    ASSUME UNCHANGED control, UNCHANGED candidate, UNCHANGED source,
           UNCHANGED files, UNCHANGED test, UNCHANGED verification
    PROVE  /\ (CandidateKept => CandidateKept')
           /\ (TestKept => TestKept')
           /\ (VerdictKept => VerdictKept')
           /\ (CleanupKept => CleanupKept')
           /\ (DraftKept => DraftKept')
BY DEF CandidateKept, TestKept, VerdictKept, CleanupKept, DraftKept

\* Replacing one artifact leaves the others.
LEMMA PutOnly ==
    ASSUME FilesOK, NEW kind \in Kind, NEW slot \in Slots(kind), NEW content,
           Put(kind, slot, content)
    PROVE  /\ \A k \in Kind : k # kind => files'[k] = files[k]
           /\ files'[kind][slot] = content
<1>1. /\ DOMAIN files = Kind
      /\ files[kind] \in [Slots(kind) -> Content[kind] \cup {None}]
      /\ files' = [files EXCEPT ![kind][slot] = content]
  BY DEF FilesOK, Put
<1>2. \A k \in Kind : k # kind => files'[k] = files[k]
  BY <1>1
<1>3. files'[kind] = [files[kind] EXCEPT ![slot] = content]
  BY <1>1
<1>4. files'[kind][slot] = content
  BY <1>1, <1>3
<1> QED BY <1>2, <1>4

\* Every action keeps it.
LEMMA KeptNext == Sound /\ Kept /\ [Next]_vars => Kept'
<1> SUFFICES ASSUME Sound, Kept, [Next]_vars PROVE Kept'
  OBVIOUS
<1>0. /\ pc \in Place /\ control \in ControlType /\ FilesOK /\ HoldsOK
      /\ ClaimsSound /\ misplaced \in 0..MaxMisplaced
      /\ fixture \in Version /\ verifier \in Version
  BY TypeParts DEF Sound, Shape
<1> USE DEF Kept
<1>1. CASE StartAttempt
  BY <1>1 DEF StartAttempt, Delivered, AfterTest, AfterVerdict
<1>2. CASE CreateCandidate
  <2>1. pc' = "test"
    BY <1>2 DEF CreateCandidate
  <2>2. CandidateKept'
    <3>1. PICK p \in Patch :
            /\ candidate' = [attempt |-> control.attempts,
                             name |-> control.attempts, patch |-> p,
                             tree |-> Tree(workspace[1], p)]
            /\ files' = [files EXCEPT
                 !["patch"][control.attempts] = p,
                 !["candidate"][control.attempts] = candidate',
                 !["execution"][control.attempts] =
                     IF source = "deepagents"
                     THEN [attempt |-> control.attempts, patch |-> p,
                           tree |-> Tree(workspace[1], p)]
                     ELSE None]
      BY <1>2 DEF CreateCandidate
    <3>2. control.attempts \in Attempt /\ workspace \in Version \X {None}
      BY <1>0, <1>2 DEF CreateCandidate, HoldsOK
    <3>3. candidate' \in CandidateType
      BY <3>1, <3>2 DEF CandidateType, Tree, TreeType
    <3>4. /\ DOMAIN files = Kind
          /\ DOMAIN files["patch"] = Attempt
          /\ DOMAIN files["candidate"] = Attempt
          /\ DOMAIN files["execution"] = Attempt
      BY <1>0, SlotsOf DEF FilesOK
    <3> DEFINE n == control.attempts
               e == IF source = "deepagents"
                    THEN [attempt |-> n, patch |-> p,
                          tree |-> Tree(workspace[1], p)]
                    ELSE None
    <3>5. /\ files'["patch"] = [files["patch"] EXCEPT ![n] = p]
          /\ files'["candidate"] = [files["candidate"] EXCEPT ![n] = candidate']
          /\ files'["execution"] = [files["execution"] EXCEPT ![n] = e]
      <4>1. files' = [files EXCEPT !["patch"][n] = p,
                                   !["candidate"][n] = candidate',
                                   !["execution"][n] = e]
        BY <3>1
      <4> HIDE DEF e, n
      <4> QED BY <3>4, <4>1 DEF Kind
    <3>6. /\ files'["patch"][n] = p
          /\ files'["candidate"][n] = candidate'
          /\ files'["execution"][n] = e
      BY <3>2, <3>4, <3>5
    <3>7. control' = control /\ source' = source
      BY <1>2 DEF CreateCandidate
    <3> QED BY <3>1, <3>2, <3>3, <3>6, <3>7 DEF CandidateKept
  <2> QED BY <2>1, <2>2 DEF Delivered, AfterTest, AfterVerdict
<1>3. CASE ClaimAttempt \/ ClaimIndependent \/ Reapply
  <2>1. UNCHANGED <<control, candidate, source, files, test, verification,
                    misplaced>>
    BY <1>3 DEF ClaimAttempt, ClaimIndependent, Reapply
  <2>2. \/ pc = "test" /\ pc' = "testing"
        \/ pc = "verify" /\ pc' = "reapply"
        \/ pc = "reapply" /\ pc' = "verifying"
    BY <1>3 DEF ClaimAttempt, ClaimIndependent, Reapply
  <2>3. /\ (CandidateKept => CandidateKept')
        /\ (TestKept => TestKept')
        /\ (VerdictKept => VerdictKept')
        /\ (CleanupKept => CleanupKept')
        /\ (DraftKept => DraftKept')
    BY <2>1, KeptParts
  <2> QED BY <2>1, <2>2, <2>3 DEF Delivered, AfterTest, AfterVerdict
<1>4. CASE TestAttempt
  <2>1. PICK packet \in Packets("attempt") :
          /\ Execute(packet) /\ test' = packet
          /\ Put("result", control.attempts,
                 [attempt |-> control.attempts, tree |-> candidate.tree,
                  test |-> packet])
          /\ pc' = IF packet.passed THEN "verify" ELSE "next"
    BY <1>4 DEF TestAttempt
  <2>2. /\ control.attempts \in Attempt /\ candidate \in CandidateType
        /\ workspace \in TreeType /\ claim \in ClaimType
        /\ claim.tree = workspace /\ claim.verifier \in Version
    BY <1>0, <1>4 DEF TestAttempt, HoldsOK
  <2>3. packet \in TestType
    BY <2>1, <2>2, PacketType DEF Phase
  <2>4. UNCHANGED <<control, candidate, source, misplaced>> /\ pc = "testing"
    BY <1>4 DEF TestAttempt
  <2>5. /\ \A k \in Kind : k # "result" => files'[k] = files[k]
        /\ files'["result"][control.attempts] =
              [attempt |-> control.attempts, tree |-> candidate.tree,
               test |-> packet]
    BY <1>0, <2>1, <2>2, SlotsOf, PutOnly
  <2>6. misplaced = 0 => CandidateKept'
    <3>1. misplaced = 0 => CandidateKept
      BY <2>4
    <3>2. /\ files'["candidate"] = files["candidate"]
          /\ files'["patch"] = files["patch"]
          /\ files'["execution"] = files["execution"]
      BY <2>5 DEF Kind
    <3> QED BY <2>4, <3>1, <3>2 DEF CandidateKept
  <2>7. packet.passed => TestKept'
    BY <2>1, <2>3, <2>4, <2>5 DEF TestKept
  <2> QED BY <2>1, <2>4, <2>6, <2>7 DEF Delivered, AfterTest, AfterVerdict
<1>5. CASE TestIndependent
  <2>1. PICK packet \in Packets("independent") :
          /\ verification' =
                 [accepted |-> packet.passed /\ claim.tree = candidate.tree,
                  tree |-> workspace, tested |-> candidate.tree,
                  test |-> packet]
          /\ Put("verification", Once, verification')
          /\ pc' = IF verification'.accepted THEN "clean" ELSE "next"
    BY <1>5 DEF TestIndependent
  <2>2. /\ control.attempts \in Attempt /\ candidate \in CandidateType
        /\ workspace \in TreeType /\ claim \in ClaimType
        /\ claim.tree = workspace /\ claim.verifier \in Version
    BY <1>0, <1>5 DEF TestIndependent, HoldsOK
  <2>3. packet \in TestType
    BY <2>1, <2>2, PacketType DEF Phase
  <2>4. /\ UNCHANGED <<control, candidate, source, misplaced, test>>
        /\ pc = "verifying"
    BY <1>5 DEF TestIndependent
  <2>5. /\ \A k \in Kind : k # "verification" => files'[k] = files[k]
        /\ files'["verification"][Once] = verification'
    BY <1>0, <2>1, SlotsOf, PutOnly
  <2>6. misplaced = 0 => CandidateKept' /\ TestKept'
    <3>1. misplaced = 0 => CandidateKept /\ TestKept
      BY <2>4 DEF AfterTest
    <3>2. /\ files'["candidate"] = files["candidate"]
          /\ files'["patch"] = files["patch"]
          /\ files'["execution"] = files["execution"]
          /\ files'["result"] = files["result"]
      BY <2>5 DEF Kind
    <3> QED BY <2>4, <3>1, <3>2 DEF CandidateKept, TestKept
  <2>7. verification'.accepted => VerdictKept'
    <3>1. SUFFICES ASSUME verification'.accepted PROVE VerdictKept'
      OBVIOUS
    <3>2. packet.passed /\ claim.tree = candidate.tree
      BY <2>1, <3>1
    <3>3. verification' = [accepted |-> TRUE, tree |-> candidate.tree,
                           tested |-> candidate.tree, test |-> packet]
      BY <2>1, <2>2, <3>2
    <3>4. verification' \in VerificationType
      BY <2>2, <2>3, <3>3 DEF VerificationType, CandidateType
    <3> QED BY <2>4, <2>5, <3>2, <3>3, <3>4 DEF VerdictKept
  <2> QED BY <2>1, <2>4, <2>6, <2>7 DEF Delivered, AfterTest, AfterVerdict
<1>6. CASE CleanBeforeDelivery
  <2>1. PICK complete \in BOOLEAN :
          /\ Put("cleanup", Once, complete)
          /\ control' = [control EXCEPT
                 !.digest = candidate.tree, !.clean = complete,
                 !.outcome = IF complete THEN @ ELSE "FAILED"]
          /\ pc' = IF complete THEN "gate" ELSE "closeout"
    BY <1>6 DEF CleanBeforeDelivery
  <2>2. /\ UNCHANGED <<candidate, source, misplaced, test, verification>>
        /\ pc = "clean"
    BY <1>6 DEF CleanBeforeDelivery
  <2>3. /\ control'.attempts = control.attempts
        /\ control'.digest = candidate.tree /\ control'.clean = complete
        /\ complete = FALSE => control'.outcome = "FAILED"
    BY <1>0, <2>1 DEF ControlType
  <2>4. /\ \A k \in Kind : k # "cleanup" => files'[k] = files[k]
        /\ files'["cleanup"][Once] = complete
    BY <1>0, <2>1, SlotsOf, PutOnly
  <2>5. misplaced = 0 => CandidateKept' /\ TestKept' /\ VerdictKept'
    <3>1. misplaced = 0 => CandidateKept /\ TestKept /\ VerdictKept
      BY <2>2 DEF AfterTest, AfterVerdict
    <3>2. /\ files'["candidate"] = files["candidate"]
          /\ files'["patch"] = files["patch"]
          /\ files'["execution"] = files["execution"]
          /\ files'["result"] = files["result"]
          /\ files'["verification"] = files["verification"]
      BY <2>4 DEF Kind
    <3> QED BY <2>2, <2>3, <3>1, <3>2
            DEF CandidateKept, TestKept, VerdictKept
  <2>6. complete => CleanupKept'
    BY <2>2, <2>3, <2>4 DEF CleanupKept
  <2> QED BY <2>1, <2>2, <2>3, <2>5, <2>6
          DEF Delivered, AfterTest, AfterVerdict
<1>7. CASE Authorise
  <2>1. /\ UNCHANGED <<candidate, source, misplaced, test, verification, files>>
        /\ pc = "gate"
        /\ \/ pc' = "publish"
           \/ pc' = "closeout" /\ control'.outcome = "FAILED"
        /\ control'.attempts = control.attempts
        /\ control'.digest = control.digest /\ control'.clean = control.clean
    BY <1>0, <1>7 DEF Authorise, ControlType, held
  <2>2. misplaced = 0 =>
          CandidateKept /\ TestKept /\ VerdictKept /\ CleanupKept
    BY <2>1 DEF AfterTest, AfterVerdict
  <2>3. misplaced = 0 =>
          CandidateKept' /\ TestKept' /\ VerdictKept' /\ CleanupKept'
    BY <2>1, <2>2 DEF CandidateKept, TestKept, VerdictKept, CleanupKept
  <2> QED BY <2>1, <2>3 DEF Delivered, AfterTest, AfterVerdict
<1>8. CASE MockPublish
  <2>1. /\ UNCHANGED <<candidate, source, misplaced, test, verification>>
        /\ pc = "publish" /\ pc' = "published"
    BY <1>8 DEF MockPublish, held
  <2>2. CASE ~Eligible
    <3>1. control'.outcome = "FAILED"
      BY <1>0, <1>8, <2>2 DEF MockPublish, ControlType
    <3> QED BY <2>1, <3>1 DEF Delivered, AfterTest, AfterVerdict
  <2>3. CASE Eligible
    <3>1. /\ control' = control
          /\ Put("draft", Once,
                 [run |-> "this", tree |-> candidate.tree,
                  receipts |-> <<GateReceipt(test, "attempt"),
                      GateReceipt(verification.test, "independent")>>])
      BY <1>8, <2>3 DEF MockPublish
    <3>2. /\ \A k \in Kind : k # "draft" => files'[k] = files[k]
          /\ files'["draft"][Once] =
                 [run |-> "this", tree |-> candidate.tree,
                  receipts |-> <<GateReceipt(test, "attempt"),
                      GateReceipt(verification.test, "independent")>>]
      BY <1>0, <3>1, SlotsOf, PutOnly
    <3>3. misplaced = 0 =>
            CandidateKept /\ TestKept /\ VerdictKept /\ CleanupKept
      BY <2>1 DEF AfterTest, AfterVerdict
    <3>4. misplaced = 0 =>
            CandidateKept' /\ TestKept' /\ VerdictKept' /\ CleanupKept'
      <4>1. /\ files'["candidate"] = files["candidate"]
            /\ files'["patch"] = files["patch"]
            /\ files'["execution"] = files["execution"]
            /\ files'["result"] = files["result"]
            /\ files'["verification"] = files["verification"]
            /\ files'["cleanup"] = files["cleanup"]
        BY <3>2 DEF Kind
      <4> QED BY <2>1, <3>1, <3>3, <4>1
              DEF CandidateKept, TestKept, VerdictKept, CleanupKept
    <3>5. DraftKept'
      <4>1. /\ control.attempts \in Attempt /\ candidate \in CandidateType
            /\ test \in TestType /\ verification \in VerificationType
            /\ pc \in AfterVerdict
        BY <1>0, <2>1 DEF HoldsOK, AfterVerdict
      <4>2. /\ GateReceipt(test, "attempt") = test.receipt
            /\ GateReceipt(verification.test, "independent")
                  = verification.test.receipt
            /\ test.receipt.body =
                  Body("this", control.attempts, "attempt", candidate.tree,
                       candidate.patch, fixture, verifier)
            /\ verification.test.receipt.body =
                  Body("this", control.attempts, "independent", candidate.tree,
                       candidate.patch, fixture, verifier)
            /\ test.receipt.nonce # verification.test.receipt.nonce
        BY <2>3, <4>1, GateReads DEF Expected
      <4>3. test.receipt # None /\ verification.test.receipt # None
        BY <2>3, <4>2 DEF Eligible
      <4>4. \E f, v \in Version :
              /\ test.receipt.body =
                    Body("this", control.attempts, "attempt", candidate.tree,
                         candidate.patch, f, v)
              /\ verification.test.receipt.body =
                    Body("this", control.attempts, "independent",
                         candidate.tree, candidate.patch, f, v)
        BY <1>0, <4>2
      <4> QED BY <2>1, <3>1, <3>2, <4>2, <4>3, <4>4 DEF DraftKept
    <3> QED BY <2>1, <3>4, <3>5 DEF Delivered, AfterTest, AfterVerdict
  <2> QED BY <2>2, <2>3
<1>9. CASE Fail
  <2>1. pc' = "closeout" /\ control'.outcome = "FAILED"
    BY <1>0, <1>9 DEF Fail, ControlType
  <2> QED BY <2>1 DEF Delivered, AfterTest, AfterVerdict
<1>10. CASE Closeout
  <2>1. /\ UNCHANGED <<candidate, source, misplaced, test, verification>>
        /\ pc \in {"published", "closeout"} /\ pc' = "closed"
    BY <1>10 DEF Closeout, held
  <2>2. control'.outcome = "SUCCEEDED" =>
          control.outcome = "SUCCEEDED" /\ UNCHANGED <<control, files>>
    <3>1. PICK complete \in BOOLEAN, unlinked \in BOOLEAN :
            /\ control' = [control EXCEPT
                   !.outcome = IF complete THEN @ ELSE "CLEANUP_FAILED"]
            /\ IF unlinked /\ (~complete \/ control.outcome # "SUCCEEDED")
               THEN Put("draft", Once, None)
               ELSE UNCHANGED files
      BY <1>10 DEF Closeout
    <3> QED BY <1>0, <3>1 DEF ControlType
  <2>3. Delivered' => Delivered /\ UNCHANGED <<control, files>>
    BY <2>1, <2>2 DEF Delivered
  <2>4. Delivered' =>
        /\ (CandidateKept => CandidateKept')
        /\ (TestKept => TestKept')
        /\ (VerdictKept => VerdictKept')
        /\ (CleanupKept => CleanupKept')
        /\ (DraftKept => DraftKept')
    BY <2>1, <2>3, KeptParts
  <2> QED BY <2>1, <2>3, <2>4 DEF AfterTest, AfterVerdict
<1>11. CASE Misplace
  <2>1. misplaced' # 0 /\ UNCHANGED <<pc, control>>
    BY <1>0, <1>11, EvidenceAssumption DEF Misplace
  <2> QED BY <2>1
<1>12. CASE EditFixture \/ EditVerifier \/ UNCHANGED vars
  <2>1. UNCHANGED <<pc, control, candidate, source, files, test, verification,
                    misplaced>>
    BY <1>12 DEF EditFixture, EditVerifier, vars, held
  <2>2. Delivered' = Delivered
    BY <2>1 DEF Delivered
  <2>3. /\ (CandidateKept => CandidateKept')
        /\ (TestKept => TestKept')
        /\ (VerdictKept => VerdictKept')
        /\ (CleanupKept => CleanupKept')
        /\ (DraftKept => DraftKept')
    BY <2>1, KeptParts
  <2> QED BY <2>1, <2>2, <2>3
<1> QED BY <1>1, <1>2, <1>3, <1>4, <1>5, <1>6, <1>7, <1>8, <1>9, <1>10,
           <1>11, <1>12 DEF Next, Controller

\* What the gate let through is what verify_run accepts, for either source,
\* while nobody touches the files and what the receipts name is in force.
THEOREM PublishedVerifies == Spec => []PublishedRunVerifies
<1>1. Sound /\ Kept => PublishedRunVerifies
  <2> SUFFICES ASSUME Sound, Kept, Delivered, misplaced = 0,
                      verification.test.receipt.body.fixture = fixture,
                      verification.test.receipt.body.verifier = verifier
               PROVE  VerifyRun
    BY DEF PublishedRunVerifies, Delivered
  <2>1. CandidateKept /\ TestKept /\ VerdictKept /\ CleanupKept /\ DraftKept
    BY DEF Kept
  <2> DEFINE n == control.attempts
  <2>2. /\ n \in Attempt /\ n >= 1
        /\ files["candidate"][n] = candidate /\ candidate # None
        /\ files["patch"][n] = candidate.patch /\ candidate.patch # None
        /\ candidate.name = n
    <3>1. candidate \in Content["candidate"]
      BY <2>1, ContentOf DEF CandidateKept
    <3>2. candidate # None
      BY <3>1, NoContentIsMissing DEF Kind
    <3>3. candidate.patch # None
      BY <2>1, EvidenceAssumption DEF CandidateKept, CandidateType
    <3> QED BY <2>1, <3>2, <3>3 DEF CandidateKept, Attempt
  <2>3. /\ files["result"][n] = [attempt |-> n, tree |-> candidate.tree,
                                 test |-> test]
        /\ files["result"][n] # None /\ test.passed
    <3>1. [attempt |-> n, tree |-> candidate.tree, test |-> test]
            \in Content["result"]
      BY <2>1, ContentOf DEF TestKept, CandidateKept, CandidateType
    <3>2. [attempt |-> n, tree |-> candidate.tree, test |-> test] # None
      BY <3>1, NoContentIsMissing DEF Kind
    <3> QED BY <2>1, <3>2 DEF TestKept
  <2>4. /\ files["verification"][Once] = verification /\ verification # None
        /\ verification.accepted /\ verification.test.passed
        /\ verification.tree = control.digest
        /\ verification.tested = control.digest
        /\ candidate.tree = control.digest
    <3>1. verification \in Content["verification"]
      BY <2>1, ContentOf DEF VerdictKept
    <3>2. verification # None
      BY <3>1, NoContentIsMissing DEF Kind
    <3> QED BY <2>1, <3>2 DEF VerdictKept, CleanupKept
  <2>5. /\ test.receipt.body = Expected("attempt", candidate, control.digest)
        /\ verification.test.receipt.body =
              Expected("independent", candidate, control.digest)
    <3>1. PICK f \in Version, v \in Version :
            /\ test.receipt.body =
                  Body("this", n, "attempt", candidate.tree, candidate.patch,
                       f, v)
            /\ verification.test.receipt.body =
                  Body("this", n, "independent", candidate.tree,
                       candidate.patch, f, v)
      BY <2>1 DEF DraftKept
    <3>2. f = fixture /\ v = verifier
      BY <3>1 DEF Body
    <3> QED BY <2>4, <3>1, <3>2 DEF Expected
  <2>6. /\ test.receipt # None /\ verification.test.receipt # None
        /\ test.receipt.nonce # verification.test.receipt.nonce
    BY <2>1 DEF DraftKept
  <2>7. /\ FileReceipt(files["result"][n].test, "attempt") = test.receipt
        /\ FileReceipt(files["verification"][Once].test, "independent")
              = verification.test.receipt
    BY <2>2, <2>3, <2>4, <2>5, <2>6 DEF FileReceipt, TrustedReceipt
  <2>8. TrustedCompletion
    BY <2>2, <2>3, <2>4, <2>6, <2>7 DEF TrustedCompletion
  <2>9. PatchArtifactMatches(files["candidate"][n], n)
    BY <2>2 DEF PatchArtifactMatches
  <2>10. DraftLinked
    <3>1. files["draft"][Once] =
            [run |-> "this", tree |-> candidate.tree,
             receipts |-> <<test.receipt, verification.test.receipt>>]
      BY <2>1 DEF DraftKept
    <3>2. files["draft"][Once] # None
      <4>1. test.receipt \in ReceiptType
            /\ verification.test.receipt \in ReceiptType
        BY <2>1, <2>6 DEF TestKept, VerdictKept, VerificationType, TestType
      <4>2. files["draft"][Once] \in Content["draft"]
        BY <2>1, <3>1, <4>1, ContentOf DEF CandidateKept, CandidateType
      <4> QED BY <4>2, NoContentIsMissing DEF Kind
    <3> QED BY <2>3, <2>4, <3>1, <3>2 DEF DraftLinked
  <2>11. source = "deepagents" => RealModelChain
    <3>1. SUFFICES ASSUME source = "deepagents" PROVE RealModelChain
      OBVIOUS
    <3> DEFINE e == [attempt |-> n, patch |-> candidate.patch,
                     tree |-> candidate.tree]
    <3>2. files["execution"][n] = e /\ candidate.attempt = n
      BY <2>1, <3>1 DEF CandidateKept
    <3>3. e # None
      <4>1. e \in Content["execution"]
        BY <2>1, ContentOf DEF CandidateKept, CandidateType
      <4> QED BY <4>1, NoContentIsMissing DEF Kind
    <3> QED BY <2>2, <2>3, <2>4, <2>9, <3>2, <3>3 DEF RealModelChain
  <2>12. control.clean /\ files["cleanup"][Once] = TRUE
    BY <2>1 DEF CleanupKept
  <2> QED BY <2>8, <2>9, <2>10, <2>11, <2>12 DEF VerifyRun, Delivered
<1>2. Spec => []Kept
  BY SoundAlways, KeptInit, KeptNext, PTL DEF Spec
<1> QED BY <1>1, <1>2, SoundAlways, PTL

=============================================================================
