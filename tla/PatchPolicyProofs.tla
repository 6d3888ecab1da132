-------------------------- MODULE PatchPolicyProofs --------------------------
(***************************************************************************)
(* PatchPolicy's safety, for any repository, any policy and anything a     *)
(* worker writes.                                                          *)
(***************************************************************************)
EXTENDS PatchPolicy, TLAPS

\* The patch in hand is the diff of the worker's tree ...
PatchIsTheDiff ==
    /\ pc \in {"validate", "check", "apply", "reconcile", "retain",
               "accepted"} => patch = ShadowGitDiff(base, tree)
    /\ pc \in {"check", "apply", "reconcile", "retain", "accepted"} =>
           PatchOK(patch, paired)

\* ... the workspace holds the repository, or that patch on top of it ...
WorkspaceFollows ==
    /\ pc \in {"edit", "diff", "validate", "check", "apply"} =>
           workspace = base
    /\ pc \in {"reconcile", "retain", "accepted"} =>
           workspace = Patched(patch, base)

\* ... and the verifier works from a record that passed every check.
RecordIsChecked ==
    /\ pc \in {"edit", "diff", "retain"} => applier = "provider"
    /\ pc = "accepted" => applier = "verifier"
    /\ pc = "retain" \/ applier = "verifier" =>
           /\ reported = PathLines(patch)
           /\ digest = Contents(Patched(patch, base))
           /\ Changed(base, Patched(patch, base)) = PathLines(patch)
    /\ applier = "verifier" =>
           /\ pc # "refused"
           /\ PatchBytesOK(patch, paired)
           /\ ContractOK(reported) /\ ScenarioAllows(reported)

Inv == TypeOK /\ PatchIsTheDiff /\ WorkspaceFollows /\ RecordIsChecked

-----------------------------------------------------------------------------
\* A diff changes nothing else than the files it has sections for, and what
\* it makes of them is what the worker left.
LEMMA DiffIsATree ==
    ASSUME base \in Tree, tree \in Tree
    PROVE  LET p == ShadowGitDiff(base, tree)
           IN  /\ DOMAIN p \subseteq Path
               /\ DOMAIN p = {q \in Path \ Ignored : base[q] # tree[q]}
               /\ p \in [DOMAIN p -> Section]
               /\ \A q \in DOMAIN p : p[q].old = base[q] /\ p[q].new = tree[q]
BY DEF ShadowGitDiff, Section, Tree

\* git apply gives a tree again.
LEMMA PatchedIsATree ==
    ASSUME NEW t \in Tree, NEW S \in SUBSET Path, NEW p \in [S -> Section]
    PROVE  Patched(p, t) \in Tree
BY DEF Patched, Tree, Section

\* A file that is not there has no text, any other one has a mode.
LEMMA FileFields ==
    ASSUME NEW f \in File
    PROVE  /\ f.text \in SUBSET Line
           /\ f = Absent <=> f.mode = "absent"
           /\ f # Absent =>
                 /\ f.mode \in {"regular", "executable"}
                 /\ f = [mode |-> f.mode, text |-> f.text]
BY DEF File, Absent

\* Contents of a tree, with their type.
LEMMA ContentsType ==
    ASSUME NEW t \in Tree
    PROVE  Contents(t) \in [Path -> [exists : BOOLEAN, text : SUBSET Line]]
<1>1. \A p \in Path : t[p].text \in SUBSET Line
  BY FileFields DEF Tree
<1> QED BY <1>1 DEF Contents

\* A file that changes without changing its mode alone changes in contents.
LEMMA ChangeIsSeen ==
    ASSUME NEW f \in File, NEW g \in File, f # g,
           f.mode = g.mode \/ Absent \in {f, g}
    PROVE  [exists |-> f # Absent, text |-> f.text]
               # [exists |-> g # Absent, text |-> g.text]
<1>1. CASE f.mode = g.mode
  <2>1. f # Absent /\ g # Absent
    BY <1>1, FileFields
  <2>2. f.text # g.text
    BY <1>1, <2>1, FileFields
  <2> QED BY <2>2
<1>2. CASE Absent \in {f, g}
  <2>1. (f # Absent) # (g # Absent)
    BY <1>2
  <2> QED BY <2>1
<1> QED BY <1>1, <1>2

\* Without a fragment that looks like one, the headers are those of git.
LEMMA NoFragmentIsSeen ==
    ASSUME NEW p, OnlyGitsLines(p)
    PROVE  DiffLines(p) = DOMAIN p
<1>1. \A q \in DOMAIN p : Seen(p[q], "diff") = {}
  BY DEF OnlyGitsLines, Seen
<1> QED BY <1>1 DEF DiffLines

\* The reading of validate_patch covers that of git on an acceptable diff, and
\* what git changes are exactly the files it has sections for.
LEMMA ReadingCovers ==
    ASSUME base \in Tree, tree \in Tree, NEW pair \in BOOLEAN,
           NEW p, p = ShadowGitDiff(base, tree), PatchOK(p, pair)
    PROVE  /\ Fits(p, base)
           /\ Changed(base, Patched(p, base)) = DOMAIN p
           /\ DOMAIN p = {q \in Path : Patched(p, base)[q] # base[q]}
           /\ DOMAIN p \subseteq PathLines(p)
           /\ OnlyGitsLines(p) => PathLines(p) = DOMAIN p
           /\ Contents(Patched(p, base)) # Contents(base)
<1>1. /\ DOMAIN p \subseteq Path
      /\ DOMAIN p = {q \in Path \ Ignored : base[q] # tree[q]}
      /\ \A q \in DOMAIN p : p[q].old = base[q] /\ p[q].new = tree[q]
  BY DiffIsATree
<1>2. PathLines(p) = DiffLines(p) /\ PathLines(p) # {} /\ ModesOK(p)
  BY DEF PatchOK, PathsOK
<1>3. Fits(p, base)
  BY <1>1 DEF Fits
<1>4. \A q \in Path :
        Patched(p, base)[q] = IF q \in DOMAIN p THEN tree[q] ELSE base[q]
  BY <1>1 DEF Patched
<1>5. \A q \in DOMAIN p :
        Contents(base)[q] # Contents(Patched(p, base))[q]
  <2> TAKE q \in DOMAIN p
  <2>1. q \in Path /\ base[q] # tree[q]
    BY <1>1
  <2>2. base[q] \in File /\ tree[q] \in File
    BY <2>1 DEF Tree
  <2>3. base[q].mode = tree[q].mode \/ Absent \in {base[q], tree[q]}
    BY <1>1, <1>2 DEF ModesOK
  <2>4. [exists |-> base[q] # Absent, text |-> base[q].text]
          # [exists |-> tree[q] # Absent, text |-> tree[q].text]
    BY <2>1, <2>2, <2>3, ChangeIsSeen
  <2>5. Contents(base)[q] = [exists |-> base[q] # Absent, text |-> base[q].text]
    BY <2>1 DEF Contents
  <2>6. Contents(Patched(p, base))[q]
          = [exists |-> tree[q] # Absent, text |-> tree[q].text]
    BY <2>1, <1>4 DEF Contents
  <2> QED BY <2>4, <2>5, <2>6
<1>6. \A q \in Path \ DOMAIN p :
        Contents(base)[q] = Contents(Patched(p, base))[q]
  BY <1>4 DEF Contents
<1>7. Changed(base, Patched(p, base)) = DOMAIN p
  BY <1>1, <1>5, <1>6 DEF Changed
<1>8. DOMAIN p = {q \in Path : Patched(p, base)[q] # base[q]}
  BY <1>1, <1>4
<1>9. Contents(Patched(p, base)) # Contents(base)
  <2>1. DOMAIN p # {}
    BY <1>2 DEF PathLines
  <2> QED BY <1>1, <1>5, <2>1
<1>10. DOMAIN p \subseteq PathLines(p)
  BY <1>2 DEF DiffLines
<1> QED BY <1>2, <1>3, <1>7, <1>8, <1>9, <1>10, NoFragmentIsSeen

-----------------------------------------------------------------------------
\* The invariant holds at the start.
LEMMA InvInit == Init => Inv
<1> SUFFICES ASSUME Init PROVE Inv
  OBVIOUS
<1>1. base \in Tree /\ tree = base /\ workspace = base
  BY PatchAssumption DEF Init
<1>2. DOMAIN patch = {} /\ patch \in [DOMAIN patch -> Section]
  BY DEF Init, NoPatch
<1>3. digest \in [Path -> [exists : BOOLEAN, text : SUBSET Line]]
  BY <1>1, ContentsType DEF Init
<1>4. TypeOK
  BY <1>1, <1>2, <1>3 DEF TypeOK, Init, Stage
<1>5. PatchIsTheDiff /\ WorkspaceFollows /\ RecordIsChecked
  BY <1>1 DEF Init, PatchIsTheDiff, WorkspaceFollows, RecordIsChecked
<1> QED BY <1>4, <1>5 DEF Inv

\* Every step of the candidate's way keeps it.
LEMMA InvNext == Inv /\ [Next]_vars => Inv'
<1> SUFFICES ASSUME Inv, [Next]_vars PROVE Inv'
  OBVIOUS
<1> USE DEF Inv, Goto
<1>1. CASE WorkerEdits
  <2>1. TypeOK'
    <3>1. tree' \in Tree
      BY <1>1, PatchAssumption DEF WorkerEdits, TypeOK, Tree, File, Absent
    <3> QED BY <1>1, <3>1 DEF WorkerEdits, TypeOK
  <2> QED BY <1>1, <2>1 DEF WorkerEdits, PatchIsTheDiff, WorkspaceFollows,
                            RecordIsChecked
<1>2. CASE WorkerAnswers
  BY <1>2 DEF WorkerAnswers, TypeOK, Stage, PatchIsTheDiff, WorkspaceFollows,
              RecordIsChecked
<1>3. CASE Diff
  <2>1. DOMAIN patch' \subseteq Path /\ patch' \in [DOMAIN patch' -> Section]
    BY <1>3, DiffIsATree DEF Diff, TypeOK
  <2>2. paired' \in BOOLEAN
    BY <1>3 DEF Diff, MayPair
  <2>3. TypeOK'
    BY <1>3, <2>1, <2>2 DEF Diff, TypeOK, Stage
  <2> QED BY <1>3, <2>3 DEF Diff, PatchIsTheDiff, WorkspaceFollows,
                            RecordIsChecked
<1>4. CASE Validate
  <2>1. TypeOK'
    BY <1>4 DEF Validate, TypeOK, Stage
  <2>2. PatchBytesOK(patch, paired) => PatchOK(patch, paired)
    BY DEF PatchBytesOK
  <2>3. PatchIsTheDiff' /\ WorkspaceFollows'
    BY <1>4, <2>2 DEF Validate, PatchIsTheDiff, WorkspaceFollows
  <2>4. RecordIsChecked'
    BY <1>4, <2>2 DEF Validate, TypeOK, RecordIsChecked
  <2> QED BY <2>1, <2>3, <2>4
<1>5. CASE Check
  <2>1. Fits(patch, workspace)
    BY <1>5, ReadingCovers DEF Check, TypeOK, PatchIsTheDiff, WorkspaceFollows
  <2> QED BY <1>5, <2>1 DEF Check, TypeOK, Stage, PatchIsTheDiff,
                            WorkspaceFollows, RecordIsChecked
<1>6. CASE Apply
  <2>1. workspace' \in Tree
    BY <1>6, PatchedIsATree DEF Apply, TypeOK
  <2>2. TypeOK'
    BY <1>6, <2>1 DEF Apply, TypeOK, Stage
  <2> QED BY <1>6, <2>2 DEF Apply, PatchIsTheDiff, WorkspaceFollows,
                            RecordIsChecked
<1>7. CASE GitFails
  BY <1>7 DEF GitFails, TypeOK, Stage, PatchIsTheDiff, WorkspaceFollows,
              RecordIsChecked
<1>8. CASE ApplyFails
  <2>1. workspace' \in Tree
    <3>1. PICK some \in SUBSET DOMAIN patch :
            workspace' = Patched([q \in some |-> patch[q]], workspace)
      BY <1>8 DEF ApplyFails
    <3>2. [q \in some |-> patch[q]] \in [some -> Section]
      BY <3>1 DEF TypeOK
    <3> QED BY <3>1, <3>2, PatchedIsATree DEF TypeOK
  <2>2. TypeOK'
    BY <1>8, <2>1 DEF ApplyFails, TypeOK, Stage
  <2> QED BY <1>8, <2>2 DEF ApplyFails, PatchIsTheDiff, WorkspaceFollows,
                            RecordIsChecked
<1>9. CASE Reconcile
  <2>1. /\ patch = ShadowGitDiff(base, tree) /\ PatchOK(patch, paired)
        /\ workspace = Patched(patch, base)
    BY <1>9 DEF Reconcile, PatchIsTheDiff, WorkspaceFollows
  <2>2. /\ Changed(base, workspace) = DOMAIN patch
        /\ Contents(workspace) # Contents(base)
    BY <2>1, ReadingCovers DEF TypeOK
  <2>3. CASE applier = "provider" /\ Reconciled
    <3>1. /\ pc' = "retain" /\ reported' = PathLines(patch)
          /\ digest' = Contents(workspace)
          /\ UNCHANGED <<applier, base, tree, patch, paired, workspace>>
      BY <1>9, <2>2, <2>3 DEF Reconcile
    <3>2. reported' \subseteq Path
      BY <2>3, <3>1 DEF Changed, Reconciled
    <3>3. digest' \in [Path -> [exists : BOOLEAN, text : SUBSET Line]]
      BY <3>1, ContentsType DEF TypeOK
    <3>4. TypeOK'
      BY <3>1, <3>2, <3>3 DEF TypeOK, Stage
    <3>5. PatchIsTheDiff' /\ WorkspaceFollows'
      BY <2>1, <3>1 DEF PatchIsTheDiff, WorkspaceFollows
    <3>6. RecordIsChecked'
      BY <2>1, <2>3, <3>1 DEF RecordIsChecked, Reconciled
    <3> QED BY <3>4, <3>5, <3>6
  <2>4. CASE applier = "provider" /\ ~Reconciled
    <3>1. /\ pc' = "refused"
          /\ UNCHANGED <<applier, base, tree, patch, paired, workspace,
                         reported, digest>>
      BY <1>9, <2>4 DEF Reconcile
    <3> QED BY <2>4, <3>1 DEF TypeOK, Stage, PatchIsTheDiff,
                              WorkspaceFollows, RecordIsChecked
  <2>5. CASE applier = "verifier"
    <3>1. digest = Contents(workspace) /\ Reconciled
      BY <2>1, <2>2, <2>5 DEF RecordIsChecked, Reconciled
    <3>2. /\ pc' = "accepted"
          /\ UNCHANGED <<applier, base, tree, patch, paired, workspace,
                         reported, digest>>
      BY <1>9, <2>5, <3>1 DEF Reconcile
    <3> QED BY <2>1, <2>5, <3>2 DEF TypeOK, Stage, PatchIsTheDiff,
                                    WorkspaceFollows, RecordIsChecked
  <2> QED BY <2>3, <2>4, <2>5 DEF TypeOK
<1>10. CASE Retain
  <2>1. TypeOK'
    BY <1>10 DEF Retain, TypeOK, Stage
  <2> QED BY <1>10, <2>1 DEF Retain, PatchIsTheDiff, WorkspaceFollows,
                             RecordIsChecked
<1>11. CASE UNCHANGED vars
  BY <1>11 DEF vars, TypeOK, PatchIsTheDiff, WorkspaceFollows, RecordIsChecked
<1> QED BY <1>1, <1>2, <1>3, <1>4, <1>5, <1>6, <1>7, <1>8, <1>9, <1>10, <1>11
        DEF Next

\* The whole invariant of the way from the worker's tree to the verifier's.
THEOREM Invariance == Spec => []Inv
BY InvInit, InvNext, PTL DEF Spec

-----------------------------------------------------------------------------
\* Every variable keeps its type.
THEOREM TypeCorrect == Spec => []TypeOK
<1>1. Inv => TypeOK
  BY DEF Inv
<1> QED BY <1>1, Invariance, PTL

\* The reading of validate_patch covers what git apply will do.
THEOREM ReadingCoversGit == Spec => []ValidatedPatchApplies
<1>1. Inv => ValidatedPatchApplies
  <2> SUFFICES ASSUME Inv PROVE ValidatedPatchApplies
    OBVIOUS
  <2>1. pc = "check" => Fits(patch, workspace)
    BY ReadingCovers DEF Inv, TypeOK, PatchIsTheDiff, WorkspaceFollows
  <2>2. pc = "reconcile" =>
          /\ Changed(base, workspace) \subseteq PathLines(patch)
          /\ OnlyGitsLines(patch) => Reconciled
    BY ReadingCovers DEF Inv, TypeOK, PatchIsTheDiff, WorkspaceFollows,
                         Reconciled
  <2> QED BY <2>1, <2>2 DEF ValidatedPatchApplies, Inv, RecordIsChecked
<1> QED BY <1>1, Invariance, PTL

\* What is accepted is what the worker left (shadow_git_diff, git apply).
THEOREM NothingIsLostOrAdded == Spec => []CandidateIsTheWorkersTree
<1>1. Inv => CandidateIsTheWorkersTree
  <2> SUFFICES ASSUME Inv, pc = "accepted", NEW p \in Path
               PROVE  workspace[p] = IF p \in Ignored THEN base[p] ELSE tree[p]
    BY DEF CandidateIsTheWorkersTree
  <2>1. /\ patch = ShadowGitDiff(base, tree)
        /\ workspace = Patched(patch, base)
    BY DEF Inv, PatchIsTheDiff, WorkspaceFollows
  <2>2. /\ DOMAIN patch = {q \in Path \ Ignored : base[q] # tree[q]}
        /\ \A q \in DOMAIN patch : patch[q].new = tree[q]
    BY <2>1, DiffIsATree DEF Inv, TypeOK
  <2>3. workspace[p] = IF p \in DOMAIN patch THEN patch[p].new ELSE base[p]
    BY <2>1 DEF Patched
  <2> QED BY <2>2, <2>3
<1> QED BY <1>1, Invariance, PTL

\* An accepted change is the recorded one, and policy permits it.
THEOREM PolicyHolds == Spec => []AcceptedChangeStaysInPolicy
<1>1. Inv => AcceptedChangeStaysInPolicy
  <2> SUFFICES ASSUME Inv, pc = "accepted"
               PROVE  AcceptedChangeStaysInPolicy
    BY DEF AcceptedChangeStaysInPolicy
  <2> DEFINE touched == {p \in Path : workspace[p] # base[p]}
  <2>1. /\ patch = ShadowGitDiff(base, tree) /\ PatchOK(patch, paired)
        /\ workspace = Patched(patch, base)
        /\ applier = "verifier"
    BY DEF Inv, PatchIsTheDiff, WorkspaceFollows, RecordIsChecked
  <2>2. /\ reported = PathLines(patch)
        /\ ContractOK(reported) /\ ScenarioAllows(reported)
    BY <2>1 DEF Inv, RecordIsChecked
  <2>3. touched = reported
    <3>1. Changed(base, Patched(patch, base)) = PathLines(patch)
      BY <2>1 DEF Inv, RecordIsChecked
    <3> QED BY <2>1, <2>2, <3>1, ReadingCovers DEF Inv, TypeOK
  <2>4. /\ touched # {} /\ Cardinality(touched) <= MaxChangedPaths
        /\ touched \subseteq Permitted \cap ScenarioPaths
    BY <2>2, <2>3 DEF ContractOK, ScenarioAllows
  <2>5. ASSUME NEW p \in touched
        PROVE  \/ workspace[p].mode = base[p].mode
               \/ Absent \in {workspace[p], base[p]}
    <3>1. p \in DOMAIN patch /\ ModesOK(patch)
      BY <2>1, ReadingCovers DEF PatchOK, Inv, TypeOK
    <3>2. patch[p].old = base[p] /\ patch[p].new = workspace[p]
      BY <2>1, <3>1, DiffIsATree DEF Inv, TypeOK, Patched
    <3> QED BY <3>1, <3>2 DEF ModesOK
  <2> QED BY <2>3, <2>4, <2>5 DEF AcceptedChangeStaysInPolicy
<1> QED BY <1>1, Invariance, PTL

-----------------------------------------------------------------------------
\* What git prints of an ordinary repair passes every check of the code.
LEMMA OrdinaryPasses ==
    ASSUME base \in Tree, tree \in Tree, Ordinary(base, tree),
           NEW p, p = ShadowGitDiff(base, tree), NEW pair \in MayPair(p)
    PROVE  /\ OnlyGitsLines(p)
           /\ PatchBytesOK(p, pair)
           /\ ContractOK(PathLines(p)) /\ ScenarioAllows(PathLines(p))
<1> DEFINE files == {q \in Path \ Ignored : base[q] # tree[q]}
<1>1. /\ DOMAIN p = files
      /\ \A q \in DOMAIN p : p[q].old = base[q] /\ p[q].new = tree[q]
  BY DiffIsATree
<1>2. /\ files # {} /\ Cardinality(files) <= MaxChangedPaths
      /\ files \subseteq Permitted \cap ScenarioPaths
      /\ files \cap Odd = {} /\ ScenarioPaths \subseteq Permitted
      /\ \/ \A q \in files : tree[q] # Absent
         \/ \A q \in files : base[q] # Absent
  BY DEF Ordinary
<1>3. ASSUME NEW q \in files
      PROVE  /\ base[q].text # tree[q].text
             /\ base[q].mode # "executable" /\ tree[q].mode # "executable"
             /\ \A l \in base[q].text \cup tree[q].text :
                    l.mark = "code" /\ l.rest = {}
             /\ q \in Path /\ base[q] # tree[q]
             /\ base[q] \in File /\ tree[q] \in File
  BY DEF Ordinary, Tree
<1> HIDE DEF files
<1>4. ASSUME NEW q \in files
      PROVE  \A l \in Printed(p[q]) : l.mark = "code" /\ l.rest = {}
  BY <1>1, <1>3 DEF Printed
<1>5. ~Has(p, "sensitive") /\ ~Has(p, "large") /\ ~Has(p, "binary")
  BY <1>1, <1>4 DEF Has
<1>5a. ASSUME NEW q \in files
        PROVE  Fragments(p[q]) = {} /\ \A mark : Seen(p[q], mark) = {}
  <2>1. UNION {l.rest : l \in Printed(p[q])} = {}
    BY <1>4
  <2>2. Fragments(p[q]) = {}
    BY <2>1 DEF Fragments
  <2> QED BY <2>2 DEF Seen
<1>5b. OnlyGitsLines(p) /\ DiffLines(p) = files
  BY <1>1, <1>5a, NoFragmentIsSeen DEF OnlyGitsLines
<1>6. ModesOK(p)
  <2> SUFFICES ASSUME NEW q \in files
               PROVE  /\ \/ base[q].mode = tree[q].mode
                         \/ Absent \in {base[q], tree[q]}
                      /\ tree[q] # Absent => tree[q].mode = "regular"
                      /\ base[q] # Absent => base[q].mode = "regular"
    BY <1>1, <1>5a DEF ModesOK, Created, Deleted
  <2> QED BY <1>3, FileFields
<1>7. ~pair
  BY <1>1, <1>2 DEF MayPair, Alike, Created, Deleted
<1>8. PathLines(p) = files
  <2>1. ASSUME NEW q \in files
        PROVE  HunkHeaders(p[q]) = {} /\ Seen(p[q], "path") = {}
    <3>1. /\ {k \in p[q].old.text \ p[q].new.text : k.mark = "--"} = {}
          /\ {k \in p[q].new.text \ p[q].old.text : k.mark = "++"} = {}
      BY <1>4 DEF Printed
    <3> QED BY <1>5a, <3>1 DEF HunkHeaders
  <2>2. ASSUME NEW q \in files
        PROVE  q \in FileHeaders(q, p[q])
               /\ FileHeaders(q, p[q]) \subseteq {q, DevNull}
    <3>1. p[q].old.text # p[q].new.text
      BY <1>1, <1>3
    <3>2. ~ \E l \in Printed(p[q]) : l.mark = "binary"
      BY <1>4
    <3>3. p[q].old # Absent \/ p[q].new # Absent
      BY <1>1, <1>3
    <3> QED BY <3>1, <3>2, <3>3 DEF FileHeaders
  <2>3. DevNull \notin files
    BY <1>3, PatchAssumption
  <2> DEFINE names(q) == FileHeaders(q, p[q]) \cup HunkHeaders(p[q])
                             \cup Seen(p[q], "path")
             all == UNION {names(q) : q \in DOMAIN p}
  <2>4. \A q \in files : q \in names(q) /\ names(q) \subseteq {q, DevNull}
    BY <2>1, <2>2
  <2>5. all \ {DevNull} = files
    <3> HIDE DEF names, DevNull
    <3>1. \A x : x \in all <=> \E q \in DOMAIN p : x \in names(q)
      OBVIOUS
    <3> HIDE DEF all
    <3> QED BY <1>1, <2>3, <2>4, <3>1
  <2>6. PathLines(p) = all \ {DevNull}
    BY DEF PathLines
  <2> QED BY <2>5, <2>6, Zenon
<1>9. PathsOK(p, pair)
  <2>1. files \subseteq Path \ Odd
    BY <1>2, <1>3
  <2> QED BY <1>2, <1>7, <1>8, <1>5b, <2>1 DEF PathsOK
<1> QED BY <1>1, <1>2, <1>5, <1>6, <1>8, <1>9, <1>5b
        DEF PatchBytesOK, PatchOK, ContractOK, ScenarioAllows

\* Whether git prints a rename is its choice among those the texts leave.
PairedAsPrinted ==
    pc \in {"validate", "check", "apply", "reconcile", "retain"} =>
        paired \in MayPair(patch)

\* No check along the way refuses an ordinary repair.
LEMMA AcceptedNext ==
    ASSUME Inv, PairedAsPrinted, OrdinaryRepairIsAccepted, [Next]_vars
    PROVE  PairedAsPrinted' /\ OrdinaryRepairIsAccepted'
<1>1. PairedAsPrinted'
  BY DEF PairedAsPrinted, Next, vars, Goto, WorkerEdits, WorkerAnswers, Diff,
         Validate, Check, Apply, GitFails, ApplyFails, Reconcile, Retain
<1>2. ASSUME Ordinary(base, tree)', pc' = "refused", pc # "refused"
      PROVE  FALSE
  <2>1. Validate \/ Check \/ Reconcile \/ Retain
    BY <1>2 DEF Next, vars, Goto, WorkerEdits, WorkerAnswers, Diff, Apply,
                GitFails, ApplyFails
  <2>2. base' = base /\ tree' = tree
    BY <2>1 DEF Validate, Check, Reconcile, Retain
  <2>3. Ordinary(base, tree)
    BY <1>2, <2>2 DEF Ordinary
  <2>4. /\ base \in Tree /\ tree \in Tree /\ paired \in MayPair(patch)
        /\ patch = ShadowGitDiff(base, tree)
        /\ pc \in {"validate", "check", "reconcile", "retain"}
    BY <2>1 DEF Validate, Check, Reconcile, Retain, Inv, TypeOK,
                PatchIsTheDiff, PairedAsPrinted
  <2>5. /\ OnlyGitsLines(patch) /\ PatchBytesOK(patch, paired)
        /\ ContractOK(PathLines(patch)) /\ ScenarioAllows(PathLines(patch))
    BY <2>3, <2>4, OrdinaryPasses
  <2>6. PatchOK(patch, paired)
    BY <2>5 DEF PatchBytesOK
  <2>7. CASE Validate
    BY <1>2, <2>5, <2>6, <2>7 DEF Validate, Goto
  <2>8. CASE Check
    <3>1. Fits(patch, workspace)
      BY <2>4, <2>6, <2>8, ReadingCovers
      DEF Check, Inv, TypeOK, WorkspaceFollows
    <3> QED BY <1>2, <2>8, <3>1 DEF Check, Goto
  <2>9. CASE Reconcile
    <3>1. workspace = Patched(patch, base)
      BY <2>9 DEF Reconcile, Inv, WorkspaceFollows
    <3>2. Reconciled
      BY <2>4, <2>5, <2>6, <3>1, ReadingCovers DEF Inv, TypeOK, Reconciled
    <3>3. applier = "verifier" => Contents(workspace) = digest
      BY <3>1 DEF Inv, RecordIsChecked
    <3> QED BY <1>2, <2>9, <3>2, <3>3 DEF Reconcile, Goto
  <2>10. CASE Retain
    <3>1. reported = PathLines(patch)
      BY <2>10 DEF Retain, Inv, RecordIsChecked
    <3> QED BY <1>2, <2>5, <2>10, <3>1 DEF Retain, Goto
  <2> QED BY <2>1, <2>7, <2>8, <2>9, <2>10
<1>3. pc = "refused" => UNCHANGED vars
  BY DEF Next, WorkerEdits, WorkerAnswers, Diff, Validate, Check, Apply,
         GitFails, ApplyFails, Reconcile, Retain
<1>4. OrdinaryRepairIsAccepted'
  <2> SUFFICES ASSUME Ordinary(base, tree)', pc' = "refused"
               PROVE  FALSE
    BY DEF OrdinaryRepairIsAccepted
  <2>1. pc = "refused"
    BY <1>2
  <2>2. base' = base /\ tree' = tree
    BY <1>3, <2>1 DEF vars
  <2> QED BY <2>1, <2>2 DEF OrdinaryRepairIsAccepted, Ordinary
<1> QED BY <1>1, <1>4

\* The policy is not so strict that it stops an ordinary repair: whatever the
\* repository, the texts of code in the scenario's files may change.
THEOREM RepairsAreAccepted == Spec => []OrdinaryRepairIsAccepted
<1>1. Init => PairedAsPrinted /\ OrdinaryRepairIsAccepted
  BY DEF Init, PairedAsPrinted, OrdinaryRepairIsAccepted
<1>2. Inv /\ PairedAsPrinted /\ OrdinaryRepairIsAccepted /\ [Next]_vars =>
        PairedAsPrinted' /\ OrdinaryRepairIsAccepted'
  BY AcceptedNext
<1> QED BY <1>1, <1>2, Invariance, PTL DEF Spec
=============================================================================
