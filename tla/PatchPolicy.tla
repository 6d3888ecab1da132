----------------------------- MODULE PatchPolicy -----------------------------
(***************************************************************************)
(* How the tree a worker leaves becomes a patch, and how that patch is     *)
(* read twice by two readers that need not agree: by validate_patch and    *)
(* patch_paths (scripts/runner.py), which look at the start of every line, *)
(* and by git apply, which knows where a hunk ends.  Nor do they agree on  *)
(* what a line is: git ends one at a newline only, str.splitlines (843,    *)
(* 887) also at \r, \v, \f, \x1c to \x1e, \x85, U+2028 and U+2029.        *)
(*                                                                         *)
(* A file is its mode and the set of its lines, which are git's.  A line   *)
(* is known by what a reader of the patch could take it for, and by the    *)
(* same of the fragments that follow such a separator in it.  A patch maps *)
(* each path that has a section in it to the file before and after.        *)
(***************************************************************************)
EXTENDS Naturals, FiniteSets

CONSTANTS
    Path,             \* every path of the workspace
    Permitted,        \* those under ALLOWED_PATCH_PREFIXES
    Odd,              \* those with a space, or which git prints in quotes
    Ignored,          \* those that the tree's .gitignore hides
    ScenarioPaths,    \* allowed_changed_paths of the scenario
    MaxChangedPaths,  \* MAX_DEEPAGENTS_CHANGED_PATHS
    Bases,            \* the repositories that may be under repair
    Drafts,           \* the files a worker may write
    MaxEdits          \* bound of the model: paths the worker may change

DevNull == "/dev/null"
Other == "other"      \* a path header with neither a/ nor b/ in front
HeaderName == Path \cup {DevNull, Other}

\* A fragment of a line that splitlines takes for a line of its own: it looks
\* like "diff --git", with one path twice or malformed (Other); like "--- " or
\* "+++ " with a name; or like metadata that is always refused, of a rename, a
\* copy or a change of mode.  Fragments of any other text mean nothing.
Fragment == [mark : {"diff", "path", "metadata"}, names : HeaderName]

\* What a line may be: plain text; a raw sensitive marker or a forbidden
\* surface; bytes that make the file binary; more than 128 KiB; text that
\* starts with "-- " or "++ " and goes on with a name.
Line == [mark : {"code", "sensitive", "binary", "large", "--", "++"},
         names : HeaderName,
         rest : SUBSET Fragment]
Absent == [mode |-> "absent", text |-> {}]
File == [mode : {"regular", "executable"}, text : SUBSET Line] \cup {Absent}
Tree == [Path -> File]
Section == [old : File, new : File]

ASSUME PatchAssumption ==
    /\ IsFiniteSet(Path) /\ DevNull \notin Path /\ Other \notin Path
    /\ Permitted \subseteq Path /\ Odd \subseteq Path /\ Ignored \subseteq Path
    /\ Bases \subseteq Tree /\ Drafts \subseteq File
    /\ MaxChangedPaths \in Nat /\ MaxEdits \in Nat

VARIABLES
    pc,         \* where the candidate is
    applier,    \* who applies it: the provider, then the verifier
    base,       \* the repository
    tree,       \* the tree the worker leaves
    patch,      \* the shadow diff: a function from paths to sections
    paired,     \* whether git printed a deletion and a creation as a rename
    workspace,  \* the workspace to which the patch is applied
    reported,   \* changed_paths of the candidate record
    digest      \* candidate_digest of the candidate record

vars == <<pc, applier, base, tree, patch, paired, workspace, reported, digest>>

Stage == {"edit", "diff", "validate", "check", "apply", "reconcile", "retain",
          "accepted", "refused", "failed"}

\* What tree_digest and workspace_file_digests see of a tree: not the modes.
Contents(t) == [p \in Path |-> [exists |-> t[p] # Absent, text |-> t[p].text]]
Changed(before, after) ==
    {p \in Path : Contents(before)[p] # Contents(after)[p]}

NoPatch == [p \in {} |-> [old |-> Absent, new |-> Absent]]

TypeOK ==
    /\ pc \in Stage
    /\ applier \in {"provider", "verifier"}
    /\ base \in Tree /\ tree \in Tree /\ workspace \in Tree
    /\ DOMAIN patch \subseteq Path
    /\ patch \in [DOMAIN patch -> Section]
    /\ paired \in BOOLEAN
    /\ reported \subseteq Path
    /\ digest \in [Path -> [exists : BOOLEAN, text : SUBSET Line]]

Init ==
    /\ pc = "edit" /\ applier = "provider"
    /\ base \in Bases /\ tree = base /\ workspace = base
    /\ patch = NoPatch /\ paired = FALSE
    /\ reported = {} /\ digest = Contents(base)

-----------------------------------------------------------------------------
(***************************************************************************)
(* What git prints (external, as the code uses it).                        *)
(***************************************************************************)
Created(s) == s.old = Absent /\ s.new # Absent
Deleted(s) == s.old # Absent /\ s.new = Absent
Printed(s) == s.old.text \cup s.new.text  \* a file is shorter than a context
Has(p, mark) == \E q \in DOMAIN p : \E l \in Printed(p[q]) : l.mark = mark

\* A deletion and a creation of the same text are printed as a rename, and
\* those of texts with a line in common may be.
Same(p, d, c) ==
    Deleted(p[d]) /\ Created(p[c]) /\ p[d].old.text = p[c].new.text
Alike(p, d, c) ==
    Deleted(p[d]) /\ Created(p[c]) /\ p[d].old.text \cap p[c].new.text # {}
MayPair(p) ==
    {b \in BOOLEAN :
        /\ b => \E d, c \in DOMAIN p : Alike(p, d, c)
        /\ ~b => ~ \E d, c \in DOMAIN p : Same(p, d, c) /\ Alike(p, d, c)}

\* The --- and +++ lines in front of a section's hunks: none where the text
\* stays (an empty file comes or goes, only the mode changes) or is binary.
FileHeaders(q, s) ==
    IF s.old.text = s.new.text \/ \E l \in Printed(s) : l.mark = "binary"
    THEN {}
    ELSE {IF s.old = Absent THEN DevNull ELSE q,
          IF s.new = Absent THEN DevNull ELSE q}

\* The lines of a hunk that start with "--- " or "+++ " themselves.
HunkHeaders(s) ==
    IF \E l \in Printed(s) : l.mark = "binary" THEN {}
    ELSE {l.names : l \in {k \in s.old.text \ s.new.text : k.mark = "--"}}
         \cup {l.names : l \in {k \in s.new.text \ s.old.text : k.mark = "++"}}

\* What splitlines finds in a section's hunks beside git's lines.
Fragments(s) ==
    IF s.old.text = s.new.text \/ \E l \in Printed(s) : l.mark = "binary"
    THEN {}
    ELSE UNION {l.rest : l \in Printed(s)}
Seen(s, mark) == {f.names : f \in {g \in Fragments(s) : g.mark = mark}}

\* What git apply accepts, and what it then makes of a tree.
Fits(p, t) == \A q \in DOMAIN p : t[q] = p[q].old
Patched(p, t) ==
    [q \in Path |-> IF q \in DOMAIN p THEN p[q].new ELSE t[q]]

-----------------------------------------------------------------------------
(***************************************************************************)
(* Faulty variants of definitions below, used by no specification: each is *)
(* a plausible mistake that the property named with it must notice.        *)
(***************************************************************************)
\* AcceptedChangeStaysInPolicy: one path of the scenario is enough.
ScenarioAllowsSome(paths) ==
    /\ ScenarioPaths # {} /\ ScenarioPaths \subseteq Permitted
    /\ paths \cap ScenarioPaths # {}

\* CandidateIsTheWorkersTree: new files are not added before the diff.
ShadowGitDiffTracked(from, to) ==
    [q \in {r \in Path \ Ignored : from[r] # to[r] /\ from[r] # Absent} |->
        [old |-> from[q], new |-> to[q]]]

\* ValidatedPatchApplies: the diff headers are not compared with the paths.
PathsOKUncompared(p, pair) ==
    LET paths == (UNION {FileHeaders(q, p[q]) \cup HunkHeaders(p[q])
                             \cup Seen(p[q], "path") : q \in DOMAIN p})
                     \ {DevNull}
    IN  /\ ~pair /\ DOMAIN p \cap Odd = {}
        /\ paths # {} /\ paths \subseteq Permitted

\* OrdinaryRepairIsAccepted: /dev/null counts as a path.
PathLinesWithDevNull(p) ==
    UNION {FileHeaders(q, p[q]) \cup HunkHeaders(p[q])
               \cup Seen(p[q], "path") : q \in DOMAIN p}

-----------------------------------------------------------------------------
(***************************************************************************)
(* The readers in runner.py.                                               *)
(***************************************************************************)
\* shadow_git_diff: new files are added with intent, ignored ones are not.
ShadowGitDiff(from, to) ==
    [q \in {r \in Path \ Ignored : from[r] # to[r]} |->
        [old |-> from[q], new |-> to[q]]]

\* The names patch_paths takes from lines that start with "--- " or "+++ ",
\* whether they head a section, lie in a hunk or are a fragment of a line.
PathLines(p) ==
    (UNION {FileHeaders(q, p[q]) \cup HunkHeaders(p[q])
                \cup Seen(p[q], "path") : q \in DOMAIN p})
        \ {DevNull}

\* The paths it takes from lines that start with "diff --git ".
DiffLines(p) == DOMAIN p \cup UNION {Seen(p[q], "diff") : q \in DOMAIN p}

\* patch_paths accepts; what it returns is PathLines(p).
PathsOK(p, pair) ==
    /\ ~pair
    /\ DiffLines(p) \subseteq Path \ Odd
    /\ PathLines(p) # {}
    /\ PathLines(p) = DiffLines(p)
    /\ PathLines(p) \subseteq Permitted

\* No old mode or new mode line, and every other mode is 100644; nor does a
\* fragment look like such a line, or like that of a rename or copy.
ModesOK(p) ==
    \A q \in DOMAIN p :
        /\ Seen(p[q], "metadata") = {}
        /\ p[q].old.mode = p[q].new.mode \/ Absent \in {p[q].old, p[q].new}
        /\ Created(p[q]) => p[q].new.mode = "regular"
        /\ Deleted(p[q]) => p[q].old.mode = "regular"

\* validate_patch, and around it validate_deepagents_patch_bytes.
PatchOK(p, pair) == ~Has(p, "sensitive") /\ ModesOK(p) /\ PathsOK(p, pair)
PatchBytesOK(p, pair) ==
    /\ DOMAIN p # {} /\ ~Has(p, "large") /\ ~Has(p, "binary")
    /\ PatchOK(p, pair)
    /\ Cardinality(PathLines(p)) <= MaxChangedPaths

\* validate_candidate_contract and validate_scenario_candidate_paths.
ContractOK(paths) ==
    /\ paths # {} /\ Cardinality(paths) <= MaxChangedPaths
    /\ paths \subseteq Permitted
ScenarioAllows(paths) ==
    /\ ScenarioPaths # {} /\ ScenarioPaths \subseteq Permitted
    /\ paths \ ScenarioPaths = {}

-----------------------------------------------------------------------------
(***************************************************************************)
(* The steps.                                                              *)
(***************************************************************************)
Goto(stage) == pc' = stage

\* The worker writes, creates or deletes a file, or makes it executable.
WorkerEdits ==
    /\ pc = "edit"
    /\ \E p \in Path, f \in Drafts \cup {Absent} :
        tree' = [tree EXCEPT ![p] = f]
    /\ Cardinality({p \in Path : tree'[p] # base[p]}) <= MaxEdits
    /\ UNCHANGED <<pc, applier, base, patch, paired, workspace, reported,
                   digest>>

WorkerAnswers ==
    /\ pc = "edit" /\ Goto("diff")
    /\ UNCHANGED <<applier, base, tree, patch, paired, workspace, reported,
                   digest>>

Diff ==
    /\ pc = "diff" /\ Goto("validate")
    /\ patch' = ShadowGitDiff(base, tree)
    /\ paired' \in MayPair(patch')
    /\ UNCHANGED <<applier, base, tree, workspace, reported, digest>>

\* validate_deepagents_patch_bytes in create_candidate, whose list of paths
\* apply_candidate computes again from the file; the verifier starts there.
Validate ==
    /\ pc = "validate"
    /\ LET ok == IF applier = "provider" THEN PatchBytesOK(patch, paired)
                                         ELSE PatchOK(patch, paired)
       IN  IF ok THEN Goto("check") ELSE Goto("refused")
    /\ UNCHANGED <<applier, base, tree, patch, paired, workspace, reported,
                   digest>>

\* git apply --check
Check ==
    /\ pc = "check"
    /\ IF Fits(patch, workspace) THEN Goto("apply") ELSE Goto("refused")
    /\ UNCHANGED <<applier, base, tree, patch, paired, workspace, reported,
                   digest>>

\* git apply
Apply ==
    /\ pc = "apply" /\ Goto("reconcile")
    /\ workspace' = Patched(patch, workspace)
    /\ UNCHANGED <<applier, base, tree, patch, paired, reported, digest>>

\* A call of git runs into its time limit, or the deadline is over.
GitFails ==
    /\ pc \in {"diff", "check"} /\ Goto("failed")
    /\ UNCHANGED <<applier, base, tree, patch, paired, workspace, reported,
                   digest>>

\* The same while git apply is writing, file by file.
ApplyFails ==
    /\ pc = "apply" /\ Goto("failed")
    /\ \E some \in SUBSET DOMAIN patch :
        workspace' = Patched([q \in some |-> patch[q]], workspace)
    /\ UNCHANGED <<applier, base, tree, patch, paired, reported, digest>>

\* The rest of apply_candidate, and what its caller does with the answer: the
\* provider makes the candidate record, run_independent compares the digest.
Reconciled == /\ Changed(base, workspace) = PathLines(patch)
              /\ Contents(workspace) # Contents(base)
Reconcile ==
    /\ pc = "reconcile"
    /\ LET ok == /\ Reconciled
                 /\ applier = "verifier" => Contents(workspace) = digest
       IN  IF ok /\ applier = "provider"
           THEN /\ Goto("retain")
                /\ reported' = PathLines(patch)
                /\ digest' = Contents(workspace)
           ELSE /\ IF ok THEN Goto("accepted") ELSE Goto("refused")
                /\ UNCHANGED <<reported, digest>>
    /\ UNCHANGED <<applier, base, tree, patch, paired, workspace>>

\* run_flow retains the patch, checks the record, and has the patch applied
\* again, in a workspace made from the repository for the verifier.
Retain ==
    /\ pc = "retain"
    /\ IF /\ PatchBytesOK(patch, paired) /\ PathLines(patch) = reported
          /\ ContractOK(reported) /\ ScenarioAllows(reported)
       THEN Goto("validate") /\ applier' = "verifier" /\ workspace' = base
       ELSE Goto("refused") /\ UNCHANGED <<applier, workspace>>
    /\ UNCHANGED <<base, tree, patch, paired, reported, digest>>

Next ==
    \/ WorkerEdits \/ WorkerAnswers \/ Diff \/ Validate \/ Check \/ Apply
    \/ GitFails \/ ApplyFails \/ Reconcile \/ Retain

Spec == Init /\ [][Next]_vars

-----------------------------------------------------------------------------
(***************************************************************************)
(* Properties.                                                             *)
(***************************************************************************)
\* An accepted candidate changes, in the workspace that was verified, exactly
\* the paths its record names, as many as policy allows, each one permitted
\* by the policy and by the scenario, and no mode
\* (docs/hermes-parity.md:36, "post-apply path reconciliation").
AcceptedChangeStaysInPolicy ==
    pc = "accepted" =>
        LET touched == {p \in Path : workspace[p] # base[p]}
        IN  /\ touched = reported /\ touched # {}
            /\ Cardinality(touched) <= MaxChangedPaths
            /\ touched \subseteq Permitted \cap ScenarioPaths
            /\ \A p \in touched :
                   \/ workspace[p].mode = base[p].mode
                   \/ Absent \in {workspace[p], base[p]}

\* What is verified and delivered is what the worker left, new and deleted
\* files included, and nothing else: only files that the tree ignores stay
\* behind (the way through shadow_git_diff and git apply loses nothing).
CandidateIsTheWorkersTree ==
    pc = "accepted" =>
        \A p \in Path :
            workspace[p] = IF p \in Ignored THEN base[p] ELSE tree[p]

\* What validate_patch lets through git can apply, and git changes no path
\* that the line-by-line reading has not named and checked.  It may name more
\* (a fragment of a line that splitlines takes for a header), and then the
\* comparison of the applied paths (1134) refuses the candidate, which it does
\* in no other case.  Nothing that passed there once is refused when the
\* verifier applies it again.
OnlyGitsLines(p) == \A q \in DOMAIN p : Fragments(p[q]) = {}
ValidatedPatchApplies ==
    /\ pc = "check" => Fits(patch, workspace)
    /\ pc = "reconcile" =>
          /\ Changed(base, workspace) \subseteq PathLines(patch)
          /\ OnlyGitsLines(patch) => Reconciled
    /\ applier = "verifier" => pc # "refused"

\* An ordinary repair of the scenario's files is never refused: texts that
\* change and hold nothing forbidden, no mode, not both a deletion and a
\* creation, no empty file coming or going, and no changed line that starts
\* with "-- " or "++ " (an SQL comment does), or with a header's text behind a
\* form feed or the like, which patch_paths would read as a path header.
Ordinary(from, to) ==
    LET files == {p \in Path \ Ignored : from[p] # to[p]}
        lines(p) == from[p].text \cup to[p].text
        regular(p) == /\ from[p].text # to[p].text
                      /\ "executable" \notin {from[p].mode, to[p].mode}
                      /\ \A l \in lines(p) : l.mark = "code" /\ l.rest = {}
    IN  /\ files # {} /\ Cardinality(files) <= MaxChangedPaths
        /\ files \subseteq Permitted \cap ScenarioPaths
        /\ files \cap Odd = {} /\ ScenarioPaths \subseteq Permitted
        /\ \A p \in files : regular(p)
        /\ \/ \A p \in files : to[p] # Absent
           \/ \A p \in files : from[p] # Absent
OrdinaryRepairIsAccepted == Ordinary(base, tree) => pc # "refused"
=============================================================================
