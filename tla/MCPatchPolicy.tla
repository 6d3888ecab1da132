---------------------------- MODULE MCPatchPolicy ----------------------------
(***************************************************************************)
(* PatchPolicy over six paths: two of the scenario, one of which is new,   *)
(* one that is only permitted, one outside the policy, one with a space in *)
(* its name, one that is ignored.                                          *)
(***************************************************************************)
EXTENDS PatchPolicy

CONSTANTS old, new, near, out, odd, hidden

L(mark, names) == [mark |-> mark, names |-> names, rest |-> {}]
F(lines) == [mode |-> "regular", text |-> lines]
Code == L("code", Other)

\* A line of code with fragments behind a form feed.
R(marks, name) ==
    [Code EXCEPT !.rest = {[mark |-> m, names |-> name] : m \in marks}]

Paths == {old, new, near, out, odd, hidden}
OnlyOld(lines) ==
    [p \in Paths |-> IF p \in {old, out} THEN F({Code} \cup lines) ELSE Absent]

\* The file under repair is plain, or has a line that prints like a header:
\* of itself, of the new file, or an SQL comment; or
\* it has fragments that look like the headers of the new file.
SomeBases ==
    {OnlyOld({}), OnlyOld({L("--", old)}), OnlyOld({L("--", new)}),
     OnlyOld({L("--", Other)}), OnlyOld({L("--", DevNull)}),
     OnlyOld({R({"diff", "path"}, new)})}

SomeDrafts ==
    {F({}), F({Code}), F({Code, L("code", old)}), F({Code, L("++", new)}),
     F({L("sensitive", Other)}), F({L("binary", Other)}),
     F({L("large", Other)}), F({Code, R({"diff", "path"}, near)}),
     F({Code, R({"metadata"}, Other)}),
     [mode |-> "executable", text |-> {Code}]}
=============================================================================
