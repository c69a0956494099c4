------------------------------ MODULE AutoApprove ------------------------------
(***************************************************************************)
(* AutoApprover::is_trivial (src/src/auto_approve.rs) with auto-approval   *)
(* enabled.                                                                *)
(***************************************************************************)
EXTENDS DiffText

CONSTANTS Lockfiles,  \* the paths that end with one of lockfile_names
          DocFiles    \* the paths that match one of docs_patterns

Indices(d, Test(_)) == {i \in 1 .. Len(d) : Test(d[i])}

\* Lines the loop of is_whitespace_only takes for changes.
IsChange(l) ==
    \/ l.kind = "add" /\ ~ StartsWithPlus3(l)
    \/ l.kind = "del" /\ ~ StartsWithMinus3(l)

\* Mutant of IsWhitespaceOnly: removed lines are not looked at.
AddsOnlyWhitespace(d) ==
    LET changes == Indices(d, LAMBDA l : l.kind = "add" /\ ~ StartsWithPlus3(l))
    IN  changes # {} /\ \A i \in changes : d[i].text = "blank"

IsWhitespaceOnly(d) ==
    LET changes == Indices(d, IsChange)
    IN  changes # {} /\ \A i \in changes : d[i].text = "blank"

\* is_lockfile_only and is_docs_only: some file is named, and only such files.
NamesOnly(d, files) ==
    LET headers == Indices(d, LAMBDA l : l.kind = "git")
    IN  headers # {} /\ \A i \in headers : ExtractFilePath(d[i]) \in files

\* docs_patterns says whether the list of patterns has any.
IsTrivial(d, config) ==
    \/ d = << >>
    \/ config.skip_whitespace /\ IsWhitespaceOnly(d)
    \/ config.skip_lockfiles /\ NamesOnly(d, Lockfiles)
    \/ config.docs_patterns /\ NamesOnly(d, DocFiles)
===============================================================================
