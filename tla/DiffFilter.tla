------------------------------ MODULE DiffFilter ------------------------------
(***************************************************************************)
(* DiffFilter (src/src/diff_filter.rs) of an engine whose filter is        *)
(* enabled: the loop of filter_diff as one operator per iteration.         *)
(***************************************************************************)
EXTENDS DiffText

CONSTANTS Patterns,   \* the four lists of patterns, as sets
          Lower,      \* to_lowercase of (the first words of) paths
          Matching    \* which pattern's regex matches which text, as written

\* Any pattern of a list that matches.
AnyMatch(list, text) == \E p \in Patterns[list] : <<p, text>> \in Matching

ShouldSkip(path) ==
    \/ Patterns.include # {} /\ ~ AnyMatch("include", Lower[path])
    \/ \E list \in {"exclude", "lockfile", "generated"} : AnyMatch(list, Lower[path])

FilterStart == [result |-> << >>, file |-> NoFile, skip |-> FALSE, hunk |-> << >>]

\* The lines of a file go to the result as a whole, or not at all.  After the
\* loop this is what filter_diff returns.
Flush(f) == IF f.file # NoFile /\ ~ f.skip THEN f.result \o f.hunk ELSE f.result

\* Mutant of FilterLine: the name of the file decides as soon as it is read,
\* about the lines of the file before.
FilterLineEarly(f, l) ==
    IF l.kind = "git"
    THEN LET path == ExtractFilePath(l)
         IN  [result |-> Flush([f EXCEPT !.skip = ShouldSkip(path)]), file |-> path,
              skip |-> ShouldSkip(path), hunk |-> <<l>>]
    ELSE [f EXCEPT !.hunk = Append(f.hunk, l)]

FilterLine(f, l) ==
    IF l.kind = "git"
    THEN LET path == ExtractFilePath(l)
         IN  [result |-> Flush(f), file |-> path, skip |-> ShouldSkip(path),
              hunk |-> <<l>>]
    ELSE [f EXCEPT !.hunk = Append(f.hunk, l)]
===============================================================================
