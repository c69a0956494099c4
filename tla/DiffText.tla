------------------------------- MODULE DiffText -------------------------------
(***************************************************************************)
(* The output of `git diff base..head` (src/src/review.rs:133), the text   *)
(* DiffFilter, AutoApprover and RuleEngine read line by line.  A line is   *)
(* known by its kind and by the part of it the passes look at.             *)
(***************************************************************************)
EXTENDS Naturals, FiniteSets, Sequences

CONSTANTS Paths,      \* paths of changed files, as on the a/ side
          FirstWord,  \* a path up to its first blank
          Starts,     \* first new line numbers of hunks
          NoStart,    \* parse_hunk_start_line answers None
          NoFile

\* What a changed line consists of, after its + or -: "dashes" begins with --
\* and "pluses" with ++, so that the line looks like --- or +++ of a header.
Texts == {"code", "odd", "blank", "dashes", "pluses"}

ASSUME DiffAssumption ==
    /\ FirstWord \in [Paths -> STRING]
    /\ Starts \subseteq Nat
    /\ NoStart \notin Nat
    /\ NoFile \notin STRING

\* "index" is the extended header, whatever its lines are, and the line git
\* writes for a binary file.
GitLines == [kind : {"git"}, path : Paths]
HunkLines == [kind : {"hunk"}, start : Starts \cup {NoStart}]
ChangedLines == [kind : {"add", "del"}, text : Texts]
OtherLines == [kind : {"index", "---", "+++", "context", "no newline"}]
DiffLines == GitLines \cup HunkLines \cup ChangedLines \cup OtherLines

\* extract_file_path: the third word of the line, without its a/.
ExtractFilePath(l) == FirstWord[l.path]

StartsWithPlus3(l) == l.kind = "+++" \/ (l.kind = "add" /\ l.text = "pluses")
StartsWithMinus3(l) == l.kind = "---" \/ (l.kind = "del" /\ l.text = "dashes")
-------------------------------------------------------------------------------
(* what git writes *)

\* The line of d that begins the file of line i; the hunk line i is in.
FileOf(d, i) == CHOOSE j \in 1 .. i :
    d[j].kind = "git" /\ \A k \in j + 1 .. i : d[k].kind # "git"
HunkOf(d, i) == CHOOSE j \in 1 .. i :
    d[j].kind = "hunk" /\ \A k \in j + 1 .. i : d[k].kind # "hunk"

InBody == {"hunk", "context", "add", "del"}

\* The last line of the old or of the new file has been written.
AtFileEnd(d) ==
    \E j \in FileOf(d, Len(d)) .. Len(d) : d[j].kind = "no newline"

\* git leaves the count of one line out; then parse_hunk_start_line looks for a
\* comma in the rest of the header, and fails if the function named there has
\* one.  So a hunk whose start is not found has one line of the new file.
HasRoom(d) ==
    LET h == HunkOf(d, Len(d))
    IN  d[h].start = NoStart => \A j \in h + 1 .. Len(d) : d[j].kind \notin {"context", "add"}

\* May line l come next in d?
Follows(d, l) ==
    LET last == IF d = << >> THEN "start" ELSE d[Len(d)].kind
    IN  CASE l.kind = "git" ->
               /\ last \in {"start", "index", "context", "add", "del", "no newline"}
               /\ \A j \in 1 .. Len(d) : d[j] # l
          [] l.kind = "index" -> last = "git"
          [] l.kind = "---" -> last = "index"
          [] l.kind = "+++" -> last = "---"
          [] l.kind = "hunk" -> last = "+++" \/ (last \in InBody \ {"hunk"} /\ ~ AtFileEnd(d))
          [] l.kind = "context" -> last \in InBody /\ ~ AtFileEnd(d) /\ HasRoom(d)
          [] l.kind = "del" -> last \in InBody \ {"add"} /\ ~ AtFileEnd(d)
          [] l.kind = "add" -> /\ \/ last \in InBody
                                  \/ last = "no newline" /\ d[Len(d) - 1].kind = "del"
                               /\ HasRoom(d)
          [] l.kind = "no newline" -> last \in InBody \ {"hunk"}

\* The number in the new file of line i, an added line of a hunk that starts at
\* a known line.
NewLineNumber(d, i) ==
    LET h == HunkOf(d, i)
    IN  d[h].start + Cardinality({j \in h + 1 .. i - 1 : d[j].kind \in {"context", "add"}})
===============================================================================
