------------------------------ MODULE ReviewParser ------------------------------
(***************************************************************************)
(* ReviewParser::parse (src/src/inline_comments.rs) on the lines of an LLM *)
(* answer: the loop as one operator per iteration.                         *)
(*                                                                         *)
(* A line is known by the keyword it begins with, its value, and whether   *)
(* what follows is blank.  "inline" lines begin with INLINE, or COMMENT    *)
(* without a colon.  Texts are kept as the numbers of the lines they come  *)
(* from.                                                                   *)
(***************************************************************************)
EXTENDS Naturals, Sequences

CONSTANTS FilePaths, Numbers, NoPath, NoNumber

Verdicts == {"Approve", "RequestChanges", "Comment"}
Levels == {"critical", "warning", "info"}

ASSUME ParserAssumption ==
    /\ Numbers \subseteq Nat
    /\ NoNumber \notin Nat
    /\ NoPath \notin FilePaths

AnswerLines ==
    [kind : {"verdict"}, verdict : Verdicts]
        \cup [kind : {"file"}, path : FilePaths]
        \cup [kind : {"line"}, number : Numbers \cup {NoNumber}]
        \cup [kind : {"severity"}, level : Levels]
        \cup [kind : {"summary", "comment", "text"}, blank : BOOLEAN]
        \cup [kind : {"inline"}, blank : {FALSE}]

ParseStart ==
    [verdict |-> "Comment", summary |-> << >>, comments |-> << >>,
     file |-> NoPath, line |-> NoNumber, severity |-> "info",
     body |-> << >>, written |-> FALSE, inSummary |-> FALSE]

\* The comment in hand is saved if its file and line are known and its body is
\* not blank.  After the last line these are the comments of the review.
Saved(s) ==
    IF s.file # NoPath /\ s.line # NoNumber /\ s.written
    THEN Append(s.comments, [file |-> s.file, line |-> s.line,
                             severity |-> s.severity, body |-> s.body])
    ELSE s.comments

ToSummary(s, i) == [s EXCEPT !.summary = Append(s.summary, i), !.inSummary = TRUE]
ToBody(s, i, l) == [s EXCEPT !.body = Append(s.body, i),
                             !.written = s.written \/ ~ l.blank]

\* Mutant of NextFile: the line number of the comment before is not taken.
NextFileKeepsLine(s, l) ==
    [s EXCEPT !.comments = Saved(s), !.file = l.path, !.severity = "info",
              !.body = << >>, !.written = FALSE]

NextFile(s, l) ==
    [s EXCEPT !.comments = Saved(s), !.file = l.path, !.line = NoNumber,
              !.severity = "info", !.body = << >>, !.written = FALSE]

\* A line outside the summary.
ParseComment(s, i, l) ==
    CASE l.kind = "file" -> NextFile(s, l)
      [] l.kind = "line" -> [s EXCEPT !.line = l.number]
      [] l.kind = "severity" -> [s EXCEPT !.severity = l.level]
      [] l.kind = "comment" -> ToBody(s, i, l)
      [] l.kind \in {"inline", "text"} ->
            IF s.file # NoPath /\ s.line # NoNumber THEN ToBody(s, i, l) ELSE s

\* Mutant of ParseLine: only a file ends the summary.
ParseLineLongSummary(s, i, l) ==
    IF l.kind = "verdict" THEN [s EXCEPT !.verdict = l.verdict]
    ELSE IF l.kind = "summary" \/ (s.inSummary /\ l.kind # "file") THEN ToSummary(s, i)
    ELSE ParseComment([s EXCEPT !.inSummary = FALSE], i, l)

\* Line i of the answer.
ParseLine(s, i, l) ==
    IF l.kind = "verdict" THEN [s EXCEPT !.verdict = l.verdict]
    ELSE IF l.kind = "summary" \/ (s.inSummary /\ l.kind \notin {"file", "inline", "comment"})
    THEN ToSummary(s, i)
    ELSE ParseComment([s EXCEPT !.inSummary = FALSE], i, l)
===============================================================================
