------------------------------ MODULE ReviewText ------------------------------
(***************************************************************************)
(* The texts of a review and the passes over them: the diff that git       *)
(* writes goes through DiffFilter, what is left through AutoApprover; the  *)
(* diff also through RuleEngine; the answer of the LLM through             *)
(* ReviewParser.  A step reads one more line, whatever line may come next, *)
(* so that the properties hold for every text.                             *)
(***************************************************************************)
EXTENDS DiffFilter, AutoApprove, RuleEngine, ReviewParser, FiniteSetsExt

CONSTANTS MaxDiff, MaxAnswer    \* bounds: lines of a diff, of an answer

ASSUME BoundsAssumption == MaxDiff \in Nat /\ MaxAnswer \in Nat

VARIABLES diff, filter, rules,  \* the lines so far, the loops' variables
          answer, parser

vars == <<diff, filter, rules, answer, parser>>

Init ==
    /\ diff = << >> /\ filter = FilterStart /\ rules = RulesStart
    /\ answer = << >> /\ parser = ParseStart

\* The two texts are enumerated one at a time: the passes share nothing.
ReadDiffLine(l) ==
    /\ Len(diff) < MaxDiff /\ answer = << >>
    /\ Follows(diff, l)
    /\ diff' = Append(diff, l)
    /\ filter' = FilterLine(filter, l)
    /\ rules' = CheckLine(rules, Len(diff) + 1, l)
    /\ UNCHANGED <<answer, parser>>

\* An LLM may answer anything.
ReadAnswerLine(l) ==
    /\ Len(answer) < MaxAnswer /\ diff = << >>
    /\ answer' = Append(answer, l)
    /\ parser' = ParseLine(parser, Len(answer) + 1, l)
    /\ UNCHANGED <<diff, filter, rules>>

Next ==
    \/ \E l \in DiffLines : ReadDiffLine(l)
    \/ \E l \in AnswerLines : ReadAnswerLine(l)

Spec == Init /\ [][Next]_vars
-------------------------------------------------------------------------------
FilterDiff == Flush(filter)
Comments == Saved(parser)

Configs == [skip_whitespace : BOOLEAN, skip_lockfiles : BOOLEAN, docs_patterns : BOOLEAN]

\* The line numbers in S, in order.
InOrder(S) == Ascending(S, MaxDiff + MaxAnswer)
-------------------------------------------------------------------------------
(* Properties of the passes over the diff *)

\* The path of the file line i is about.
PathAt(i) == ExtractFilePath(diff[FileOf(diff, i)])

\* Line-by-line filtering gives the same as dropping whole files: a line stays
\* exactly if its own file stays, every line once and in its place, whatever
\* the files before and after it are.
FilterKeepsWholeFiles ==
    LET kept == InOrder({i \in 1 .. Len(diff) : ~ ShouldSkip(PathAt(i))})
    IN  FilterDiff = [k \in 1 .. Len(kept) |-> diff[kept[k]]]

\* What is approved unseen.  If what the filter left is called trivial, a
\* changed line that is not blank is in a file that the filter skips, or that
\* is a lockfile or documentation by the path the passes read, or it looks like
\* a --- or +++ line.  Such lines are overlooked, and so are files that have no
\* hunk (binary, renamed, of a new mode): they leave a diff trivial whose other
\* changed lines are blank.  Nothing else is overlooked.
HeaderLike(l) ==
    \/ l.kind = "add" /\ l.text = "pluses"
    \/ l.kind = "del" /\ l.text = "dashes"
Changed == {i \in 1 .. Len(diff) : diff[i].kind \in {"add", "del"}}
TrivialHidesExactly ==
    \A config \in Configs :
        /\ IsTrivial(FilterDiff, config) =>
             \A i \in Changed :
                 \/ diff[i].text = "blank" \/ HeaderLike(diff[i])
                 \/ ShouldSkip(PathAt(i)) \/ PathAt(i) \in Lockfiles \cup DocFiles
        /\ LET left == {i \in Changed : ~ ShouldSkip(PathAt(i)) /\ ~ HeaderLike(diff[i])}
           IN  config.skip_whitespace /\ left # {} /\ (\A i \in left : diff[i].text = "blank")
                 => IsTrivial(FilterDiff, config)

\* A rule is reported for exactly the added lines it matches (those that begin
\* with ++ are lost), in the order of the diff, with the file of that line,
\* whatever hunks and files came before.
MatchesAreAddedLines ==
    LET m == rules.matches
        added == {i \in 1 .. Len(diff) : diff[i].kind = "add" /\ diff[i].text # "pluses"}
    IN  /\ {<<m[k].at, m[k].rule>> : k \in 1 .. Len(m)}
             = {p \in added \X (1 .. Len(Rules)) : diff[p[1]].text \in Rules[p[2]]}
        /\ \A k, n \in 1 .. Len(m) : k < n =>
             m[k].at <= m[n].at /\ <<m[k].at, m[k].rule>> # <<m[n].at, m[n].rule>>
        /\ \A k \in 1 .. Len(m) : m[k].file = PathAt(m[k].at)

\* In a hunk whose header can be read, the reported line is one more than the
\* line's number in the new file, and one more again after a "No newline"
\* marker: removed lines, header lines and earlier hunks do not disturb it.
MatchLineIsOneTooHigh ==
    \A k \in 1 .. Len(rules.matches) :
        LET i == rules.matches[k].at
            h == HunkOf(diff, i)
        IN  diff[h].start # NoStart =>
              rules.matches[k].line = NewLineNumber(diff, i) + 1
                  + Cardinality({j \in h .. i : diff[j].kind = "no newline"})

\* "Skip files matching these patterns" (README.md:122): no line of a file that
\* an exclude pattern matches as it is written is left.
SkipsExcludedFiles ==
    \A i \in 1 .. Len(FilterDiff) :
        FilterDiff[i].kind = "git" =>
            ~ AnyMatch("exclude", ExtractFilePath(FilterDiff[i]))
-------------------------------------------------------------------------------
(* Properties of the parser *)

InSummary(i) ==
    /\ answer[i].kind \notin {"verdict", "file", "inline", "comment"}
    /\ \E j \in 1 .. i : /\ answer[j].kind = "summary"
                        /\ \A k \in j .. i : answer[k].kind \notin {"file", "inline", "comment"}

\* The lines from FILE line b up to the next; those among them, before line e,
\* that begin with LINE or SEVERITY and count.
Block(b) == {i \in b .. Len(answer) : \A j \in b + 1 .. i : answer[j].kind # "file"}
Given(kind, b, e) ==
    {i \in Block(b) : i < e /\ answer[i].kind = kind /\ ~ InSummary(i)}
HasNumber(b, e) ==
    LET given == Given("line", b, e)
    IN  given # {} /\ answer[Max(given)].number # NoNumber
BodyOf(b) ==
    {i \in Block(b) :
        \/ answer[i].kind = "comment"
        \/ answer[i].kind \in {"inline", "text"} /\ ~ InSummary(i) /\ HasNumber(b, i)}

\* Every comment is made from one block of the answer, from FILE to FILE, and
\* from nothing outside it: its last LINE, its last SEVERITY, all its text.
\* No block with a line number and a text is lost, and none gives two comments.
CommentsComeFromBlocks ==
    LET n == Len(answer) + 1
        blocks == InOrder({b \in 1 .. Len(answer) :
                     /\ answer[b].kind = "file" /\ HasNumber(b, n)
                     /\ \E i \in BodyOf(b) : ~ answer[i].blank})
    IN  Comments = [k \in 1 .. Len(blocks) |->
            LET b == blocks[k]
                levels == Given("severity", b, n)
            IN  [file |-> answer[b].path,
                 line |-> answer[Max(Given("line", b, n))].number,
                 severity |-> IF levels = {} THEN "info" ELSE answer[Max(levels)].level,
                 body |-> InOrder(BodyOf(b))]]

\* The summary has exactly the lines of its sections (which, with
\* CommentsComeFromBlocks, are in no comment), and the last verdict counts.
SummaryIsItsSections ==
    LET verdicts == {i \in 1 .. Len(answer) : answer[i].kind = "verdict"}
    IN  /\ parser.summary = InOrder({i \in 1 .. Len(answer) : InSummary(i)})
        /\ parser.verdict = IF verdicts = {} THEN "Comment"
                            ELSE answer[Max(verdicts)].verdict
===============================================================================
