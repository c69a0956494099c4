------------------------------ MODULE RuleEngine ------------------------------
(***************************************************************************)
(* RuleEngine::check_diff (src/src/rule_engine.rs): the loop as one        *)
(* operator per iteration.                                                 *)
(***************************************************************************)
EXTENDS DiffText, Enumeration

CONSTANT Rules        \* the compiled rules; a rule is the set of Texts it matches

ASSUME RulesAssumption == Rules \in Seq(SUBSET Texts)

RulesStart == [file |-> NoFile, line |-> 0, matches |-> << >>]

\* parse_hunk_start_line; None leaves the number as it is.
EnterHunk(s, l) == IF l.start = NoStart THEN s ELSE [s EXCEPT !.line = l.start]

\* An added line, line i of the diff, is tried with every rule.  A match has
\* the position of its rule; `at` is history: where in the diff it was found.
TryRules(s, i, l) ==
    LET found == Ascending({r \in 1 .. Len(Rules) : l.text \in Rules[r]}, Len(Rules))
    IN  [s EXCEPT !.line = s.line + 1,
                  !.matches = s.matches \o
                      [k \in 1 .. Len(found) |->
                          [at |-> i, rule |-> found[k], file |-> s.file,
                           line |-> s.line + 1]]]

\* Mutants of CheckLine: context is not counted; the first file stays.
CheckLineNoContext(s, i, l) ==
    CASE l.kind = "git" -> [s EXCEPT !.file = ExtractFilePath(l), !.line = 0]
      [] l.kind = "hunk" -> EnterHunk(s, l)
      [] l.kind = "add" /\ ~ StartsWithPlus3(l) -> TryRules(s, i, l)
      [] OTHER -> s

CheckLineFirstFile(s, i, l) ==
    CASE l.kind = "git" /\ s.file = NoFile -> [s EXCEPT !.file = ExtractFilePath(l), !.line = 0]
      [] l.kind = "hunk" -> EnterHunk(s, l)
      [] l.kind = "add" /\ ~ StartsWithPlus3(l) -> TryRules(s, i, l)
      [] l.kind \in {"del", "---", "git"} -> s
      [] OTHER -> [s EXCEPT !.line = s.line + 1]

CheckLine(s, i, l) ==
    CASE l.kind = "git" -> [s EXCEPT !.file = ExtractFilePath(l), !.line = 0]
      [] l.kind = "hunk" -> EnterHunk(s, l)
      [] l.kind = "add" /\ ~ StartsWithPlus3(l) -> TryRules(s, i, l)
      [] l.kind \in {"del", "---"} -> s
      [] OTHER -> [s EXCEPT !.line = s.line + 1]
===============================================================================
