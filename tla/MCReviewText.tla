----------------------------- MODULE MCReviewText -----------------------------
(***************************************************************************)
(* Instances of ReviewText for TLC: source, documentation, a lockfile, an  *)
(* excluded file with capitals in its name and a file with a blank in its  *)
(* name, two rules, and the patterns that matter for them.                 *)
(***************************************************************************)
EXTENDS ReviewText, TLC

SomePaths == {"a.rs", "b.md", "deps.lock", "LICENSE", "my notes.md"}
Words == [p \in SomePaths |-> IF p = "my notes.md" THEN "my" ELSE p]
LowerCase == [p \in {Words[q] : q \in SomePaths} |-> IF p = "LICENSE" THEN "license" ELSE p]
SomePatterns == [include |-> {}, exclude |-> {"LICENSE"},
                 lockfile |-> {"*.lock"}, generated |-> {"dist/"}]
Regexes == {<<"LICENSE", "LICENSE">>, <<"*.lock", "deps.lock">>}
Locks == {"deps.lock"}
Docs == {"b.md"}

\* The first rule matches odd lines, the second odd lines and those with ++.
TwoRules == <<{"odd"}, {"odd", "pluses"}>>
===============================================================================
