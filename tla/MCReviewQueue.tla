----------------------------- MODULE MCReviewQueue -----------------------------
(***************************************************************************)
(* Instances of ReviewQueue for TLC: two jobs of one repository and one    *)
(* of another.                                                             *)
(***************************************************************************)
EXTENDS ReviewQueue, TLC

CONSTANTS a1, a2, b1, ra, rb

\* a1 and a2 belong to one repository, b1 to another.
TwoRepos == [w \in Works |-> IF w = b1 THEN rb ELSE ra]

\* The jobs of one repository can be exchanged.
SymmetryTwoRepos == Permutations({a1, a2})
===============================================================================
