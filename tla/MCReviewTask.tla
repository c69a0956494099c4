----------------------------- MODULE MCReviewTask -----------------------------
(* Finite instances of ReviewTask for TLC. *)
EXTENDS ReviewTask, TLC

CONSTANTS p1, p2, t1, t2, empty, trivial, d1, d2

\* One event each of a GitHub pull request and a GitLab merge request.
TwoPrs == t1 :> p1 @@ t2 :> p2

\* The branches move from one diff to another; the merge request repeats a
\* diff of the pull request.  The second instance has every kind of diff.
ChangingDiffs == p1 :> <<d1, d2>> @@ p2 :> <<trivial, d2>>
EveryDiff == p1 :> <<trivial, d1>> @@ p2 :> <<d1, empty>>

Setup(inBatches, cached, approving) ==
    [batching |-> inBatches, cache |-> cached, autoApprove |-> approving]

\* The defaults of AppConfig with batching off; batching on.
Immediate == Setup(FALSE, TRUE, TRUE)
Batching == Setup(TRUE, TRUE, TRUE)
Plain == Setup(FALSE, FALSE, FALSE)

ImmediateOrBatching == {Immediate, Batching}
EveryPath == {Immediate, Batching, Plain}
===============================================================================
