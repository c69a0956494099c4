---------------------------- MODULE MCBatchReview ----------------------------
(* A finite instance of BatchReview for TLC. *)
EXTENDS BatchReview, TLC

CONSTANTS a1, a2, b1, pa, pb, ra, rb

\* Tasks of two pull requests.
TwoPrs == [t \in Tasks |-> IF t = b1 THEN pb ELSE pa]
TheirRanges == [t \in Tasks |-> IF t = b1 THEN rb ELSE ra]
TasksAndOne == Tasks \cup {OneForAll}
===============================================================================
