------------------------------ MODULE Enumeration ------------------------------
(***************************************************************************)
(* What a loop over 1 .. n collects that keeps the numbers of a set: those *)
(* numbers, in their order.  A recursive function, not SelectSeq, so that  *)
(* it can be reasoned about.                                               *)
(***************************************************************************)
EXTENDS Naturals, Sequences

Ascending(S, n) ==
    LET UpTo[k \in 0 .. n] ==
            IF k = 0 THEN << >>
            ELSE IF k \in S THEN Append(UpTo[k - 1], k) ELSE UpTo[k - 1]
    IN  UpTo[n]
===============================================================================
