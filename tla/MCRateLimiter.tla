----------------------------- MODULE MCRateLimiter -----------------------------
(***************************************************************************)
(* Instances of RateLimiter for TLC: up to four calls, of alice or of      *)
(* alice and bob.                                                          *)
(***************************************************************************)
EXTENDS RateLimiter, TLC

CONSTANTS c1, c2, c3, c4, d1, alice, bob

ClientOf == [c \in Calls |-> IF c = d1 THEN bob ELSE alice]

SymmetryCalls == Permutations({c1, c2, c3})
===============================================================================
