---------------------------- MODULE MCRateLimiter ----------------------------
(* Small instances of RateLimiter for TLC.                                 *)
EXTENDS RateLimiter, TLC

Symmetry == Permutations(Keys) \cup Permutations(Workers)

(* No action reads the last answer, and a property only that of the step   *)
(* it is about.                                                            *)
WithoutVerdict == <<now, limit, serving, entries, passed, order>>
=============================================================================
