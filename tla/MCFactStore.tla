----------------------------- MODULE MCFactStore -----------------------------
(* Small instances of FactStore for TLC.                                   *)
EXTENDS FactStore, TLC

Symmetry == Permutations(Fetchers) \cup Permutations(Commands)
=============================================================================
