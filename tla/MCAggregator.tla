---------------------------- MODULE MCAggregator ----------------------------
(* Small instances of Aggregator for TLC.                                  *)
EXTENDS Aggregator, TLC

Symmetry == Permutations(Events)
=============================================================================
