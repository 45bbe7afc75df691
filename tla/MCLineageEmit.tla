--------------------------- MODULE MCLineageEmit ---------------------------
(***************************************************************************)
(* Runs with every sink, and with the JSONL files alone.                   *)
(***************************************************************************)
EXTENDS LineageEmit, TLC

Symmetry == Permutations(Runs)

AllSinks   == {Sinks}
MixedSinks == {Sinks, Files}
=============================================================================
