-------------------------- MODULE MCMemoryExtraction --------------------------
(***************************************************************************)
(* MemoryExtraction for TLC.  Workers and Contents are sets of model       *)
(* values, and no action tells their elements apart.                       *)
(***************************************************************************)
EXTENDS MemoryExtraction, TLC

Symmetry == Permutations(Workers) \cup Permutations(Contents)
=============================================================================
