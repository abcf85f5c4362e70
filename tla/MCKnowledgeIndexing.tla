-------------------------- MODULE MCKnowledgeIndexing --------------------------
(***************************************************************************)
(* KnowledgeIndexing for TLC.  Actors is a set of model values, and no     *)
(* action tells its elements apart.                                        *)
(***************************************************************************)
EXTENDS KnowledgeIndexing, TLC

Symmetry == Permutations(Actors)
=============================================================================
