-------------------------- MODULE MCCorrectionTickets --------------------------
(***************************************************************************)
(* CorrectionTickets for TLC.  Actors is a set of model values, and no     *)
(* action tells its elements apart.                                        *)
(***************************************************************************)
EXTENDS CorrectionTickets, TLC

Symmetry == Permutations(Actors)
=============================================================================
