-------------------------- MODULE MCEnrichedOutput --------------------------
(***************************************************************************)
(* Instances of EnrichedOutput for TLC.                                    *)
(***************************************************************************)
EXTENDS EnrichedOutput, TLC

Symmetry == Permutations(Inodes) \cup Permutations(Texts)
=============================================================================
