---------------------------- MODULE MCEnrichment ----------------------------
(***************************************************************************)
(* An instance of Enrichment for TLC.  The ids of products are             *)
(* interchangeable.                                                        *)
(***************************************************************************)
EXTENDS Enrichment, TLC

ThreePrices == 1..3
EveryName == AllNames
EitherMode == BOOLEAN
Symmetry == Permutations(Ids)
=============================================================================
