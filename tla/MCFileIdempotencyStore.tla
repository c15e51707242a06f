----------------------- MODULE MCFileIdempotencyStore -----------------------
(***************************************************************************)
(* Instances of FileIdempotencyStore for TLC.                              *)
(***************************************************************************)
EXTENDS FileIdempotencyStore, TLC

MCTexts == Snapshots

Symmetry == Permutations(Writers) \cup Permutations(Inodes)
              \cup Permutations(Keys) \cup Permutations(Records)
=============================================================================
