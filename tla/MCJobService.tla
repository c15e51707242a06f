---------------------------- MODULE MCJobService ----------------------------
(***************************************************************************)
(* Small instances of JobService, with its history of losses, for TLC.     *)
(***************************************************************************)
EXTENDS JobLosses, TLC

\* All pool threads belong to one replica; a Celery worker's host plays no
\* part.
MCHostOf == [w \in Workers |-> CHOOSE r \in Replicas : TRUE]

\* Everything may go wrong.
EveryFault == HandlerFaults \cup ExecutorFaults \cup Mishaps

\* Job ids, keys and workers are interchangeable.
Symmetry == Permutations(Jobs) \cup Permutations(Keys) \cup Permutations(Workers)
=============================================================================
