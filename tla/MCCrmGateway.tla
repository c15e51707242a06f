---------------------------- MODULE MCCrmGateway ----------------------------
(***************************************************************************)
(* An instance of CrmGateway for TLC: two runs at once, with or without    *)
(* MOCK_CRM, and everything that can go wrong.                             *)
(***************************************************************************)
EXTENDS CrmDuplicates, TLC

RealOrMock == BOOLEAN
EveryFault == AllFaults
EveryOther == AllOthers
Symmetry == Permutations(Callers) \cup Permutations(Keys) \cup Permutations(Tasks)
=============================================================================
