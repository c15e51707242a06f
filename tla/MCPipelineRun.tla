---------------------------- MODULE MCPipelineRun ---------------------------
(***************************************************************************)
(* An instance of PipelineRun for TLC: one run after the other.  The       *)
(* answer to a POST is never lost: see the README for what is then.        *)
(***************************************************************************)
EXTENDS PipelineRun

Real == {FALSE}
EveryFaultButLost == {"stop", "refused", "rejected"}
CreateOnly == {"create"}
=============================================================================
