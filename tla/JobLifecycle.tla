---------------------------- MODULE JobLifecycle ----------------------------
(***************************************************************************)
(* What the job table promises to a client that polls GET                  *)
(* /pipeline/jobs/{id}: a job appears as pending, is picked up once, and   *)
(* ends as completed or failed for good.  JobService.tla implements this   *)
(* specification when jobs run in the API process's thread pool.           *)
(***************************************************************************)
CONSTANT Jobs

VARIABLE status     \* status[j]: what a poll of j answers; "none" is a 404

Init == status = [j \in Jobs |-> "none"]

(***************************************************************************)
(* The edges of the life cycle.                                            *)
(***************************************************************************)
Move(j, from, to) ==
  /\ status[j] = from
  /\ status' = [status EXCEPT ![j] = to]

Accept(j) == Move(j, "none", "pending")

PickUp(j) == Move(j, "pending", "running")

Complete(j) == Move(j, "running", "completed")

Fail(j) == Move(j, "running", "failed")

Next == \E j \in Jobs : Accept(j) \/ PickUp(j) \/ Complete(j) \/ Fail(j)

Spec == Init /\ [][Next]_status
=============================================================================
