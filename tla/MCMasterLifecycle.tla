-------------------------- MODULE MCMasterLifecycle --------------------------
(* Instances of MasterLifecycle for TLC. *)
EXTENDS MasterLifecycle, TLC

CONSTANTS t1, t2, w1, w2

(* A heartbeat expires after seconds, a job polls every 10 ms: behaviours  *)
(* in which no heartbeat expires while the job has a task to hand out.     *)
PollsFirst ==
  stale' # stale => ~(job = "draining" /\ RoundIsOver("job") /\ Batch(task_ids) # {})

=============================================================================
