------------------------------ MODULE Scheduler ------------------------------
(***************************************************************************)
(* The in-memory state of the master: the task table of                    *)
(* master/scheduler.py and the worker table of master/worker_manager.py,   *)
(* with one operator per method that changes them.                         *)
(*                                                                         *)
(* No method of either class contains an await, so each one is a single    *)
(* atomic step.  An operator below constrains only the primed variables    *)
(* the method writes; the modules that extend this one conjoin them into   *)
(* the step of the coroutine (or thread) that calls the methods.           *)
(*                                                                         *)
(* Time is abstracted: stale[w] says that more than HEARTBEAT_TIMEOUT      *)
(* seconds have passed since the last heartbeat recorded for w.            *)
(***************************************************************************)
EXTENDS Naturals, Sequences

CONSTANTS
  Tasks,              (* task ids *)
  Workers,            (* worker ids *)
  MAX_TASK_ATTEMPTS,  (* retry cap *)
  None                (* Python's None *)

ASSUME SchedulerAssumption ==
  /\ MAX_TASK_ATTEMPTS \in Nat \ {0}
  /\ None \notin Workers

VARIABLES
  task_order,          (* insertion order of Scheduler._tasks *)
  status,              (* Task.status; ABSENT: not in _tasks *)
  assigned_worker_id,  (* Task.assigned_worker_id *)
  attempt,             (* Task.attempt *)
  worker_order,        (* insertion order of WorkerManager._workers *)
  worker_status,       (* Worker.status; ABSENT: not in _workers *)
  generation,          (* Worker.generation *)
  stale                (* last_heartbeat is older than the timeout *)

task_vars == <<task_order, status, assigned_worker_id, attempt>>
worker_vars == <<worker_order, worker_status, generation, stale>>

TaskStatus == {"PENDING", "ASSIGNED", "RUNNING", "COMPLETED", "FAILED"}
WorkerStatus == {"IDLE", "BUSY", "FAILED", "DRAINING", "STOPPED"}

InFlight == {"ASSIGNED", "RUNNING"}
Terminal == {"COMPLETED", "FAILED"}
REPLACEABLE_WORKER_STATUSES == {"FAILED", "STOPPED"}

SchedulerTypeOK ==
  /\ task_order \in Seq(Tasks)
  /\ status \in [Tasks -> TaskStatus \cup {"ABSENT"}]
  /\ assigned_worker_id \in [Tasks -> Workers \cup {None}]
  /\ attempt \in [Tasks -> 0 .. MAX_TASK_ATTEMPTS]
  /\ worker_order \in Seq(Workers)
  /\ worker_status \in [Workers -> WorkerStatus \cup {"ABSENT"}]
  /\ generation \in [Workers -> Nat]
  /\ stale \in [Workers -> BOOLEAN]

SchedulerInit ==
  /\ task_order = <<>>
  /\ status = [t \in Tasks |-> "ABSENT"]
  /\ assigned_worker_id = [t \in Tasks |-> None]
  /\ attempt = [t \in Tasks |-> 0]
  /\ worker_order = <<>>
  /\ worker_status = [w \in Workers |-> "ABSENT"]
  /\ generation = [w \in Workers |-> 0]
  /\ stale = [w \in Workers |-> FALSE]

-----------------------------------------------------------------------------
(* Scheduler. *)

submit_task(t) ==
  /\ status[t] = "ABSENT"
  /\ task_order' = Append(task_order, t)
  /\ status' = [status EXCEPT ![t] = "PENDING"]
  /\ UNCHANGED <<assigned_worker_id, attempt>>

(* t is the first PENDING task in the order of submission. *)
OldestPending(t) ==
  \E i \in DOMAIN task_order :
    /\ task_order[i] = t
    /\ status[t] = "PENDING"
    /\ \A j \in 1 .. i - 1 : status[task_order[j]] # "PENDING"

(* w is the first IDLE worker in the order of first registration. *)
FirstIdle(w) ==
  \E i \in DOMAIN worker_order :
    /\ worker_order[i] = w
    /\ worker_status[w] = "IDLE"
    /\ \A j \in 1 .. i - 1 : worker_status[worker_order[j]] # "IDLE"

(* Mutant: the worker that is given the task is left IDLE. *)
assign_task_LeavesIdle(t, w) ==
  /\ attempt' = [attempt EXCEPT ![t] = @ + 1]
  /\ assigned_worker_id' = [assigned_worker_id EXCEPT ![t] = w]
  /\ status' = [status EXCEPT ![t] = "ASSIGNED"]
  /\ UNCHANGED <<task_order, worker_vars>>

(* The loop body of assign_task for the worker it picks. *)
assign_task(t, w) ==
  /\ attempt' = [attempt EXCEPT ![t] = @ + 1]
  /\ assigned_worker_id' = [assigned_worker_id EXCEPT ![t] = w]
  /\ status' = [status EXCEPT ![t] = "ASSIGNED"]
  /\ worker_status' = [worker_status EXCEPT ![w] = "BUSY"]
  /\ UNCHANGED <<task_order, worker_order, generation, stale>>

(* The call that returns a task; with no PENDING task or no IDLE worker it *)
(* returns None and changes nothing.                                       *)
assign_next_pending_task(t, w) ==
  /\ OldestPending(t)
  /\ FirstIdle(w)
  /\ assign_task(t, w)

start_task(t) ==
  /\ status[t] = "ASSIGNED"
  /\ status' = [status EXCEPT ![t] = "RUNNING"]
  /\ UNCHANGED <<task_order, assigned_worker_id, attempt>>

(* Mutant: the worker is not handed back. *)
release_worker_Never(w) == worker_status

(* The worker table after the task of worker w finished. *)
release_worker(w) ==
  IF w = None \/ worker_status[w] = "DRAINING"
  THEN worker_status
  ELSE [worker_status EXCEPT ![w] = "IDLE"]

complete_task(t) ==
  /\ status[t] \in InFlight
  /\ status' = [status EXCEPT ![t] = "COMPLETED"]
  /\ worker_status' = release_worker(assigned_worker_id[t])
  /\ UNCHANGED <<task_order, assigned_worker_id, attempt,
                 worker_order, generation, stale>>

(* Unlike complete_task, fail_task accepts a task in any status. *)
fail_task(t) ==
  /\ status' = [status EXCEPT ![t] = "FAILED"]
  /\ worker_status' = release_worker(assigned_worker_id[t])
  /\ UNCHANGED <<task_order, assigned_worker_id, attempt,
                 worker_order, generation, stale>>

InFlightOn(t, W) == assigned_worker_id[t] \in W /\ status[t] \in InFlight

Requeued(t) ==
  IF attempt[t] >= MAX_TASK_ATTEMPTS THEN "FAILED" ELSE "PENDING"

(* requeue_tasks_for_worker for every worker of W. *)
requeue_tasks_for_workers(W) ==
  /\ status' = [t \in Tasks |->
                  IF InFlightOn(t, W) THEN Requeued(t) ELSE status[t]]
  /\ assigned_worker_id' = [t \in Tasks |->
                  IF InFlightOn(t, W) THEN None ELSE assigned_worker_id[t]]
  /\ UNCHANGED <<task_order, attempt>>

-----------------------------------------------------------------------------
(* WorkerManager. *)

update_status(W, s) ==
  worker_status' = [w \in Workers |-> IF w \in W THEN s ELSE worker_status[w]]

(* Mutant: a worker that is at work is replaced as well. *)
CanRegister_Any(w) == worker_status[w] # "IDLE"

CanRegister(w) ==
  worker_status[w] \in {"ABSENT"} \cup REPLACEABLE_WORKER_STATUSES

register_worker(w) ==
  /\ CanRegister(w)
  /\ worker_order' = IF worker_status[w] = "ABSENT"
                     THEN Append(worker_order, w) ELSE worker_order
  /\ worker_status' = [worker_status EXCEPT ![w] = "IDLE"]
  /\ generation' = [generation EXCEPT ![w] = @ + 1]
  /\ stale' = [stale EXCEPT ![w] = FALSE]

record_heartbeat(w) ==
  /\ worker_status[w] # "ABSENT"
  /\ stale' = [stale EXCEPT ![w] = FALSE]

StaleWorkers ==
  {w \in Workers : worker_status[w] \notin {"ABSENT", "STOPPED"} /\ stale[w]}

(* Mutant: the tasks are forgotten. *)
FailAndRequeue_Forgets(W) ==
  /\ update_status(W, "FAILED")
  /\ UNCHANGED <<task_vars, worker_order, generation, stale>>

(* Every caller that finds a worker dead marks it FAILED and requeues its  *)
(* tasks in the same step.                                                 *)
FailAndRequeue(W) ==
  /\ update_status(W, "FAILED")
  /\ requeue_tasks_for_workers(W)
  /\ UNCHANGED <<worker_order, generation, stale>>

(* HEARTBEAT_TIMEOUT seconds pass without a heartbeat of w.  It matters    *)
(* only while w is live: registration resets the clock.                    *)
HeartbeatExpires(w) ==
  /\ worker_status[w] \in {"IDLE", "BUSY", "DRAINING"}
  /\ ~stale[w]
  /\ stale' = [stale EXCEPT ![w] = TRUE]

=============================================================================
