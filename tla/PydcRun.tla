------------------------------- MODULE PydcRun -------------------------------
(***************************************************************************)
(* A worker and its owner.  Either the worker is a process of its own and  *)
(* its environment submits tasks, sets its shutdown_event or cancels it;   *)
(* or it is the worker of `pydc run` (client.py): master, worker and job   *)
(* are tasks of one event loop, and the scenario coroutine waits for the   *)
(* worker to register, submits the job, waits for it, and takes everything *)
(* down.                                                                   *)
(***************************************************************************)
EXTENDS WorkerRuntime

VARIABLE client   (* where scenario() is: "waiting_worker", "waiting_task",
                     "joining" or "ended"; "none": there is no pydc run *)

run_vars == <<vars, client>>

(* start_master has returned and worker_task is created. *)
RunInit ==
  /\ Init
  /\ client = IF alone THEN "none" ELSE "waiting_worker"

-----------------------------------------------------------------------------
(* scenario() of client.py. *)

(* wait_for_workers(1) sees the connection of a registered worker; the job *)
(* submits its first tasks.                                                *)
GotWorker ==
  /\ client = "waiting_worker"
  /\ link \in {"linked", "failed"}
  /\ client' = "waiting_task"
  /\ submitted' \in 1 .. MaxTasks
  /\ UNCHANGED <<worker_vars, connection, link, draining, sent, answered>>

(* The next stage of a MapReduce job. *)
NextStage ==
  /\ client = "waiting_task"
  /\ answered = submitted
  /\ Submit
  /\ UNCHANGED client

(* finally: worker_task.cancel() and await worker_task. *)
TakeDown ==
  /\ client' = "joining"
  /\ IF main = "ended" THEN UNCHANGED vars ELSE Cancelled

(* The job has its result, raises, or waited 30 seconds for an answer. *)
JobEnds ==
  /\ client = "waiting_task"
  /\ TakeDown

(* Ctrl-C cancels scenario().  While it awaits worker_task the             *)
(* cancellation goes on to that task, and its end is taken for the usual   *)
(* one.                                                                    *)
Interrupt ==
  /\ client \in {"waiting_worker", "waiting_task", "joining"}
  /\ client = "joining" => main # "ended"
  /\ TakeDown

(* worker_task is over, however it ended; stop_master returns. *)
Joined ==
  /\ client = "joining"
  /\ main = "ended"
  /\ client' = "ended"
  /\ UNCHANGED vars

(* A worker of its own. *)
Environment ==
  /\ alone
  /\ Submit \/ SetShutdown \/ Cancelled
  /\ UNCHANGED client

RunNext ==
  \/ Next /\ UNCHANGED client
  \/ GotWorker \/ NextStage \/ JobEnds \/ Interrupt \/ Joined
  \/ Environment

RunSpec == RunInit /\ [][RunNext]_run_vars

(* The timers of scenario() go off; nobody has to press Ctrl-C. *)
FairRunSpec ==
  /\ RunSpec
  /\ Fairness
  /\ WF_run_vars(GotWorker)
  /\ WF_run_vars(JobEnds)
  /\ WF_run_vars(Joined)

-----------------------------------------------------------------------------
(* "run ONE job, print its result as JSON, and exit" (client.py): `pydc    *)
(* run` ends, unless its worker ended before it registered, which nobody   *)
(* looks at.  The scenario awaits the worker's cleanup, which awaits its   *)
(* heartbeat task and the backend and flushes a connection that the        *)
(* master, in the same event loop, must still read.                        *)
RunEnds ==
  client \in {"waiting_worker", "waiting_task"}
    ~> client = "ended" \/ (client = "waiting_worker" /\ main = "ended")

=============================================================================
