---------------------------- MODULE ThreadedMaster ----------------------------
(***************************************************************************)
(* The threaded master of master/server.py: its main thread, the failure   *)
(* monitor, the threads that record heartbeats and the threads that        *)
(* dispatch tasks, over the tables of Scheduler and under _state_lock.     *)
(*                                                                         *)
(* A section under the lock is one step where only threads that take the   *)
(* lock could tell.  Registrations, submissions and heartbeats do not take *)
(* it, so the monitor, which walks both tables with the lock held, takes   *)
(* one step per worker and per stale worker: a table that grew meanwhile   *)
(* ends the walk with a RuntimeError, and the thread with it.              *)
(***************************************************************************)
EXTENDS Scheduler

CONSTANT EXPECTED_WORKERS   (* registrations main waits for *)

ASSUME ThreadedAssumption == EXPECTED_WORKERS \in Nat \ {0}

VARIABLES
  main,         (* where the main thread is *)
  accepted,     (* registrations so far *)
  connection,   (* main's connections: the socket of each worker *)
  thread,       (* the dispatch thread of each task of the current round *)
  captured,     (* what that thread read of its task: worker and attempt *)
  monitor,      (* where the failure monitor is *)
  visited,      (* workers get_stale_workers has looked at *)
  found,        (* stale workers it has still to requeue *)
  table_size,   (* size of the table it walks when the walk began *)
  lock          (* the holder of _state_lock between steps *)

monitor_vars == <<monitor, visited, found, table_size>>
thread_vars == <<thread, captured>>
vars == <<task_vars, worker_vars, main, accepted, connection, thread_vars,
          monitor_vars, lock>>

Draining == {"draining", "assigning", "joining"}
Captures == [worker : Workers \cup {None}, attempt : 0 .. MAX_TASK_ATTEMPTS]
Nothing == [worker |-> None, attempt |-> 0]

TypeOK ==
  /\ SchedulerTypeOK
  /\ main \in {"accepting", "blocked", "submitting", "drained", "ended",
               "crashed"} \cup Draining
  /\ accepted \in 0 .. EXPECTED_WORKERS
  /\ connection \in [Workers -> {"none", "open", "lost", "closed"}]
  /\ thread \in [Tasks -> {"none", "started", "captured", "waiting"}]
  /\ captured \in [Tasks -> Captures]
  /\ monitor \in {"waiting", "sweeping", "requeueing", "dead"}
  /\ visited \in 0 .. EXPECTED_WORKERS
  /\ found \in Seq(Workers)
  /\ table_size \in Nat
  /\ lock \in {"free", "main", "monitor"}

Init ==
  /\ SchedulerInit
  /\ main = "accepting"
  /\ accepted = 0
  /\ connection = [w \in Workers |-> "none"]
  /\ thread = [t \in Tasks |-> "none"]
  /\ captured = [t \in Tasks |-> Nothing]
  /\ monitor = "waiting"
  /\ visited = 0
  /\ found = <<>>
  /\ table_size = 0
  /\ lock = "free"

-----------------------------------------------------------------------------
(* main: registration, one connection at a time. *)

(* Mutant: workers may still register while tasks are dispatched. *)
Registers_Late(w) ==
  /\ main \in {"accepting", "joining"}
  /\ register_worker(w)
  /\ connection' = [connection EXCEPT ![w] = "open"]
  /\ accepted' = IF main = "accepting" THEN accepted + 1 ELSE accepted
  /\ main' = IF accepted + 1 = EXPECTED_WORKERS THEN "submitting" ELSE main
  /\ UNCHANGED <<task_vars, thread_vars, monitor_vars, lock>>

(* REGISTER is accepted.  A worker_id that had FAILED counts again, and    *)
(* its new connection replaces the old one.                                *)
Registers(w) ==
  /\ main = "accepting"
  /\ register_worker(w)
  /\ connection' = [connection EXCEPT ![w] = "open"]
  /\ accepted' = accepted + 1
  /\ main' = IF accepted + 1 = EXPECTED_WORKERS THEN "submitting" ELSE main
  /\ UNCHANGED <<task_vars, thread_vars, monitor_vars, lock>>

(* REGISTER is refused: main goes on reading from that connection, and the *)
(* process goes on waiting for tasks.                                      *)
Refuses(w) ==
  /\ main = "accepting"
  /\ ~CanRegister(w)
  /\ main' = "blocked"
  /\ UNCHANGED <<task_vars, worker_vars, accepted, connection, thread_vars,
                 monitor_vars, lock>>

(* The process main reads from goes away before it is registered: nothing  *)
(* catches the ConnectionError.                                            *)
RegistrationLost ==
  /\ main \in {"accepting", "blocked"}
  /\ main' = "crashed"
  /\ UNCHANGED <<task_vars, worker_vars, accepted, connection, thread_vars,
                 monitor_vars, lock>>

Submits(t) ==
  /\ main = "submitting"
  /\ submit_task(t)
  /\ main' = IF \A u \in Tasks : status'[u] # "ABSENT" THEN "draining" ELSE main
  /\ UNCHANGED <<worker_vars, accepted, connection, thread_vars, monitor_vars,
                 lock>>

-----------------------------------------------------------------------------
(* drain_pending_tasks and dispatch_concurrently. *)

BeginsRound ==
  /\ main = "draining"
  /\ lock = "free"
  /\ lock' = "main"
  /\ main' = "assigning"
  /\ UNCHANGED <<task_vars, worker_vars, accepted, connection, thread_vars,
                 monitor_vars>>

Assigns(t, w) ==
  /\ main = "assigning"
  /\ assign_next_pending_task(t, w)
  /\ thread' = [thread EXCEPT ![t] = "started"]
  /\ UNCHANGED <<main, accepted, connection, captured, monitor_vars, lock>>

NothingToAssign ==
  \/ \A t \in Tasks : status[t] # "PENDING"
  \/ \A w \in Workers : worker_status[w] # "IDLE"

Batch == {t \in Tasks : thread[t] # "none"}

(* The batch is complete and its threads are started; drain_pending_tasks  *)
(* returns when it is empty.                                               *)
EndsRound ==
  /\ main = "assigning"
  /\ NothingToAssign
  /\ lock' = "free"
  /\ main' = IF Batch = {} THEN "drained" ELSE "joining"
  /\ UNCHANGED <<task_vars, worker_vars, accepted, connection, thread_vars,
                 monitor_vars>>

(* Mutant: there is one round only. *)
Joins_Once ==
  /\ main = "joining"
  /\ Batch = {}
  /\ main' = "drained"
  /\ UNCHANGED <<task_vars, worker_vars, accepted, connection, thread_vars,
                 monitor_vars, lock>>

(* Every thread of the round is over. *)
Joins ==
  /\ main = "joining"
  /\ Batch = {}
  /\ main' = "draining"
  /\ UNCHANGED <<task_vars, worker_vars, accepted, connection, thread_vars,
                 monitor_vars, lock>>

(* The finally of main.  The threads it joins have 2 seconds and are       *)
(* daemons.                                                                *)
Stops ==
  /\ main = "drained"
  /\ main' = "ended"
  /\ connection' = [w \in Workers |->
                      IF connection[w] = "none" THEN "none" ELSE "closed"]
  /\ UNCHANGED <<task_vars, worker_vars, accepted, thread_vars, monitor_vars,
                 lock>>

-----------------------------------------------------------------------------
(* dispatch_assigned_task, on the thread of task t. *)

ThreadEnds(t) ==
  /\ thread' = [thread EXCEPT ![t] = "none"]
  /\ captured' = [captured EXCEPT ![t] = Nothing]

(* Read without the lock: if the monitor requeued the task in the          *)
(* meantime, connections[None] is a KeyError.  A requeue between the three *)
(* reads is one after them: start_task refuses the task all the same.      *)
ReadsAssignment(t) ==
  /\ main = "joining"
  /\ thread[t] = "started"
  /\ IF assigned_worker_id[t] = None
     THEN ThreadEnds(t)
     ELSE /\ thread' = [thread EXCEPT ![t] = "captured"]
          /\ captured' = [captured EXCEPT ![t] =
               [worker |-> assigned_worker_id[t], attempt |-> attempt[t]]]
  /\ UNCHANGED <<task_vars, worker_vars, main, accepted, connection,
                 monitor_vars, lock>>

(* start_task under the lock, and TASK is sent; or its ValueError ends the *)
(* thread.                                                                 *)
StartsTask(t) ==
  /\ thread[t] = "captured"
  /\ lock = "free"
  /\ IF status[t] = "ASSIGNED"
     THEN /\ start_task(t)
          /\ thread' = [thread EXCEPT ![t] = "waiting"]
          /\ UNCHANGED captured
     ELSE ThreadEnds(t) /\ UNCHANGED task_vars
  /\ UNCHANGED <<worker_vars, main, accepted, connection, monitor_vars, lock>>

(* Mutant: a late answer is taken for the current one. *)
is_current_attempt_Always(t) == TRUE

is_current_attempt(t) ==
  /\ assigned_worker_id[t] = captured[t].worker
  /\ attempt[t] = captured[t].attempt

(* The answer of the worker; anything but a success fails the task. *)
GetsAnswer(t, success) ==
  /\ thread[t] = "waiting"
  /\ connection[captured[t].worker] = "open"
  /\ lock = "free"
  /\ CASE ~is_current_attempt(t) -> UNCHANGED <<task_vars, worker_vars>>
       [] is_current_attempt(t) /\ success -> complete_task(t)
       [] OTHER -> fail_task(t)
  /\ ThreadEnds(t)
  /\ UNCHANGED <<main, accepted, connection, monitor_vars, lock>>

(* Sending or receiving finds the connection broken. *)
FindsLost(t) ==
  /\ thread[t] = "waiting"
  /\ connection[captured[t].worker] = "lost"
  /\ lock = "free"
  /\ IF is_current_attempt(t)
     THEN FailAndRequeue({captured[t].worker})
     ELSE UNCHANGED <<task_vars, worker_vars>>
  /\ ThreadEnds(t)
  /\ UNCHANGED <<main, accepted, connection, monitor_vars, lock>>

-----------------------------------------------------------------------------
(* failure_monitor. *)

(* get_stale_workers looks at the next worker. *)
Visit ==
  LET w == worker_order[visited'] IN
  IF w \in StaleWorkers
  THEN update_status({w}, "FAILED") /\ found' = Append(found, w)
  ELSE UNCHANGED <<worker_status, found>>

(* The lock is taken and the first worker looked at. *)
SweepBegins ==
  /\ monitor = "waiting"
  /\ lock = "free"
  /\ worker_order # <<>>
  /\ lock' = "monitor"
  /\ monitor' = "sweeping"
  /\ visited' = 1
  /\ table_size' = Len(worker_order)
  /\ Visit
  /\ UNCHANGED <<task_vars, worker_order, generation, stale, main, accepted,
                 connection, thread_vars>>

(* Mutant: the lock is not released by an exception. *)
MonitorDies_KeepsLock ==
  /\ monitor' = "dead"
  /\ visited' = 0 /\ found' = <<>> /\ table_size' = 0
  /\ UNCHANGED <<lock, worker_status>>

(* RuntimeError: the dict changed its size during the iteration. *)
MonitorDies ==
  /\ monitor' = "dead"
  /\ visited' = 0 /\ found' = <<>> /\ table_size' = 0
  /\ lock' = "free"
  /\ UNCHANGED worker_status

MonitorWaits ==
  /\ monitor' = "waiting"
  /\ visited' = 0 /\ found' = <<>> /\ table_size' = 0
  /\ lock' = "free"

(* Mutant: the requeueing takes the lock of its own. *)
BeginRequeue_Unlocks ==
  /\ monitor' = "requeueing"
  /\ visited' = 0
  /\ table_size' = Len(task_order)
  /\ lock' = "free"
  /\ UNCHANGED found

(* requeue_tasks_for_worker begins to walk the tasks. *)
BeginRequeue ==
  /\ monitor' = "requeueing"
  /\ visited' = 0
  /\ table_size' = Len(task_order)
  /\ UNCHANGED <<found, lock>>

SweepGoesOn ==
  /\ monitor = "sweeping"
  /\ CASE Len(worker_order) # table_size -> MonitorDies
       [] Len(worker_order) = table_size /\ visited < table_size ->
            /\ visited' = visited + 1
            /\ Visit
            /\ UNCHANGED <<monitor, table_size, lock>>
       [] OTHER ->
            /\ IF found = <<>> THEN MonitorWaits ELSE BeginRequeue
            /\ UNCHANGED worker_status
  /\ UNCHANGED <<task_vars, worker_order, generation, stale, main, accepted,
                 connection, thread_vars>>

(* requeue_tasks_for_worker ends, for the next of the stale workers.  The  *)
(* walk of an empty table is not disturbed by the first submission.        *)
RequeueEnds ==
  /\ monitor = "requeueing"
  /\ IF table_size \notin {0, Len(task_order)}
     THEN MonitorDies /\ UNCHANGED task_vars
     ELSE /\ requeue_tasks_for_workers({Head(found)})
          /\ IF Len(found) = 1
             THEN MonitorWaits
             ELSE /\ found' = Tail(found)
                  /\ table_size' = Len(task_order)
                  /\ UNCHANGED <<monitor, visited, lock>>
          /\ UNCHANGED worker_status
  /\ UNCHANGED <<worker_order, generation, stale, main, accepted, connection,
                 thread_vars>>

-----------------------------------------------------------------------------
(* The workers. *)

(* A heartbeat is recorded by a thread of its own, without the lock. *)
RecordsHeartbeat(w) ==
  /\ connection[w] = "open"
  /\ record_heartbeat(w)
  /\ UNCHANGED <<task_vars, worker_order, worker_status, generation, main,
                 accepted, connection, thread_vars, monitor_vars, lock>>

(* Its heartbeats stop or are late: start_heartbeat_loop returns at the    *)
(* first OSError.  get_stale_workers reads the clock once, so none grows   *)
(* stale during its walk.                                                  *)
FallsSilent(w) ==
  /\ monitor # "sweeping"
  /\ HeartbeatExpires(w)
  /\ UNCHANGED <<task_vars, worker_order, worker_status, generation, main,
                 accepted, connection, thread_vars, monitor_vars, lock>>

(* The process dies, or its connection breaks. *)
WorkerLost(w) ==
  /\ connection[w] = "open"
  /\ connection' = [connection EXCEPT ![w] = "lost"]
  /\ UNCHANGED <<task_vars, worker_vars, main, accepted, thread_vars,
                 monitor_vars, lock>>

-----------------------------------------------------------------------------
Main ==
  \/ \E t \in Tasks : Submits(t)
  \/ BeginsRound \/ EndsRound \/ Joins \/ Stops
  \/ \E t \in Tasks, w \in Workers : Assigns(t, w)

Dispatch(t) ==
  \/ ReadsAssignment(t) \/ StartsTask(t)
  \/ \E success \in BOOLEAN : GetsAnswer(t, success)
  \/ FindsLost(t)

(* The other threads are daemons: they end with main. *)
Next ==
  \/ Main
  \/ /\ main \notin {"ended", "crashed"}
     /\ \/ RegistrationLost
        \/ \E w \in Workers :
             \/ Registers(w) \/ Refuses(w)
             \/ RecordsHeartbeat(w) \/ FallsSilent(w) \/ WorkerLost(w)
        \/ \E t \in Tasks : Dispatch(t)
        \/ SweepBegins \/ SweepGoesOn \/ RequeueEnds

Spec == Init /\ [][Next]_vars

(* Every thread that can go on does.  The monitor sleeps between its       *)
(* sweeps, so whoever waits for the lock gets it; a worker answers its     *)
(* TASK or its connection breaks.                                          *)
FairSpec ==
  /\ Spec
  /\ SF_vars(Main)
  /\ WF_vars(SweepGoesOn) /\ WF_vars(RequeueEnds)
  /\ \A t \in Tasks : SF_vars(Dispatch(t))

-----------------------------------------------------------------------------
(* The threads share the sockets without a lock, which is safe only if no  *)
(* two of them ever talk to the same worker: a thread would read the       *)
(* answer to the other's TASK.  Not even the thread of a requeued task,    *)
(* still waiting for its late answer, is joined by another.                *)
OneReaderPerConnection ==
  \A t, u \in Tasks :
    t # u /\ thread[t] = "waiting" /\ thread[u] = "waiting" =>
      captured[t].worker # captured[u].worker

(* "a task can never be seen as both ASSIGNED-to-a-dead-worker and         *)
(* PENDING": whenever the monitor does not hold the lock, the worker of a  *)
(* task in flight is BUSY.  It holds although the monitor can die between  *)
(* marking a worker and requeueing its tasks, since the tables only grow   *)
(* before the first task is assigned.                                      *)
FailedWorkerHasNoTask ==
  lock # "monitor" =>
    \A t \in Tasks :
      status[t] \in InFlight => worker_status[assigned_worker_id[t]] = "BUSY"

(* When drain_pending_tasks returns, every task is over, or waits while no *)
(* worker is left that could take it.                                      *)
DrainIsComplete ==
  main \in {"drained", "ended"} =>
    \A t \in Tasks :
      \/ status[t] \in Terminal
      \/ status[t] = "PENDING" /\ \A w \in Workers : worker_status[w] # "IDLE"

(* Main changes both tables without the lock while the monitor walks them. *)
(* That can end the monitor, but never once a task was assigned: while     *)
(* there is work to recover, a monitor that got so far is not lost.        *)
MonitorSurvivesDrain ==
  [][\/ monitor = "dead" \/ monitor' # "dead"
     \/ \A t \in Tasks : attempt[t] = 0]_vars

(* Once the tasks are submitted, main comes to its end, whatever happens   *)
(* to the workers and to the monitor.                                      *)
DrainReturns == main = "submitting" ~> main = "ended"

(* The promise of the asyncio master, but for the answers, which the       *)
(* threaded one hands to its caller without recording them.                *)
Lifecycle == INSTANCE TaskLifecycle WITH
  MaxAttempts <- MAX_TASK_ATTEMPTS, response <- [t \in Tasks |-> None]

(* The threaded master implements the life cycle of every task. *)
ImplementsLifecycle == Lifecycle!Spec

=============================================================================
