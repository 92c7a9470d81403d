--------------------------- MODULE MasterLifecycle ---------------------------
(***************************************************************************)
(* start_master and stop_master of master/async_server.py, with the        *)
(* coroutines they start, stop or run against: the dispatcher loop, the    *)
(* failure monitor and its fallback drain, the dispatches either of them   *)
(* spawns, the connection handlers, the callers of wait_for_tasks, and a   *)
(* job that drives its own tasks with drain_tasks_for.                     *)
(*                                                                         *)
(* One coroutine (serve_forever, or a test) starts and stops the master in *)
(* turn; main is where it is.  AsyncMaster has the details of a dispatch   *)
(* and of a connection; here a worker has one connection at a time and a   *)
(* dispatch ends in one step.  asyncio is that of any Python the package   *)
(* supports.  Up to 3.11 Server.wait_closed does not suspend once the      *)
(* server is closed, since 3.12 it waits for the connections it accepted;  *)
(* up to 3.11 wait_for(event.wait()) suspends even if the event is set,    *)
(* since 3.12 it does not.                                                 *)
(***************************************************************************)
EXTENDS Scheduler, FiniteSetsExt

CONSTANTS
  LateCalls,         (* may wait_for_tasks be called while the master stops? *)
  Drains,            (* may a job use drain_tasks_for? *)
  MaxLoops,          (* bound: dispatcher loops ever created *)
  MaxStarts,         (* bound: calls of start_master *)
  MaxRegistrations   (* bound: connections of workers *)

ASSUME LifecycleAssumption ==
  /\ LateCalls \in BOOLEAN
  /\ Drains \in BOOLEAN
  /\ MaxLoops \in Nat \ {0}
  /\ MaxStarts \in Nat \ {0}
  /\ MaxRegistrations \in Nat \ {0}
  /\ None \notin 1 .. MaxLoops

VARIABLES
  main,             (* the coroutine in start_master or stop_master *)
  cycle,            (* calls of start_master so far *)
  loop,             (* the dispatcher loops, by order of creation; one that *)
                    (* is due, or returned early, made a tick after it was  *)
                    (* told to stop                                         *)
  _dispatcher_task, (* the loop that variable refers to, or None *)
  awaited_loop,     (* the loop that stop_dispatcher awaits *)
  awaited,          (* the dispatches it gathers *)
  monitor,          (* the failure monitor; due as for a loop *)
  monitor_stop,     (* its stop event *)
  link,             (* the connection of each worker *)
  to_close,         (* the links stop_master has yet to close *)
  co,               (* dispatch coroutines, one per attempt *)
  waiting,          (* tasks somebody waits for in wait_for_tasks *)
  recorded,         (* the keys of _task_responses *)
  job,              (* the job in drain_tasks_for *)
  task_ids,         (* its tasks *)
  responses         (* those with a success in its list of responses *)

vars == <<task_vars, worker_vars, main, cycle, loop, _dispatcher_task,
          awaited_loop, awaited, monitor, monitor_stop, link, to_close, co,
          waiting, recorded, job, task_ids, responses>>

await_vars == <<awaited_loop, awaited>>
stop_vars == <<main, cycle, await_vars, to_close>>
loop_vars == <<loop, _dispatcher_task>>
monitor_vars == <<monitor, monitor_stop>>
table_vars == <<task_vars, worker_vars>>
registry == <<waiting, recorded>>
job_vars == <<job, task_ids, responses>>
call_vars == <<co, registry, job_vars>>

Loops == 1 .. MaxLoops
Attempts == Tasks \X (1 .. MAX_TASK_ATTEMPTS)
Stopping == {"server", "dispatcher", "dispatches", "monitor", "closing", "polling"}
NotSpawned == [pc |-> "none", worker |-> None, attempt |-> 0, by |-> "none"]

TypeOK ==
  /\ SchedulerTypeOK
  /\ main \in {"down", "aborted", "starting", "up"} \cup Stopping
  /\ cycle \in Nat
  /\ loop \in [Loops -> {"none", "running", "due", "stopping", "returned", "early"}]
  /\ _dispatcher_task \in Loops \cup {None}
  /\ awaited_loop \in Loops \cup {None}
  /\ awaited \subseteq Attempts
  /\ monitor \in {"none", "idle", "due", "ticked", "draining", "returned", "raised"}
  /\ monitor_stop \in BOOLEAN
  /\ link \in [Workers -> {"none", "open", "lost", "closing"}]
  /\ to_close \subseteq Workers
  /\ co \in [Attempts -> [pc : {"none", "spawned", "awaiting", "done"},
                          worker : Workers \cup {None},
                          attempt : 0 .. MAX_TASK_ATTEMPTS,
                          by : {"none", "loop", "monitor", "job", "orphan"}]]
  /\ waiting \subseteq Tasks
  /\ recorded \subseteq Tasks
  /\ job \in {"none", "submitting", "draining", "returned", "gave_up", "raised"}
  /\ task_ids \subseteq Tasks
  /\ responses \subseteq task_ids

Init ==
  /\ SchedulerInit
  /\ main = "down"
  /\ cycle = 0
  /\ loop = [l \in Loops |-> "none"]
  /\ _dispatcher_task = None
  /\ awaited_loop = None
  /\ awaited = {}
  /\ monitor = "none"
  /\ monitor_stop = FALSE
  /\ link = [w \in Workers |-> "none"]
  /\ to_close = {}
  /\ co = [a \in Attempts |-> NotSpawned]
  /\ waiting = {}
  /\ recorded = {}
  /\ job = "none"
  /\ task_ids = {}
  /\ responses = {}

Live(a) == co[a].pc \in {"spawned", "awaiting"}

(* The members of _dispatch_tasks: the done callback discards the others. *)
_dispatch_tasks == {a \in Attempts : Live(a) /\ co[a].by = "loop"}

Registrations == MapThenSumSet(LAMBDA w : generation[w], Workers)

-----------------------------------------------------------------------------
(* Assignments, which the dispatcher and drain_tasks_for make in batches. *)

(* How many elements of S come before the i-th of the sequence s. *)
Ahead(s, S, i) == Cardinality({j \in 1 .. i - 1 : s[j] \in S})

(* What assign_next_pending_task returns until it returns None: the oldest *)
(* PENDING tasks, each with the next IDLE worker.                          *)
Batch(ids) ==
  LET pending == {t \in ids : status[t] = "PENDING"}
      idle == {w \in Workers : worker_status[w] = "IDLE"}
  IN {p \in pending \X idle :
        \E i \in DOMAIN task_order, j \in DOMAIN worker_order :
          /\ task_order[i] = p[1]
          /\ worker_order[j] = p[2]
          /\ Ahead(task_order, pending, i) = Ahead(worker_order, idle, j)}

Spawned(by) == [pc |-> "spawned", worker |-> None, attempt |-> 0, by |-> by]

(* A batch is assigned without a suspension, then its dispatches spawned. *)
AssignBatch(ids, by) ==
  LET batch == Batch(ids)
      Given(t) == \E w \in Workers : <<t, w>> \in batch
      Taken(w) == \E t \in Tasks : <<t, w>> \in batch
  IN /\ status' = [t \in Tasks |-> IF Given(t) THEN "ASSIGNED" ELSE status[t]]
     /\ attempt' = [t \in Tasks |-> IF Given(t) THEN attempt[t] + 1 ELSE attempt[t]]
     /\ assigned_worker_id' = [t \in Tasks |->
          IF Given(t) THEN CHOOSE w \in Workers : <<t, w>> \in batch
                      ELSE assigned_worker_id[t]]
     /\ worker_status' = [w \in Workers |->
          IF Taken(w) THEN "BUSY" ELSE worker_status[w]]
     /\ co' = [a \in Attempts |->
          IF Given(a[1]) /\ a[2] = attempt[a[1]] + 1 THEN Spawned(by) ELSE co[a]]
     /\ UNCHANGED <<task_order, worker_order, generation, stale>>

-----------------------------------------------------------------------------
(* The dispatcher. *)

is_dispatcher_running ==
  /\ _dispatcher_task # None
  /\ loop[_dispatcher_task] \in {"running", "due", "stopping"}

ensure_dispatcher_running ==
  IF is_dispatcher_running
  THEN UNCHANGED loop_vars
  ELSE \E l \in Loops :
         /\ loop[l] = "none"
         /\ \A k \in 1 .. l - 1 : loop[k] # "none"
         /\ loop' = [loop EXCEPT ![l] = "running"]
         /\ _dispatcher_task' = l

(* A tick of the loop. *)
DispatcherTicks(l) ==
  /\ loop[l] = "running"
  /\ Batch(Tasks) # {}
  /\ AssignBatch(Tasks, "loop")
  /\ UNCHANGED <<stop_vars, loop_vars, monitor_vars, link, registry, job_vars>>

(* The 10 ms of the loop were over when it was told to stop: its wait for  *)
(* the stop event still times out, and there is one more tick.  Then the   *)
(* loop waits again, or returns in the same step, before the coroutines    *)
(* it created have started.                                                *)
DispatcherLastTick(l) ==
  /\ loop[l] = "due"
  /\ AssignBatch(Tasks, "loop")
  /\ \/ loop' = [loop EXCEPT ![l] = "stopping"]
     \/ Batch(Tasks) # {} /\ loop' = [loop EXCEPT ![l] = "early"]
  /\ UNCHANGED <<stop_vars, _dispatcher_task, monitor_vars, link, registry, job_vars>>

(* The wait for the stop event returns.  The first step of a coroutine     *)
(* that the loop created is ahead of that in the event loop's queue.       *)
DispatcherReturns(l) ==
  /\ loop[l] = "stopping"
  /\ \A a \in _dispatch_tasks : co[a].pc # "spawned"
  /\ loop' = [loop EXCEPT ![l] = "returned"]
  /\ UNCHANGED <<table_vars, stop_vars, _dispatcher_task, monitor_vars,
                 link, call_vars>>

(* _dispatcher_task.done() *)
HasReturned(l) == loop[l] \in {"returned", "early"}

-----------------------------------------------------------------------------
(* dispatch_assigned_task, in the coroutine spawned for the assignment a.  *)
(* It reads the worker and the attempt of its task when it starts.         *)

is_current_attempt(a) ==
  /\ assigned_worker_id[a[1]] = co[a].worker
  /\ attempt[a[1]] = co[a].attempt

Ended(a) == [pc |-> "done", worker |-> None, attempt |-> 0, by |-> co[a].by]
Ends(a) == co' = [co EXCEPT ![a] = Ended(a)]

(* The other dispatches of a gather that raises run on, gathered by nobody. *)
Orphans(a) ==
  {b \in Attempts : Live(b) /\ co[b].by = co[a].by /\ co[a].by \in {"job", "monitor"}}

(* The task was requeued before the coroutine started, or another          *)
(* coroutine started it: start_task raises ValueError.  The gather of a    *)
(* job, or of the monitor, passes it on.                                   *)
DispatchRaises(a) ==
  /\ co[a].pc = "spawned"
  /\ status[a[1]] # "ASSIGNED"
  /\ co' = [b \in Attempts |-> IF b = a THEN Ended(a)
                               ELSE IF b \in Orphans(a)
                                    THEN [co[b] EXCEPT !.by = "orphan"] ELSE co[b]]
  /\ job' = IF co[a].by = "job" THEN "raised" ELSE job
  /\ monitor' = IF co[a].by = "monitor" THEN "raised" ELSE monitor
  /\ UNCHANGED <<table_vars, stop_vars, loop_vars, monitor_stop, link,
                 registry, task_ids, responses>>

DispatchSends(a) ==
  /\ co[a].pc = "spawned"
  /\ start_task(a[1])
  /\ link[assigned_worker_id[a[1]]] # "none"
  /\ co' = [co EXCEPT ![a].pc = "awaiting",
                      ![a].worker = assigned_worker_id[a[1]],
                      ![a].attempt = attempt[a[1]]]
  /\ UNCHANGED <<worker_vars, stop_vars, loop_vars, monitor_vars, link,
                 registry, job_vars>>

(* What a dispatch returns goes to the list of the job that gathers it;    *)
(* the dispatcher and the monitor drop it.                                 *)
Returns(a, success) ==
  /\ responses' = IF co[a].by = "job" /\ success
                  THEN responses \cup {a[1]} ELSE responses
  /\ UNCHANGED <<job, task_ids>>

(* The reply, or the loss, of an attempt that is no longer current.  The   *)
(* reply is returned all the same.                                         *)
DispatchIsStale(a) ==
  /\ co[a].pc = "awaiting"
  /\ ~is_current_attempt(a)
  /\ \/ link[co[a].worker] = "open" /\ \E success \in BOOLEAN : Returns(a, success)
     \/ link[co[a].worker] = "none" /\ Returns(a, FALSE)
  /\ Ends(a)
  /\ UNCHANGED <<table_vars, stop_vars, loop_vars, monitor_vars, link, registry>>

(* record_if_terminal, with the status the step gives the task. *)
Records(t) ==
  IF status'[t] \in Terminal
  THEN recorded' = recorded \cup {t} /\ waiting' = waiting \ {t}
  ELSE UNCHANGED registry

(* mark_worker_failed_and_requeue, then record_if_terminal. *)
WorkerUnreachable(a, w) ==
  /\ FailAndRequeue({w})
  /\ Records(a[1])
  /\ Ends(a)
  /\ UNCHANGED <<stop_vars, loop_vars, monitor_vars, link, job_vars>>

(* The coroutine starts and finds no link for the worker. *)
DispatchHasNoLink(a) ==
  LET w == assigned_worker_id[a[1]]
  IN /\ co[a].pc = "spawned"
     /\ status[a[1]] = "ASSIGNED"
     /\ link[w] = "none"
     /\ WorkerUnreachable(a, w)

(* The connection ended before the reply. *)
DispatchIsLost(a) ==
  /\ co[a].pc = "awaiting"
  /\ is_current_attempt(a)
  /\ link[co[a].worker] = "none"
  /\ WorkerUnreachable(a, co[a].worker)

(* The TASK_RESULT arrives, with a success or a failure. *)
DispatchIsAnswered(a) ==
  /\ co[a].pc = "awaiting"
  /\ is_current_attempt(a)
  /\ link[co[a].worker] = "open"
  /\ \/ complete_task(a[1]) /\ Returns(a, TRUE)
     \/ fail_task(a[1]) /\ Returns(a, FALSE)
  /\ Records(a[1])
  /\ Ends(a)
  /\ UNCHANGED <<stop_vars, loop_vars, monitor_vars, link>>

-----------------------------------------------------------------------------
(* drain_tasks_for, in rounds. *)

(* The gather of the round before has returned. *)
RoundIsOver(by) == \A a \in Attempts : Live(a) => co[a].by # by

DrainRound(ids, by) ==
  /\ RoundIsOver(by)
  /\ Batch(ids) # {}
  /\ AssignBatch(ids, by)

NothingToDrain(ids, by) == RoundIsOver(by) /\ Batch(ids) = {}

-----------------------------------------------------------------------------
(* The failure monitor. *)

(* Mutant: the monitor dispatches whether or not a dispatcher does. *)
FallsBack_Always == TRUE

FallsBack == ~is_dispatcher_running

(* A tick that finds stale workers, or the one that was due when the       *)
(* monitor was told to stop; if it falls back, its first round follows     *)
(* without a suspension.  A worker stays stale after it is marked FAILED,  *)
(* so every later tick finds it again.                                     *)
MonitorTicks ==
  /\ \/ monitor = "idle" /\ ~monitor_stop /\ StaleWorkers # {}
     \/ monitor = "due"
  /\ FailAndRequeue(StaleWorkers)
  /\ monitor' = IF StaleWorkers # {} /\ FallsBack THEN "ticked" ELSE "idle"
  /\ UNCHANGED <<stop_vars, loop_vars, monitor_stop, link, call_vars>>

MonitorAssigns ==
  /\ monitor \in {"ticked", "draining"}
  /\ DrainRound(Tasks, "monitor")
  /\ monitor' = "draining"
  /\ UNCHANGED <<stop_vars, loop_vars, monitor_stop, link, registry, job_vars>>

MonitorDrained ==
  /\ monitor \in {"ticked", "draining"}
  /\ NothingToDrain(Tasks, "monitor")
  /\ monitor' = "idle"
  /\ UNCHANGED <<table_vars, stop_vars, loop_vars, monitor_stop, link, call_vars>>

MonitorReturns ==
  /\ monitor = "idle"
  /\ monitor_stop
  /\ monitor' = "returned"
  /\ UNCHANGED <<table_vars, stop_vars, loop_vars, monitor_stop, link, call_vars>>

-----------------------------------------------------------------------------
(* Workers and callers. *)

(* handle_worker_connection: a connection is accepted and REGISTER read. *)
WorkerConnects(w) ==
  /\ main = "up"
  /\ link[w] = "none"
  /\ Registrations < MaxRegistrations
  /\ register_worker(w)
  /\ link' = [link EXCEPT ![w] = "open"]
  /\ UNCHANGED <<task_vars, stop_vars, loop_vars, monitor_vars, call_vars>>

WorkerIsLost(w) ==
  /\ link[w] = "open"
  /\ link' = [link EXCEPT ![w] = "lost"]
  /\ UNCHANGED <<table_vars, stop_vars, loop_vars, monitor_vars, call_vars>>

(* The finally of handle_worker_connection: the link leaves connections    *)
(* and the dispatches on it fail.                                          *)
HandlerReturns(w) ==
  /\ link[w] \in {"lost", "closing"}
  /\ link' = [link EXCEPT ![w] = "none"]
  /\ UNCHANGED <<table_vars, stop_vars, loop_vars, monitor_vars, call_vars>>

HeartbeatsStop(w) ==
  /\ HeartbeatExpires(w)
  /\ UNCHANGED <<task_vars, worker_order, worker_status, generation,
                 stop_vars, loop_vars, monitor_vars, link, call_vars>>

(* A coroutine submits t, unless it did, and calls wait_for_tasks({t}). *)
Call(t) ==
  /\ main = "up" \/ (main \in Stopping /\ LateCalls)
  /\ t \notin waiting \cup task_ids
  /\ submit_task(t) \/ (status[t] # "ABSENT" /\ UNCHANGED task_vars)
  /\ ensure_dispatcher_running
  /\ waiting' = IF t \in recorded THEN waiting ELSE waiting \cup {t}
  /\ UNCHANGED <<worker_vars, stop_vars, monitor_vars, link, co, recorded,
                 job_vars>>

(* asyncio.wait_for gives up. *)
CallTimesOut(t) ==
  /\ t \in waiting
  /\ waiting' = waiting \ {t}
  /\ UNCHANGED <<table_vars, stop_vars, loop_vars, monitor_vars, link, co,
                 recorded, job_vars>>

(* A job, which is a coroutine of its own, submits its tasks and calls     *)
(* drain_tasks_for with their ids, whose first round follows without a     *)
(* suspension.  Neither asks whether the master is up.                     *)
JobSubmits(t) ==
  /\ Drains
  /\ job \in {"none", "submitting"}
  /\ submit_task(t)
  /\ job' = "submitting"
  /\ task_ids' = task_ids \cup {t}
  /\ UNCHANGED <<worker_vars, stop_vars, loop_vars, monitor_vars, link, co,
                 registry, responses>>

JobAssigns ==
  /\ job \in {"submitting", "draining"}
  /\ DrainRound(task_ids, "job")
  /\ job' = "draining"
  /\ UNCHANGED <<stop_vars, loop_vars, monitor_vars, link, registry, task_ids,
                 responses>>

(* There is no worker for the first round: the deadline is set. *)
JobWaits ==
  /\ job = "submitting"
  /\ NothingToDrain(task_ids, "job")
  /\ job' = "draining"
  /\ UNCHANGED <<table_vars, stop_vars, loop_vars, monitor_vars, link, co,
                 registry, task_ids, responses>>

(* Mutant: only what waits for a worker is outstanding. *)
Outstanding_Pending == {t \in task_ids : status[t] = "PENDING"}

Outstanding == {t \in task_ids : status[t] \notin Terminal}

(* A round assigns nothing: drain_tasks_for returns if nothing is          *)
(* outstanding or its deadline has passed, and polls on otherwise.         *)
JobEnds ==
  /\ job = "draining"
  /\ NothingToDrain(task_ids, "job")
  /\ job' = IF Outstanding = {} THEN "returned" ELSE "gave_up"
  /\ UNCHANGED <<table_vars, stop_vars, loop_vars, monitor_vars, link, co,
                 registry, task_ids, responses>>

-----------------------------------------------------------------------------
(* start_master. *)

start_master ==
  /\ main \in {"down", "aborted"}
  /\ cycle < MaxStarts
  /\ main' = "starting"
  /\ cycle' = cycle + 1
  /\ UNCHANGED <<table_vars, loop_vars, await_vars, monitor_vars, link, to_close,
                 call_vars>>

ServerStarted ==
  /\ main = "starting"
  /\ main' = "up"
  /\ monitor' = "idle"
  /\ monitor_stop' = FALSE
  /\ UNCHANGED <<table_vars, cycle, loop_vars, await_vars, link, to_close, call_vars>>

(* stop_master, one action per stretch between two suspensions. *)

(* Mutant: the monitor is awaited and not told to stop. *)
StopMonitor_NoEvent ==
  /\ UNCHANGED monitor_vars
  /\ main' = "monitor"

(* The monitor is told to stop.  Its own timer may have gone off before. *)
StopMonitor ==
  /\ monitor_stop' = TRUE
  /\ monitor' = monitor \/ (monitor = "idle" /\ monitor' = "due")
  /\ main' = "monitor"

(* stop_dispatcher begins, or there is no dispatcher to stop. *)
StopDispatcher ==
  /\ IF is_dispatcher_running
     THEN /\ \E s \in {"stopping", "due"} :
               loop' = [loop EXCEPT ![_dispatcher_task] = s]
          /\ main' = "dispatcher"
          /\ awaited_loop' = _dispatcher_task
          /\ UNCHANGED monitor_vars
     ELSE StopMonitor /\ UNCHANGED <<loop, awaited_loop>>
  /\ UNCHANGED <<table_vars, cycle, awaited, _dispatcher_task, link, to_close,
                 call_vars>>

(* The server is closed, and wait_closed does not suspend. *)
stop_master ==
  /\ main = "up"
  /\ StopDispatcher

(* The server is closed, and wait_closed suspends stop_master.  The        *)
(* dispatcher and the monitor run on.                                      *)
WaitsForServer ==
  /\ main = "up"
  /\ \E w \in Workers : link[w] # "none"
  /\ main' = "server"
  /\ UNCHANGED <<table_vars, cycle, loop_vars, await_vars, monitor_vars, link,
                 to_close, call_vars>>

(* Every connection has ended, which is up to the workers: stop_master     *)
(* closes the connections only later.                                      *)
ServerClosed ==
  /\ main = "server"
  /\ \A w \in Workers : link[w] = "none"
  /\ StopDispatcher

(* What stop_dispatcher gathers once the loop has returned. *)
Gathered == _dispatch_tasks

(* await _dispatcher_task returns, and the variable is set to None. *)
DispatcherStopped ==
  /\ main = "dispatcher"
  /\ HasReturned(awaited_loop)
  /\ awaited_loop' = None
  /\ _dispatcher_task' = None
  /\ awaited' = Gathered
  /\ IF Gathered # {}
     THEN /\ main' = "dispatches"
          /\ UNCHANGED monitor_vars
     ELSE StopMonitor
  /\ UNCHANGED <<table_vars, cycle, loop, link, to_close, call_vars>>

DispatchesEnded ==
  /\ main = "dispatches"
  /\ \A a \in awaited : ~Live(a)
  /\ awaited' = {}
  /\ StopMonitor
  /\ UNCHANGED <<table_vars, cycle, awaited_loop, loop_vars, link, to_close, call_vars>>

(* Mutant: the monitor is told to stop and not awaited. *)
MonitorHasStopped_Any == TRUE

MonitorHasStopped == monitor = "returned"

(* await _master_failure_monitor_task raises what ended the monitor. *)
MonitorHadRaised ==
  /\ main = "monitor"
  /\ monitor = "raised"
  /\ main' = "aborted"
  /\ UNCHANGED <<table_vars, cycle, loop_vars, await_vars, monitor_vars, link,
                 to_close, call_vars>>

MonitorStopped ==
  /\ main = "monitor"
  /\ MonitorHasStopped
  /\ main' = "closing"
  /\ to_close' = {w \in Workers : link[w] # "none"}
  /\ UNCHANGED <<table_vars, cycle, loop_vars, await_vars, monitor_vars, link,
                 call_vars>>

(* await link.conn.close() for one link of the list; the order is not      *)
(* material.                                                               *)
LinkCloses(w) ==
  /\ main = "closing"
  /\ w \in to_close
  /\ to_close' = to_close \ {w}
  /\ link' = [link EXCEPT ![w] = IF @ = "open" THEN "closing" ELSE @]
  /\ UNCHANGED <<table_vars, main, cycle, loop_vars, await_vars, monitor_vars,
                 call_vars>>

(* Mutant: the registry outlives the master. *)
clear_dispatch_registry_Keeps == UNCHANGED <<waiting, recorded>>

(* The futures are cancelled and both tables are emptied. *)
clear_dispatch_registry ==
  /\ waiting' = {}
  /\ recorded' = {}

(* The connection was reset: wait_closed raises, and stop_master with it,  *)
(* which leaves the other links, connections and the registry as they are. *)
LinkCloseRaises(w) ==
  /\ main = "closing"
  /\ w \in to_close
  /\ link[w] \in {"lost", "none"}
  /\ main' = "aborted"
  /\ to_close' = {}
  /\ UNCHANGED <<table_vars, cycle, loop_vars, await_vars, monitor_vars, link,
                 call_vars>>

LinksClosed ==
  /\ main = "closing"
  /\ to_close = {}
  /\ main' = "polling"
  /\ UNCHANGED <<table_vars, cycle, loop_vars, await_vars, monitor_vars, link,
                 to_close, call_vars>>

(* connections is empty, or two seconds have passed: it is cleared. *)
Stopped ==
  /\ main = "polling"
  /\ main' = "down"
  /\ link' = [w \in Workers |-> "none"]
  /\ clear_dispatch_registry
  /\ UNCHANGED <<table_vars, cycle, loop_vars, await_vars, monitor_vars, to_close,
                 co, job_vars>>

-----------------------------------------------------------------------------
Dispatcher ==
  \E l \in Loops :
    \/ DispatcherTicks(l)
    \/ DispatcherLastTick(l)
    \/ DispatcherReturns(l)

Dispatch(a) ==
  \/ DispatchRaises(a)
  \/ DispatchSends(a)
  \/ DispatchHasNoLink(a)
  \/ DispatchIsStale(a)
  \/ DispatchIsLost(a)
  \/ DispatchIsAnswered(a)

Monitor ==
  \/ MonitorTicks
  \/ MonitorAssigns
  \/ MonitorDrained
  \/ MonitorReturns

stop_master_continues ==
  \/ ServerClosed
  \/ DispatcherStopped
  \/ DispatchesEnded
  \/ MonitorStopped \/ MonitorHadRaised
  \/ \E w \in Workers : LinkCloses(w) \/ LinkCloseRaises(w)
  \/ LinksClosed
  \/ Stopped

drain_tasks_for_continues == JobAssigns \/ JobWaits \/ JobEnds
Job == drain_tasks_for_continues \/ \E t \in Tasks : JobSubmits(t)

(* A coroutine that is not suspended at the end of its step. *)
MonitorRuns == monitor = "ticked"
JobRuns == job = "submitting"

Others ==
  \/ start_master
  \/ ServerStarted
  \/ stop_master
  \/ WaitsForServer
  \/ stop_master_continues
  \/ Dispatcher
  \/ \E a \in Attempts : Dispatch(a)
  \/ \E w \in Workers : \/ WorkerConnects(w)
                        \/ WorkerIsLost(w)
                        \/ HandlerReturns(w)
                        \/ HeartbeatsStop(w)
  \/ \E t \in Tasks : Call(t) \/ CallTimesOut(t)

Next ==
  \/ ~JobRuns /\ Monitor
  \/ ~MonitorRuns /\ Job
  \/ ~JobRuns /\ ~MonitorRuns /\ Others

Spec == Init /\ [][Next]_vars

(* A coroutine of the master that can run does run, and a worker that was  *)
(* sent a task answers it or is lost.  Nobody has to call start_master or  *)
(* stop_master, connect, submit a task or go on with a job.                *)
FairSpec ==
  /\ Spec
  /\ WF_vars(stop_master_continues)
  /\ \A l \in Loops : WF_vars(DispatcherLastTick(l) \/ DispatcherReturns(l))
  /\ WF_vars(Monitor)
  /\ \A a \in Attempts : WF_vars(Dispatch(a))
  /\ \A w \in Workers : WF_vars(HandlerReturns(w))

-----------------------------------------------------------------------------
(* When stop_master has returned no dispatcher loop is left that could     *)
(* assign a task: "nothing is left running to pick the requeued task back  *)
(* up" (stop_master).                                                      *)
NoDispatcherLeft ==
  main = "down" => \A l \in Loops : loop[l] = "none" \/ HasReturned(l)

(* When stop_master has returned, nothing it is meant to take down is      *)
(* left: no dispatcher, no monitor, no dispatch of either, no connection,  *)
(* and no entry of the response registry.  When it was cut short by the    *)
(* reset of a connection, or by what ended the monitor, nothing of its own *)
(* that assigns or dispatches is left.  A job in drain_tasks_for and what  *)
(* a gather that raised left running are not stop_master's to end: their   *)
(* dispatches go on, and record the outcome of their tasks and no other.   *)
StopsClean ==
  /\ main \in {"down", "aborted"} =>
       /\ \A l \in Loops : loop[l] = "none" \/ HasReturned(l)
       /\ monitor \in {"none", "returned", "raised"}
       /\ \A a \in Attempts : Live(a) => co[a].by \in {"job", "orphan"}
  /\ main = "down" =>
       /\ \A w \in Workers : link[w] = "none"
       /\ waiting = {}
       /\ \A t \in recorded :
            \E a \in Attempts : a[1] = t /\ co[a].by \in {"job", "orphan"}

(* From the moment stop_master closes the connections until the master is  *)
(* up again, neither the dispatcher nor the monitor assigns a task: step 3 *)
(* stops the monitor because it is "the only thing left that could still   *)
(* assign work during shutdown".  That overlooks a job in drain_tasks_for, *)
(* which goes on to assign its own tasks, and nothing else does.           *)
NoLateAssignment ==
  [][main \notin {"up", "server", "dispatcher", "dispatches", "monitor"}
       => \A t \in Tasks : attempt'[t] # attempt[t]
                            => t \in task_ids /\ co'[<<t, attempt'[t]>>].by = "job"]_vars

(* A dispatch of the monitor never finds its task requeued or started by   *)
(* another coroutine, unless a job hands out tasks with drain_tasks_for or *)
(* a dispatcher returned before the coroutines of its last tick started.   *)
(* drain_pending_tasks gathers without return_exceptions, so the           *)
(* ValueError of start_task ends the failure monitor, and surfaces later   *)
(* in stop_master.                                                         *)
RecoveryNeverRaises ==
  task_ids = {} /\ (\A l \in Loops : loop[l] # "early") => \A a \in Attempts :
    co[a].pc = "spawned" /\ co[a].by = "monitor" => status[a[1]] = "ASSIGNED"

(* When drain_tasks_for returns before its deadline, each of its tasks is  *)
(* over, though the monitor may have taken some of them, and it returns    *)
(* the success of every task its own last dispatch completed: run_map_     *)
(* reduce drops a partition without one.                                   *)
DrainReports ==
  job = "returned" =>
    \A t \in task_ids :
      /\ status[t] \in Terminal
      /\ status[t] = "COMPLETED" /\ co[<<t, attempt[t]>>].by = "job"
           => t \in responses

(* "this job's dispatch can safely run concurrently with any other         *)
(* caller's (another job, ordinary ad-hoc tasks, or the failure monitor)   *)
(* without either one's responses ending up in the wrong place"            *)
(* (jobs/map_reduce.py): the job gets the response of every task of its    *)
(* own that was completed.                                                 *)
JobGetsItsResponses ==
  job = "returned" =>
    \A t \in task_ids : status[t] = "COMPLETED" => t \in responses

(* A stop_master that has begun ends, however many dispatches, stale       *)
(* workers and lost connections it meets on its way, if wait_closed does   *)
(* not suspend, or if each worker leaves while it does.  Without that      *)
(* condition stop_master waits for connections that it is itself to close. *)
StopEnds ==
  []<>(main = "server" => \A w \in Workers : link[w] # "open")
    => (main \in Stopping ~> main \in {"down", "aborted"})

=============================================================================
