# A TLA+ model of py-distributed-compute

The program is a small distributed task engine in Python: a master hands tasks
to worker processes over TCP, notices when workers die, retries their tasks,
and runs MapReduce jobs on top. The models here cover its concurrent core: the
scheduler, the asyncio master, the registry through which callers wait for
results, the start and stop of the master, the asyncio worker and its
process-pool backend, `pydc run`, the threaded master, and the MapReduce job.
TLC checks them on small instances; TLAPS proves the safety properties of both
masters, the registry, the start and stop, the backend and the worker for every
number of tasks, workers, connections, calls and attempts, and those of the
MapReduce job for data of any length.

Check a run with `tlc -config <run>.cfg <module>`, and the proofs with `tlapm` on
`AsyncMasterProofs`, `AsyncMasterLinks`, `ResponseRegistryProofs`, `BackendProofs`,
`ThreadedMasterProofs`, `WorkerRuntimeProofs`, `MasterLifecycleProofs` and
`MapReduceProofs`. Most of them begin with `USE Zenon`: their leaves are first-order
and go to Zenon, unless they name SMT, which saves the time of trying it first.
`PROJECT.json` lists runs, mutants, hazards, theorems and, for every definition
that models code, the source lines it stands for.

## The system

| Part | Source | State | Operations | Model |
|---|---|---|---|---|
| Scheduler, worker table | `master/scheduler.py`, `master/worker_manager.py` | tasks and workers, their status, attempt, generation, heartbeat | submit, assign, start, complete, fail, requeue, register, heartbeat, stale | `Scheduler` |
| Async master | `master/async_server.py`, `master/rpc_handler.py` | connections, links, pending replies, dispatch coroutines | connection handler, dispatcher loop, dispatch, failure monitor, drain of a leaving worker | `AsyncMaster`, abstract: `TaskLifecycle` |
| Response registry | `master/async_server.py` | `_task_responses`, `_task_futures` | record, wait, time out, clear | `ResponseRegistry` |
| Master life cycle | `master/async_server.py` | server, dispatcher task, monitor task | start_master, stop_master, stop_dispatcher, drain_tasks_for | `MasterLifecycle` |
| Backends | `worker/backend.py` | pool, semaphore, metrics | start, stop, execute | `Backend` |
| Jobs | `jobs/*.py` | tasks and responses of a job | partition, shuffle, reduce, run_map_reduce | `MapReduce` |
| Async worker | `worker/async_worker.py` | serve, heartbeat and shutdown coroutines, one connection | run_worker | `WorkerRuntime` |
| `pydc run` | `client.py` | in-process master, worker and job | the scenario coroutine | `PydcRun` |
| Threaded master and worker | `master/server.py`, `worker/worker.py` | the scheduler's tables, sockets, a lock | main, failure monitor, heartbeat and dispatch threads | `ThreadedMaster` |
| Executor | `worker/executor.py` | none | what a task returns, and what it does not catch | `MapReduce`, `WorkerRuntime` |
| Registry, serialization, protocol, configuration | `worker/registry.py` and others | none, or a dictionary | pure functions, parsing | not modelled |

A caller submits tasks to the scheduler and awaits `wait_for_tasks`. That
starts the dispatcher, which every 10 ms assigns pending tasks to idle workers
and spawns a coroutine per assignment. The coroutine sends the task on the
worker's connection and awaits the reply, which the connection's handler
delivers. Lost connections, overdue heartbeats and replies all end an attempt;
the task is then completed, failed or requeued, and a terminal outcome is
recorded in the registry, which wakes the callers.

What makes it hard: an attempt may be given up on while its reply is on the
way; a worker id may come back on a new connection while the old one is still
being cleaned up; a worker can be declared dead twice, by its connection and by
its heartbeat; callers share futures; a job and the failure monitor can hand out
the same task; the master can be stopped in the middle of all this; a worker can
be cancelled in the middle of its own cleanup; the threaded master changes its
tables without the lock its monitor holds; and calls of the backend can outlive
the pool they were made for.

## How the code becomes actions

The master is one thread running coroutines. Code between two real suspension
points is atomic, so an action is a stretch between two awaits that suspend.
The first step of a spawned coroutine may come arbitrarily late. That is more
than the event loop allows, except where a comment says otherwise
(`DispatcherReturns`), and sound for safety. A dispatcher tick assigns tasks in
a loop without suspending; `AsyncMaster` takes one assignment per step, which again
allows more, and `MasterLifecycle` the whole batch.

Time is abstracted. `stale[w]` says that the heartbeat of a worker is overdue,
and a timeout may fire at any moment. Task payloads and results are model
values; that a payload may not be encodable is the constant `Unencodable`.

* `Scheduler` has one operator per method of the two classes. The modules that
  extend it conjoin these operators into the steps of their coroutines.
* `AsyncMaster` has an action per branch of `handle_worker_connection` (REGISTER
  accepted, refused, or with its reply lost; heartbeat; SHUTDOWN with and
  without work in flight; a result; the end of the connection), of
  `dispatch_assigned_task` (no link, sent, raised, lost, stale, finished, closing
  the link of a leaving worker), the dispatcher's assignment and the monitor's
  tick. `Faults` says what the environment does: `crash` (a connection ends),
  `silence` (heartbeats stop), `shutdown` (a worker asks to leave), `duplicate`
  (a second process uses the same id).
* `TaskLifecycle` is what the master promises about a task: pending, handed
  out at most `MAX_TASK_ATTEMPTS` times, ended once, and with a response that is
  its outcome. `AsyncMaster` implements it, with the mapping in `Lifecycle`.
* `ResponseRegistry` has the calls of `wait_for_tasks`, which share one future
  per task, their timeouts, the record of an outcome and the clear.
* `MasterLifecycle` reuses `Scheduler` and gives a dispatch and a connection
  fewer steps than `AsyncMaster`: no superseded links, no encoding failures, no
  draining. It adds the dispatcher loops, `stop_master` cut at each of its awaits
  (`Server.wait_closed` suspends or not, depending on the Python version), and
  `drain_tasks_for` in rounds (`DrainRound`): the monitor's fallback drains
  everything, a job drains the tasks it submitted (`JobSubmits`, `JobAssigns`,
  `JobWaits`, `JobEnds`). Where a coroutine goes on without a suspension over two
  actions, `Next` lets nobody else run in between (`MonitorRuns`, `JobRuns`). A
  dispatch whose `start_task` raises ends the job, or the monitor, that gathers
  it; the other dispatches of that gather run on, awaited by nobody (`Orphans`).
  A loop or a monitor whose timer had fired when it was told to stop is `due`: it
  makes one more tick. After that the dispatcher waits again, or, since Python
  3.12, returns at once, before the coroutines it created have started (`early`).
  A job belongs to a coroutine of its own that nobody stops, so it may submit and
  drain at any time, also while the master stops and when it is down.
  `lifecycle` assumes that nobody calls `wait_for_tasks` while the master
  stops; `stop_leaves_dispatcher` does not.
* `WorkerRuntime` has one run of `run_worker`: handshake, serve loop, heartbeat
  loop, shutdown watcher and the cleanup in its two `finally` blocks, each cut at
  its awaits, against the master's handler at the other end of the connection.
  A cancellation may hit any await, the cleanup's included; a large result
  may fill the write buffer, and then every writer waits. The master's failure
  monitor may call a connected worker FAILED (`MonitorFails`), whose task in flight
  then is a stale attempt. `Faults` are a backend
  that cannot start or stop, a task that raises something `execute_task` does not
  catch, a lost master, and a refused registration.
* `PydcRun` adds the owner of a worker: a process that submits tasks, shuts it
  down or cancels it, or the coroutine of `pydc run`, which waits for the worker,
  runs the job, and takes worker and master down.
* `ThreadedMaster` has an action per step of a thread that another thread can
  tell apart. A section under `_state_lock` is one step, but for the walks of the
  failure monitor: registrations and submissions do not take the lock, and a
  table that grows during a walk ends the monitor with a RuntimeError.
* `Backend` has the calls of `MultiprocessingBackend.execute` and the lifetimes
  between `start` and `stop`. The pool and the semaphore are external: a released
  permit passes to the first waiter, as in Python 3.11. An exception may come out
  of the pool in any call (`Raises`), whether or not the pool is broken.
* `MapReduce` has the pure functions as operators, with loops as recursive
  functions, and `run_map_reduce` with `dispatch` as its environment: it returns
  responses in any order, raises (`DispatchRaises`), or returns too few. Every
  dispatch of a task leaves a response, a success that arrives after its attempt
  was given up included; `over` marks the one that ended the task, behind which no
  other comes. REDUCE tasks are keyed by the names of the keys, and two keys of
  one name end the job (`Collides`), as `submit_task` refuses the second.

## What is checked

| Run | Instance | States | Shows |
|---|---|---|---|
| `master_retry` | 2 tasks and one that cannot be encoded, 2 workers, 2 connections, crash and silence | 329k | attempt check, one task per worker, no task left with a worker that is not working, refinement |
| `master_faults` | 1 task, 2 workers, 2 connections, all faults, fair | 104k | no orphaned task, no worker left BUSY without one, the newest connection is the one used and the reply of a running task is awaited on it, each task ends and is answered, a worker that asked to leave is let go |
| `registry_shared` | 3 calls over 3 shared tasks, fair | 38k | no lost wake-up, no answer of an earlier life, each call ends, no cancellation without a cause |
| `lifecycle` | 1 task, 2 workers, 2 starts, 2 registrations, fair | 495k | `stop_master` ends and leaves nothing of its own running, only a job assigns behind it; `drain_tasks_for` reports what its own dispatches completed |
| `worker` | 2 tasks, 2 cancellations, all faults, fair | 71k | the handshake takes no message for another, the cleanup leaves nothing behind, a graceful exit owes no answer; shutdown, loss of the master and `pydc run` come to an end |
| `threaded` | 2 tasks, 2 workers, fair | 171k | no two threads on a socket, no FAILED worker with a task, the monitor survives while there is work, the drain ends and is complete, refinement |
| `backend` | 3 calls, 1 permit, 2 lifetimes, fair | 38k | permits and metrics balance, no task in the default thread pool, each call ends |
| `map_reduce` | all data of up to 3 out of 4 items, up to 4 partitions, one response of a given-up attempt | 116k | partition, order and result against reference definitions |
| `stop_leaves_dispatcher` | late calls | violated | see below |
| `unanswered` | silence | violated | see below |
| `registry_cancelled` | shared tasks | violated | see below |
| `stolen_response` | a job in `drain_tasks_for`, 2 workers | violated | see below |

Every component but `MapReduce` has a `TypeOK`, which is proved, by itself or as
part of an inductive invariant. `RetryBudget`,
`ResponseAgrees`, `OutcomeIsFinal` and `OpenLinkIsCurrent` are proved and no longer
model-checked; the first three also follow from the refinement.

The bounds. Two attempts are the least with a retry. Two tasks and one worker,
or two workers, let a task go back to the worker that lost it or to another.
Two connections for one id are the least for one to supersede another. The
liveness runs of the master have a second worker, so that a task stuck on the
first does not make the assumption that workers are available false. In
`lifecycle` a second start of the master lets something survive a stop, and two
registrations are two workers, or one that comes back, so that a task lost while
the master stops can be handed out again. One permit and
three calls have a holder, a first and a second waiter. Two tasks and three unread
messages let a TASK cross with SHUTDOWN and a heartbeat wait behind a large
result; two cancellations are one to start the cleanup and one to hit it. Two
tasks and two workers in `threaded` are the least for a thread to be left waiting
for a silent worker while its task goes to another. Three items and four
partitions have every shape of a short split: more partitions than items, an even
one and one with a remainder.

`master_retry` and `unanswered` use symmetry: tasks that can be sent are
interchangeable, and so are workers, since the code orders both by arrival only.
These runs check safety; `ImplementsLifecycle` has no fairness either. The runs
with liveness use none. `stolen_response` has an action constraint, `PollsFirst`:
no heartbeat expires (after 5 s) while a job that polls every 10 ms has something
to hand out. It only removes behaviours, so that the counterexample is one that
the timing of the code allows.

Deadlock is not checked: a system in which everything was submitted, answered
and closed may stop.

### Fairness

All fairness is weak, except for the threads that compete for a lock.

* `AsyncMaster`: the dispatcher, the monitor, each dispatch and each handler with
  a message or an end of file to read go on. The event loop runs every ready
  callback, both loops tick for ever, and no code blocks the thread. Of the
  workers one thing is assumed: a task that is still current is answered
  (`Answers`). The code has no timeout for a task, so without this a task can
  be in flight for ever. `TasksEnd` and `TasksAnswered` say in their own
  statement that a worker is IDLE again and again. Nobody has to submit,
  reconnect, crash or leave.
* `ResponseRegistry`: a call whose futures are done is resumed, and each task is
  recorded in the end. The second is what `TasksAnswered` shows of the master.
* `MasterLifecycle`: `stop_master`, a dispatcher told to stop, the monitor, each
  dispatch (so its worker answers or is lost) and each handler go on. `StopEnds`
  says in its own statement that the workers leave when `Server.wait_closed`
  suspends, as it does since Python 3.12. Nothing is assumed of a job.
* `WorkerRuntime`, `PydcRun`: every coroutine that can go on does, the master reads
  what it is sent, and a child process ends its task or dies. Heartbeats, tasks,
  shutdown and cancellation need not come.
* `ThreadedMaster`: strong fairness for main and for each dispatch thread, since the
  monitor takes the lock again and again but sleeps in between, so whoever waits
  for it gets it. A worker answers its task or its connection breaks: the socket
  is read without a timeout.
* `Backend`: a call that can go on does, and a child process ends its task.

## What is proved

Every theorem is about the specification without fairness and holds for all
values of the constants that satisfy the named assumptions of the modules. Each
inductive invariant was also checked with TLC on the instance of its run.

### The async master

From `SchedulerAssumption`, `AsyncMasterAssumption` and `ResponseAssumption` (at
least one attempt; `None` is no worker, connection or response), for any sets of
tasks and workers, any number of connections and any faults: the type invariant,
`RetryBudget`, `NoOrphan`, `CurrentIsRunning`, `ResponseAgrees`, `OutcomeIsFinal`,
`BusyHasTask`, `OpenLinkIsCurrent`, `LatestGeneration`, `RunningIsHeard`, and that
`AsyncMaster` implements `TaskLifecycle`; and, when `"shutdown"` is not among the
faults, `OneTaskPerWorker` and `HolderIsWorking`.

The properties about tasks lean on each other and on what no property says, so
one inductive invariant carries them. `IInv` is `TypeOK`, `PeerKnown` (a connected
process has a worker id) and `Core`, which relates the three places an attempt is
known in: the task table, the coroutines and the registry.

* `TaskInv`: what status, worker and attempt of a task can be together.
* `AwaitingInv`, `AwaitingUnique`: a coroutine that awaits a reply captured an
  attempt that was made, one before that of an assignment yet to start, and no
  two speak for the same attempt. So at most one coroutine is current.
* `ClosingInv`, `ClosingUnique`: a coroutine that has ended its task and still has
  to close a draining connection is the only one that will record it. The await
  there separates the outcome from its record.
* `NameIsFresh`: an assignment never reuses the name of a coroutine.
* `CurrentIsRunning`, `NoOrphan`, `ResponseAgrees`.

`AsyncMasterProofs` has the types and the core, with a lemma per action or group of
actions that disturb the core alike; the properties about tasks follow from
`IInv`. It then maps every step to a step of the life cycle or a stutter, and
derives `OutcomeIsFinal` from that.

`AsyncMasterLinks` has the workers and the connections, each relative to `IInv`.
`BusyHasTask` is inductive. `OpenLinkIsCurrent` needs that an unused connection
has no link (`LinkInv`). `LatestGeneration` needs that a published link belongs to
its worker and that no link carries a generation its worker has not reached
(`GenerationInv`). `RunningIsHeard` needs that a STOPPED worker has no connection in
use and that the worker of a task in flight is not FAILED (`HeardInv`): then the
worker of a running task is in no status in which its id may be registered again
(`HeardIsTaken`), so no connection supersedes the one its reply is awaited on.
`OneTaskPerWorker` and `HolderIsWorking` need each other and that no worker is DRAINING or STOPPED
(`HolderInv`). Their hypothesis is that of `master_retry` and cannot be dropped: a
worker that leaves between an assignment and the start of its coroutine becomes
STOPPED with the task still its own, and is given a second one when it
reconnects (see below).

### The response registry

`ResponseRegistryProofs` proves type correctness, `NoLostWakeup`,
`AnswersAreFresh` and `CancelledForCause` for any tasks, calls and number of clears.
Its invariant adds that every pending future, awaited or not, is the one
registered for its task and the task unanswered (`PendingIsRegistered`), that a
call creates no future before it is made (so a new future never overwrites an
awaited one), that the registry holds responses of the present life only, and
that what a waiting call has got, and what its resolved futures hold, is of the
life it began in. For `CancelledForCause` the cause must be known before the call
notices: `CauseInv` has one for every cancelled future that a call still awaits.

### The backend

`BackendProofs` proves `PermitsConserved`, `OnlyInPool` and `MetricsBalance` for any set
of calls, finite or not, any positive `max_in_flight` and any number of
lifetimes. The invariant says of each lifetime's semaphore that its queue holds
each waiter once and nobody else (`QueueInv`, `WaiterIsQueued`), so that a permit
that is passed on reaches a call that waits for it, and of each call which
lifetime it belongs to (`CallInv`). `MetricsBalance` has a hypothesis about
lifetimes, so its induction goes back to the step before: either the hypothesis
held there, or the step starts a new lifetime with new metrics (`BalanceKept`,
`StartStep`).

### The threaded master

`ThreadedMasterProofs` proves `OneReaderPerConnection`, `FailedWorkerHasNoTask`,
`DrainIsComplete`, `MonitorSurvivesDrain`, and that `ThreadedMaster` implements
`TaskLifecycle`. `ThreadedAssumption` adds to that of the scheduler that at least
one worker is expected. The invariant:

* `TaskInv`, `ThreadInv`: a task is in flight exactly while a thread has it for its
  own; a thread that lost its task to the monitor talks to a worker that stays
  FAILED, and so is joined by no other.
* `Covered`: the worker of a task in flight is BUSY, or the monitor has marked it
  and the worker is still among those it is about to requeue.
* `Distinct`: no two threads have the same worker.
* `MonitorInv`: the tables the monitor walks grow only while no task was ever
  assigned. That is why it may die between marking a worker and requeueing its
  tasks, and still `FailedWorkerHasNoTask` holds.
* `MainInv`: what main has done so far: it leaves submission with every task in the
  table, and runs a round only after it has joined the threads of the last one.

### The worker

`WorkerRuntimeProofs` proves `HandshakeInOrder`, `NothingLeft` and `GracefulExit` of
`RunSpec` (a worker of its own and that of `pydc run`), for any number of tasks,
messages and cancellations and any faults. The invariant:

* `Control`: what is open and running at each await, the cleanup's included.
* `Wire`: what is in the connection during the handshake. At most one message of
  the handshake is under way, and a TASK comes only behind the acknowledgement.
* `Owing`: at most one task is under way, and it is in one place: a TASK on its way,
  the backend, or a result on its way. So the types hold: no more results are
  read than tasks were sent.
* `Leaving`: at the end of the connection the master has nothing in flight with
  this worker or is lost; and `run_worker` ends without an exception only after it
  read that end.

### The life cycle of the master

`MasterLifecycleProofs` proves type correctness and `DrainReports` for any callers,
and `StopsClean`, `RecoveryNeverRaises` and `NoLateAssignment` when `LateCalls` is
`FALSE`, for any tasks and workers and any number of loops and starts. That
hypothesis is the one of `lifecycle` and cannot be dropped: `stop_leaves_dispatcher`
violates `StopsClean` without it. `LifecycleAssumption` says that the bounds are
positive and that `None` is no dispatcher loop, since `_dispatcher_task` holds either.

The invariant has two layers. `TaskInv` holds whoever calls:

* `OrderInv`, `StatusInv`, `WorkerInv`: each task and worker is listed once; a PENDING
  task has an attempt left; a task in flight has a BUSY worker to itself. So a batch
  of `drain_tasks_for` gives each of its tasks a worker of its own (the lemmas on
  `Batch`), and no attempt is assigned twice.
* `SpawnInv`, `AwaitInv`: a coroutine exists only for an attempt that was made, and
  what an awaiting one captured is the attempt of no other. A dispatch may start
  a later assignment of its task than the one it was spawned for, so the captured
  attempt is at least its own.
* `JobInv`, `ReportInv`: a dispatch of the job that is over has left its success with
  the job, or lost its task, or the task has failed. `DrainReports` follows at the
  step where the job returns.

`StopInv` follows `stop_master` through its awaits, on top of `TaskInv`:

* `LoopInv`: the only dispatcher loop that is not over is the one `_dispatcher_task`
  refers to, so awaiting that one awaits all. This is what a late call breaks.
* `DispatchInv`, `MonitorInv`: a live dispatch of the dispatcher is among those that
  `stop_dispatcher` gathers; the monitor lives until it is awaited, and its
  dispatches only while it drains. `NoLateAssignment` follows from these and
  `JobInv`: past the monitor only a round of the job assigns (`AssignsInTime`), and
  it assigns tasks of its own (`JobAssignsOwn`).
* `DownInv`: once the master is down, and until the next start, there is no
  connection and no waiter, and what is recorded was dispatched by a job or left
  over from a gather that raised.
* `RecoveryInv`: while no job has drained, and no dispatcher returned ahead of the
  coroutines of its last tick (`NoneEarly`), no dispatch waits for its first step
  with a task that is no longer its own when the monitor falls back. The
  dispatcher's own spawned dispatches would be in the way, but the monitor falls
  back only when no dispatcher runs, and by then they have started.

### The MapReduce job

`MapReduceProofs` proves all four properties of `map_reduce` for data of any length
over any items, any number of partitions and of given-up attempts, and any order of
the answers. `MapReduceAssumption` says that the map operation emits a key that has a
name, and a natural number.

The library's induction theorems take an operator and cannot be used, but the
principle of the least counterexample can (`LeastElement`), and a loop of the code
is a recursive function over its turns. `LoopRuns` shows that such a loop has a
value after every turn, once for the loops of `shuffle` and the sums (`Turn` tells
them apart); what a loop computes then follows from its least turn that could go
wrong.

* `PartitionIsSplit`: the running `start` of `partition` is the closed form `ChunkEnd`
  (`Starts`), and putting the chunks together one by one gives every prefix of the
  data (`PrefixFlattens`).
* `MapJobInOrder`: `MapInv` says of the responses that a success is what the worker
  computed for its chunk. The code keeps the last response for a task, and where
  that is a success (the premise, `LastSucceeds`) it has the chunk's result
  (`LastIsSuccess`).
* `GroupedInOrder`: `Grouped(g, P)` says that `g` has the values emitted at the
  positions in `P`, each at its rank among those of its key. A pair from a position
  behind all of `P` keeps it (`GroupedNext`), hence so do a chunk (`GroupChunk`) and
  all successful results (`ShuffleGroups`). `PositionsSpans` relates the chunks to
  the reference, which counts the lengths of the partitions before.
* `ResultIsReference`: the sum of a list in order is the sum over its positions
  (`SumInOrder`), and `JobInv` carries the groups, the lists of the REDUCE tasks and
  their answers to the return of the job.

### Only model-checked

* All liveness: fairness and ENABLED are out of the prover's reach.
* The four violated properties, of course.

## Where code and documentation disagree

With a run:

* `unanswered`. "Every dispatch ... writes its task's terminal outcome here exactly once"
  (`async_server.py:93-96`). When the monitor requeues the task of a silent worker at the
  attempt limit, the task is FAILED and nobody records it; its waiters wait for
  their own timeout.
* `registry_cancelled`. "safe for any number of concurrent callers" (`:653-654`).
  A call that times out cancels the futures it shares with other calls.
* `stop_leaves_dispatcher`. "no new assignment can happen after this"
  (`:792-793`). A `wait_for_tasks` call made while the master stops, for example
  by the second phase of a MapReduce job, starts a dispatcher that outlives
  `stop_master`.
* `stolen_response`. "this job's dispatch can safely run concurrently with any
  other caller's (another job, ordinary ad-hoc tasks, or the failure monitor)
  without either one's responses ending up in the wrong place"
  (`jobs/map_reduce.py:53-55`). A worker falls silent with a task of a job that
  uses `drain_tasks_for`; no dispatcher runs, so the monitor drains every pending
  task itself, hands this one to another worker and drops the answer. The job
  returns without it, and `run_map_reduce` takes the partition for a failed one.

Seen while modelling, without a run of its own:

* A worker whose connection is lost stays IDLE until its heartbeat is overdue,
  although "A worker_id that's REGISTERED/IDLE/BUSY/DRAINING still has a live
  connection" (`worker_manager.py:50-51`); one that restarts at once is refused.
* A worker that leaves and reconnects between an assignment and the start of
  its coroutine is given a second task, although "a worker is only ever BUSY with
  one task at a time" (`async_server.py:161-162`). `OneTaskPerWorker` is therefore
  checked in `master_retry`, which has no `shutdown`.
* A worker that is declared FAILED and then asks to leave with a task in flight is
  not let go: the coroutine returns as stale before it would close the
  connection (`:424-425`). `DrainCloses` therefore has the premise that no heartbeat
  is overdue, and `ShutdownEnds` that the master never calls the worker FAILED.
* A payload that cannot be encoded is taken for a dead worker and marks one
  healthy worker FAILED per attempt (`:403`, `worker_manager.py:25-26`).
* `stop_master` waits without a deadline for a worker that never answers; a
  connection reset while it closes the others makes it raise, with the registry
  not cleared; on Python 3.12 and later `Server.wait_closed` waits for the open
  connections, which `stop_master` closes only afterwards.
* A job in `drain_tasks_for` and the monitor's fallback can hand out the same task
  within one turn of the event loop. Then `start_task` raises in one of the two
  dispatches, and ends the job, or the monitor and later `stop_master`
  (`:522`). `RecoveryNeverRaises` therefore says nothing once a job has drained, nor
  once a dispatcher, on Python 3.12 and later, has returned before the coroutines of
  its last tick started: the monitor's fallback may then meet these in the same way.
* The monitor is not "the only thing left that could still assign work during
  shutdown" (`:794-796`): a job in `drain_tasks_for` goes on to assign its tasks while
  the connections are closed and after `stop_master` has returned, and records their
  outcomes in the registry that was just cleared. `NoLateAssignment` and `StopsClean`
  except what a job does.
* A success that arrives after its attempt was given up is among the responses of
  `drain_tasks_for`; when the retry then fails, its error comes last, and the job
  drops the partition, or raises for a REDUCE task, although a result was there.
* `drain_tasks_for` is called "LEGACY / TEST-ONLY" (`:458`), while `pydc run`
  (`client.py:224`) and an example pass it to `run_map_reduce`.
* `pydc run` waits in `wait_for_workers`, without a deadline, for a worker whose
  task may be over: when `backend.start()` raises, the command does not "exit"
  (`client.py:9`). `RunEnds` excepts this case.
* "execute_task never raises" (`backend.py:191`), but it catches `ExecutionError`
  only; an overflow in a built-in operation ends the worker, and the retry may end
  the next one.
* A cancellation that hits `run_worker` while it awaits its heartbeat task takes the
  rest of the cleanup along, `backend.stop()` included. `NothingLeft` excepts it.
* The threaded master reads REGISTER on one connection at a time: a refused
  duplicate that stays connected keeps every other worker out, and when it leaves
  main ends with its ConnectionError. Its monitor ends with a RuntimeError when a
  worker registers during its walk; `MonitorSurvivesDrain` shows that this cannot
  happen once a task was assigned.
* A backend call that outlives its lifetime uses the next pool without a permit
  of it and is counted in metrics it was never submitted to, although "each
  start()/stop() lifetime gets its own clean metrics" (`backend.py:372-373`).
  `MetricsBalance` states the balance for lifetimes without such calls.

## Not modelled, and what comes next

* The wire format, configuration, command line, function registry and
  serialization: sequential code, evaluated without a second actor. That encoding
  can fail is the constant `Unencodable` of `AsyncMaster`.
* Most of the executor: pure functions of a payload. `MapReduce` has what a MAP and
  a REDUCE task return, `WorkerRuntime` what `execute_task` does not catch.
* `jobs/call.py`, `reduce_grouped`, `IntermediateResultStore`, and operations given by
  name or as serialized callables: no state that two actors share.
* The metrics of `DirectBackend`, and a `start()` of a backend without a `stop()`
  before it.
* Concurrent calls of `start_master` and `stop_master`: `serve_forever`,
  `run_server` and `pydc run` make them in turn from one coroutine.
* `remove_worker`, `clear`, `accept_and_handle_one` and `submit_and_dispatch_task`,
  which only tests call.
* The inside of the threaded worker, which is sequential but for a heartbeat
  thread with a connection of its own.
