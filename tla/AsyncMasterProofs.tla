------------------------- MODULE AsyncMasterProofs --------------------------
(***************************************************************************)
(* Proofs about the asyncio master, for every number of tasks, workers,    *)
(* connections and attempts, and every set of faults: its types, the core  *)
(* of the inductive invariant, the safety properties that follow, and that *)
(* the master implements TaskLifecycle: every step is a step of the life   *)
(* cycle or leaves tasks and responses alone.                              *)
(***************************************************************************)
EXTENDS AsyncMaster, TLAPS

(* Most leaves are first-order: they are Zenon's unless they name a prover. *)
USE Zenon

-----------------------------------------------------------------------------
(* The inductive invariant. *)

(* A process that is connected has a worker id. *)
PeerKnown ==
  \A c \in Conns : process[c] # "none" => peer[c] \in Workers

(* What the task table alone shows of a task. *)
TaskInv ==
  \A t \in Tasks :
    /\ status[t] = "ABSENT" => assigned_worker_id[t] = None /\ attempt[t] = 0
    /\ status[t] = "PENDING" =>
         assigned_worker_id[t] = None /\ attempt[t] < MAX_TASK_ATTEMPTS
    /\ status[t] \in InFlight =>
         assigned_worker_id[t] \in Workers /\ attempt[t] >= 1
    /\ status[t] = "FAILED" /\ assigned_worker_id[t] = None =>
         attempt[t] = MAX_TASK_ATTEMPTS
    /\ status[t] \in Terminal => attempt[t] >= 1

(* A coroutine that awaits a reply captured an attempt that was made, and  *)
(* an attempt before the one that is yet to start.                         *)
AwaitingInv ==
  \A d \in Dispatches :
    dispatch[d].pc = "awaiting" =>
      /\ dispatch[d].worker \in Workers
      /\ dispatch[d].attempt >= 1
      /\ dispatch[d].attempt <= attempt[TaskOf(d)]
      /\ status[TaskOf(d)] = "ASSIGNED" =>
           dispatch[d].attempt < attempt[TaskOf(d)]

(* No two coroutines of a task speak for the same attempt. *)
AwaitingUnique ==
  \A d, e \in Dispatches :
    /\ TaskOf(d) = TaskOf(e)
    /\ dispatch[d].pc = "awaiting" /\ dispatch[e].pc = "awaiting"
    /\ dispatch[d].attempt = dispatch[e].attempt
    => d = e

(* A coroutine that has finished its task and not yet recorded it is the   *)
(* only one that will.                                                     *)
ClosingInv ==
  \A d \in Dispatches :
    dispatch[d].pc = "closing" =>
      /\ status[TaskOf(d)] \in Terminal
      /\ task_responses[TaskOf(d)] = None
      /\ dispatch[d].attempt = attempt[TaskOf(d)]
      /\ dispatch[d].reply \in {"success", "error"}
      /\ dispatch[d].reply = "success" <=> status[TaskOf(d)] = "COMPLETED"

ClosingUnique ==
  \A d, e \in Dispatches :
    /\ TaskOf(d) = TaskOf(e)
    /\ dispatch[d].pc = "closing" /\ dispatch[e].pc = "closing"
    => d = e

(* An assignment never reuses the name of a coroutine. *)
NameIsFresh ==
  \A d \in Dispatches : dispatch[d].pc # "none" => d[2] <= attempt[TaskOf(d)]

Core ==
  /\ TaskInv
  /\ AwaitingInv
  /\ AwaitingUnique
  /\ ClosingInv
  /\ ClosingUnique
  /\ NameIsFresh
  /\ CurrentIsRunning
  /\ NoOrphan
  /\ ResponseAgrees

IInv == TypeOK /\ PeerKnown /\ Core

-----------------------------------------------------------------------------
(* Types. *)

(* The task of a coroutine, and how a coroutine is named. *)
LEMMA DispatchType ==
  /\ \A d \in Dispatches :
       TaskOf(d) \in Tasks /\ d[2] \in 1 .. MAX_TASK_ATTEMPTS
  /\ \A t \in Tasks, a \in 1 .. MAX_TASK_ATTEMPTS :
       <<t, a>> \in Dispatches /\ TaskOf(<<t, a>>) = t
  /\ \A d, e \in Dispatches : TaskOf(d) = TaskOf(e) /\ d[2] = e[2] => d = e
BY SMT DEF Dispatches, TaskOf

(* The initial state satisfies the inductive invariant. *)
LEMMA InitIInv == Init => IInv
<1> SUFFICES ASSUME Init PROVE IInv
  OBVIOUS
<1> USE SchedulerAssumption, AsyncMasterAssumption
<1>1. SchedulerTypeOK
  BY SMT DEF Init, SchedulerInit, SchedulerTypeOK
<1>2. TypeOK
  BY <1>1, SMT DEF Init, TypeOK, ConnStates, ProcessStates, Coroutine, Idle, Conns
<1>3. PeerKnown
  BY DEF Init, PeerKnown
<1>4. Core
  BY DispatchType
     DEF Init, SchedulerInit, Core, TaskInv, AwaitingInv, AwaitingUnique,
         ClosingInv, ClosingUnique, NameIsFresh, CurrentIsRunning, NoOrphan,
         ResponseAgrees, Idle, InFlight, Terminal
<1>5. QED
  BY <1>2, <1>3, <1>4 DEF IInv

(* What close(), fail_pending and the tables' own operators return. *)
LEMMA OperatorTypes ==
  ASSUME TypeOK
  PROVE  /\ \A c \in Conns \cup {None} : Closed(c) \in [Conns -> ConnStates]
         /\ \A c \in Conns : fail_pending(c) \in [Dispatches -> Coroutine]
         /\ \A w \in Workers \cup {None} :
              release_worker(w) \in [Workers -> WorkerStatus \cup {"ABSENT"}]
         /\ \A w \in Workers :
              handle_shutdown(w) \in [Workers -> WorkerStatus \cup {"ABSENT"}]
         /\ Idle \in Coroutine /\ Done \in Coroutine
         /\ [Idle EXCEPT !.pc = "spawned"] \in Coroutine
<1> USE SchedulerAssumption, AsyncMasterAssumption
<1>1. \A c \in Conns \cup {None} : Closed(c) \in [Conns -> ConnStates]
  BY DEF TypeOK, Closed, ConnStates
<1>2. \A c \in Conns : fail_pending(c) \in [Dispatches -> Coroutine]
  <2>1. \A x \in Coroutine : [x EXCEPT !.reply = "lost"] \in Coroutine
    BY DEF Coroutine
  <2>2. \A d \in Dispatches : dispatch[d] \in Coroutine
    BY DEF TypeOK
  <2>3. QED
    BY <2>1, <2>2 DEF fail_pending
<1>3. \A w \in Workers \cup {None} :
        release_worker(w) \in [Workers -> WorkerStatus \cup {"ABSENT"}]
  BY DEF TypeOK, SchedulerTypeOK, release_worker, WorkerStatus
<1>4. \A w \in Workers :
        handle_shutdown(w) \in [Workers -> WorkerStatus \cup {"ABSENT"}]
  BY DEF TypeOK, SchedulerTypeOK, handle_shutdown, WorkerStatus
<1>5. /\ Idle \in Coroutine /\ Done \in Coroutine
      /\ [Idle EXCEPT !.pc = "spawned"] \in Coroutine
  BY SMT DEF Idle, Done, Coroutine
<1>6. QED
  BY <1>1, <1>2, <1>3, <1>4, <1>5

(* A step of the network or of a worker process keeps the types. *)
LEMMA EnvironmentTypes ==
  ASSUME TypeOK, PeerKnown, NEW c \in Conns, NEW w \in Workers,
         Connect(c, w) \/ Crash(c) \/ Silence(w)
  PROVE  TypeOK' /\ PeerKnown'
<1> USE SchedulerAssumption, AsyncMasterAssumption
    DEF TypeOK, SchedulerTypeOK, PeerKnown, task_vars, worker_vars, link_vars
<1>1. CASE Connect(c, w)
  BY <1>1, SMT DEF Connect, ConnStates, ProcessStates
<1>2. CASE Crash(c)
  BY <1>2 DEF Crash, ConnStates
<1>3. CASE Silence(w)
  BY <1>3 DEF Silence, HeartbeatExpires
<1>4. QED
  BY <1>1, <1>2, <1>3

(* The registration of a worker keeps the types of the worker table. *)
LEMMA RegisterTypes ==
  ASSUME TypeOK, NEW w \in Workers, register_worker(w)
  PROVE  /\ worker_order' \in Seq(Workers)
         /\ worker_status' \in [Workers -> WorkerStatus \cup {"ABSENT"}]
         /\ generation' \in [Workers -> Nat]
         /\ stale' \in [Workers -> BOOLEAN]
<1>1. worker_order' \in Seq(Workers)
  BY SMT DEF TypeOK, SchedulerTypeOK, register_worker
<1>2. worker_status' \in [Workers -> WorkerStatus \cup {"ABSENT"}]
  BY DEF TypeOK, SchedulerTypeOK, register_worker, WorkerStatus
<1>3. generation' \in [Workers -> Nat] /\ stale' \in [Workers -> BOOLEAN]
  BY SMT DEF TypeOK, SchedulerTypeOK, register_worker
<1>4. QED
  BY <1>1, <1>2, <1>3

(* The end of a handler keeps the types. *)
LEMMA CleanupTypes ==
  ASSUME TypeOK, PeerKnown, NEW c \in Conns,
         NEW wstatus \in [Workers -> WorkerStatus \cup {"ABSENT"}],
         Cleanup(c, wstatus),
         UNCHANGED <<task_vars, worker_order, generation, stale, task_responses>>
  PROVE  TypeOK' /\ PeerKnown'
<1> USE SchedulerAssumption, AsyncMasterAssumption
<1>1. connections' \in [Workers -> Conns \cup {None}]
  BY DEF Cleanup, IsCurrentLink, TypeOK
<1>2. worker_status' \in [Workers -> WorkerStatus \cup {"ABSENT"}]
  BY DEF Cleanup, IsCurrentLink, TypeOK, WorkerStatus
<1>3. dispatch' \in [Dispatches -> Coroutine]
  BY OperatorTypes DEF Cleanup
<1>4. /\ conn' \in [Conns -> ConnStates]
      /\ peer' \in [Conns -> Workers \cup {None}]
      /\ process' \in [Conns -> ProcessStates]
      /\ link_worker' \in [Conns -> Workers \cup {None}]
      /\ link_generation' \in [Conns -> Nat]
  BY DEF Cleanup, Forget, TypeOK, ConnStates, ProcessStates
<1>5. PeerKnown'
  BY DEF Cleanup, Forget, TypeOK, PeerKnown
<1>6. QED
  BY <1>1, <1>2, <1>3, <1>4, <1>5 DEF TypeOK, SchedulerTypeOK, task_vars

(* A step of a connection handler keeps the types. *)
LEMMA HandlerTypes ==
  ASSUME TypeOK, PeerKnown, NEW c \in Conns, Handler(c)
  PROVE  TypeOK' /\ PeerKnown'
<1> USE SchedulerAssumption, AsyncMasterAssumption
<1>1. CASE RegisterRejected(c)
  BY <1>1, SMT DEF RegisterRejected, TypeOK, SchedulerTypeOK, PeerKnown, task_vars,
              worker_vars, ProcessStates
<1>2. CASE RegisterAccepted(c)
  <2> DEFINE w == peer[c]
  <2>1. w \in Workers
    BY <1>2 DEF RegisterAccepted, PeerKnown
  <2>2. /\ worker_order' \in Seq(Workers)
        /\ worker_status' \in [Workers -> WorkerStatus \cup {"ABSENT"}]
        /\ generation' \in [Workers -> Nat]
        /\ stale' \in [Workers -> BOOLEAN]
    BY <1>2, <2>1, RegisterTypes DEF RegisterAccepted
  <2>3. conn' \in [Conns -> ConnStates]
    <3>1. connections[w] \in Conns \cup {None}
      BY <2>1 DEF TypeOK
    <3>2. QED
      BY <1>2, <3>1, OperatorTypes, SMT DEF RegisterAccepted
  <2>4. connections' \in [Workers -> Conns \cup {None}]
    BY <1>2, <2>1 DEF RegisterAccepted, Installed, TypeOK
  <2>5. /\ process' \in [Conns -> ProcessStates]
        /\ link_worker' \in [Conns -> Workers \cup {None}]
        /\ link_generation' \in [Conns -> Nat]
    BY <1>2, <2>1, <2>2 DEF RegisterAccepted, TypeOK, ProcessStates
  <2>6. PeerKnown'
    BY <1>2, <2>1 DEF RegisterAccepted, TypeOK, PeerKnown
  <2>7. QED
    BY <1>2, <2>2, <2>3, <2>4, <2>5, <2>6
       DEF RegisterAccepted, TypeOK, SchedulerTypeOK, task_vars
<1>3. CASE RegisterReplyLost(c)
  <2>1. peer[c] \in Workers
    BY <1>3 DEF RegisterReplyLost, PeerKnown
  <2>2. /\ worker_order' \in Seq(Workers)
        /\ worker_status' \in [Workers -> WorkerStatus \cup {"ABSENT"}]
        /\ generation' \in [Workers -> Nat]
        /\ stale' \in [Workers -> BOOLEAN]
    BY <1>3, <2>1, RegisterTypes DEF RegisterReplyLost
  <2>3. QED
    BY <1>3, <2>2, SMT DEF RegisterReplyLost, Forget, TypeOK, SchedulerTypeOK,
                      PeerKnown, task_vars, ConnStates, ProcessStates
<1>4. CASE Heartbeat(c)
  BY <1>4 DEF Heartbeat, record_heartbeat, TypeOK, SchedulerTypeOK, PeerKnown,
              task_vars, link_vars
<1>5. CASE ShutdownCloses(c)
  <2>1. peer[c] \in Workers
    BY <1>5 DEF ShutdownCloses, PeerKnown
  <2>2. QED
    BY <1>5, <2>1, OperatorTypes, CleanupTypes DEF ShutdownCloses
<1>6. CASE ShutdownWaits(c)
  <2>1. peer[c] \in Workers
    BY <1>6 DEF ShutdownWaits, PeerKnown
  <2>2. worker_status' \in [Workers -> WorkerStatus \cup {"ABSENT"}]
    BY <1>6, <2>1, OperatorTypes DEF ShutdownWaits
  <2>3. QED
    BY <1>6, <2>1, <2>2 DEF ShutdownWaits, TypeOK, SchedulerTypeOK, PeerKnown,
                            task_vars, ProcessStates
<1>7. ASSUME NEW d \in Dispatches, NEW r \in {"success", "error"},
             TaskResult(c, d, r)
      PROVE  TypeOK' /\ PeerKnown'
  <2>1. dispatch' \in [Dispatches -> Coroutine]
    BY <1>7, SMT DEF TaskResult, TypeOK, Coroutine
  <2>2. QED
    BY <1>7, <2>1 DEF TaskResult, TypeOK, SchedulerTypeOK, PeerKnown,
                      task_vars, worker_vars, link_vars
<1>8. CASE HandlerExit(c)
  BY <1>8, CleanupTypes DEF HandlerExit, TypeOK, SchedulerTypeOK
<1>9. QED
  BY <1>1, <1>2, <1>3, <1>4, <1>5, <1>6, <1>7, <1>8 DEF Handler

(* Failing workers and requeueing their tasks keeps the types. *)
LEMMA FailAndRequeueTypes ==
  ASSUME TypeOK, PeerKnown, NEW W \in SUBSET Workers, FailAndRequeue(W),
         UNCHANGED link_vars
  PROVE  SchedulerTypeOK' /\ PeerKnown'
<1> USE SchedulerAssumption
<1>1. status' \in [Tasks -> TaskStatus \cup {"ABSENT"}]
  BY DEF TypeOK, SchedulerTypeOK, FailAndRequeue, requeue_tasks_for_workers,
         Requeued, TaskStatus
<1>2. assigned_worker_id' \in [Tasks -> Workers \cup {None}]
  BY DEF TypeOK, SchedulerTypeOK, FailAndRequeue, requeue_tasks_for_workers
<1>3. worker_status' \in [Workers -> WorkerStatus \cup {"ABSENT"}]
  BY DEF TypeOK, SchedulerTypeOK, FailAndRequeue, update_status, WorkerStatus
<1>4. QED
  BY <1>1, <1>2, <1>3 DEF TypeOK, SchedulerTypeOK, FailAndRequeue, PeerKnown,
                          requeue_tasks_for_workers, link_vars

(* What record_if_terminal and record_task_response store. *)
LEMMA RecordTypes ==
  ASSUME TypeOK, NEW t \in Tasks, NEW a \in 1 .. MAX_TASK_ATTEMPTS,
         NEW kind \in {"success", "error", "unreachable"},
         record_if_terminal(t, kind, a)
  PROVE  task_responses' \in [Tasks -> Responses \cup {None}]
<1>1. [kind |-> kind, attempt |-> a] \in Responses
  BY DEF Responses
<1>2. QED
  BY <1>1 DEF record_if_terminal, record_task_response, TypeOK

(* Giving up on an unreachable worker keeps the types. *)
LEMMA UnreachableTypes ==
  ASSUME TypeOK, PeerKnown, NEW d \in Dispatches, NEW w \in Workers,
         NEW a \in 1 .. MAX_TASK_ATTEMPTS, WorkerUnreachable(d, w, a)
  PROVE  TypeOK' /\ PeerKnown'
<1>1. SchedulerTypeOK' /\ PeerKnown'
  BY FailAndRequeueTypes DEF WorkerUnreachable
<1>2. task_responses' \in [Tasks -> Responses \cup {None}]
  BY RecordTypes, DispatchType DEF WorkerUnreachable
<1>3. dispatch' \in [Dispatches -> Coroutine]
  BY OperatorTypes DEF WorkerUnreachable, TypeOK
<1>4. QED
  BY <1>1, <1>2, <1>3 DEF TypeOK, WorkerUnreachable, link_vars

(* The scheduler's part of a reply keeps the types. *)
LEMMA FinishesTypes ==
  ASSUME TypeOK, NEW d \in Dispatches, TaskFinishes(d)
  PROVE  SchedulerTypeOK' /\ dispatch[d].reply \in {"success", "error"}
<1>1. TaskOf(d) \in Tasks /\ assigned_worker_id[TaskOf(d)] \in Workers \cup {None}
  BY DispatchType DEF TypeOK, SchedulerTypeOK
<1>2. worker_status' \in [Workers -> WorkerStatus \cup {"ABSENT"}]
  BY <1>1, OperatorTypes DEF TaskFinishes, complete_task, fail_task
<1>3. status' \in [Tasks -> TaskStatus \cup {"ABSENT"}]
  BY <1>1 DEF TaskFinishes, complete_task, fail_task, TypeOK, SchedulerTypeOK,
              TaskStatus
<1>4. QED
  BY <1>2, <1>3 DEF TaskFinishes, complete_task, fail_task, TypeOK,
                    SchedulerTypeOK

(* A step of a dispatch coroutine keeps the types. *)
LEMMA DispatchTypes ==
  ASSUME IInv, NEW d \in Dispatches, Dispatch(d)
  PROVE  TypeOK' /\ PeerKnown'
<1> USE SchedulerAssumption, AsyncMasterAssumption
<1> DEFINE t == TaskOf(d)
           w == assigned_worker_id[t]
<1>1. TypeOK /\ PeerKnown /\ TaskInv /\ AwaitingInv /\ ClosingInv
  BY DEF IInv, Core
<1>2. t \in Tasks /\ attempt[t] \in 0 .. MAX_TASK_ATTEMPTS
  BY <1>1, DispatchType DEF TypeOK, SchedulerTypeOK
<1>3. status[t] \in InFlight => w \in Workers /\ attempt[t] \in 1 .. MAX_TASK_ATTEMPTS
  BY <1>1, <1>2, SMT DEF TaskInv
<1>4. dispatch[d].pc = "awaiting" =>
        /\ dispatch[d].worker \in Workers
        /\ dispatch[d].attempt \in 1 .. MAX_TASK_ATTEMPTS
  BY <1>1, SMT DEF TypeOK, Coroutine, AwaitingInv
<1>5. ASSUME dispatch' = [dispatch EXCEPT ![d] = Done],
             SchedulerTypeOK', UNCHANGED link_vars,
             task_responses' \in [Tasks -> Responses \cup {None}]
      PROVE  TypeOK' /\ PeerKnown'
  <2>1. dispatch' \in [Dispatches -> Coroutine]
    BY <1>1, <1>5, OperatorTypes DEF TypeOK
  <2>2. QED
    BY <1>1, <1>5, <2>1 DEF TypeOK, PeerKnown, link_vars
<1>6. CASE DispatchRaises(d) \/ DispatchStale(d)
  BY <1>1, <1>5, <1>6 DEF DispatchRaises, DispatchStale, TypeOK,
                          SchedulerTypeOK, task_vars, worker_vars
<1>7. CASE DispatchUnsendable(d)
  BY <1>1, <1>3, <1>7, UnreachableTypes DEF DispatchUnsendable, InFlight
<1>8. CASE DispatchSends(d)
  <2>1. w \in Workers /\ attempt[t] \in 0 .. MAX_TASK_ATTEMPTS /\ connections[w] \in Conns
    BY <1>1, <1>2, <1>3, <1>8 DEF DispatchSends, start_task, InFlight, TypeOK
  <2>2. dispatch' \in [Dispatches -> Coroutine]
    BY <1>1, <1>8, <2>1 DEF DispatchSends, TypeOK, Coroutine
  <2>3. SchedulerTypeOK'
    BY <1>1, <1>2, <1>8 DEF DispatchSends, start_task, TypeOK, SchedulerTypeOK,
                            TaskStatus, worker_vars
  <2>4. QED
    BY <1>1, <1>8, <2>2, <2>3 DEF DispatchSends, TypeOK, PeerKnown, link_vars
<1>9. CASE DispatchLost(d)
  BY <1>1, <1>4, <1>9, UnreachableTypes DEF DispatchLost, Resumes
<1>10. CASE DispatchFinishes(d)
  <2>1. TaskFinishes(d) /\ dispatch[d].pc = "awaiting"
    BY <1>10 DEF DispatchFinishes, TaskFinishes, Resumes
  <2>2. task_responses' \in [Tasks -> Responses \cup {None}]
    BY <1>1, <1>2, <1>4, <1>10, <2>1, FinishesTypes, RecordTypes
       DEF DispatchFinishes
  <2>3. QED
    BY <1>1, <1>5, <1>10, <2>1, <2>2, FinishesTypes DEF DispatchFinishes
<1>11. CASE DispatchClosesLink(d)
  <2>1. TaskFinishes(d) /\ dispatch[d].pc = "awaiting"
    BY <1>11 DEF DispatchClosesLink, TaskFinishes, Resumes
  <2>2. DrainingLink(dispatch[d].worker) \in Conns \cup {None}
    BY <1>1, <1>4, <2>1 DEF DrainingLink, TypeOK
  <2>3. conn' \in [Conns -> ConnStates]
    BY <1>1, <1>11, <2>2, OperatorTypes DEF DispatchClosesLink
  <2>4. dispatch' \in [Dispatches -> Coroutine]
    BY <1>1, <1>11, SMT DEF DispatchClosesLink, TypeOK, Coroutine
  <2>5. QED
    BY <1>1, <1>11, <2>1, <2>3, <2>4, FinishesTypes
       DEF DispatchClosesLink, TypeOK, PeerKnown
<1>12. CASE DispatchCloseRaises(d)
  BY <1>1, <1>5, <1>12, FinishesTypes DEF DispatchCloseRaises, TypeOK
<1>13. CASE DispatchRecords(d)
  <2>1. dispatch[d].attempt \in 1 .. MAX_TASK_ATTEMPTS
    BY <1>1, <1>2, <1>13, SMT DEF DispatchRecords, ClosingInv, TaskInv
  <2>2. dispatch[d].reply \in {"success", "error"}
    BY <1>1, <1>13 DEF DispatchRecords, ClosingInv
  <2>3. task_responses' \in [Tasks -> Responses \cup {None}]
    BY <1>1, <1>2, <1>13, <2>1, <2>2, RecordTypes DEF DispatchRecords
  <2>4. SchedulerTypeOK' /\ UNCHANGED link_vars
    BY <1>1, <1>13 DEF DispatchRecords, TypeOK, SchedulerTypeOK, task_vars,
                       worker_vars
  <2>5. QED
    BY <1>5, <1>13, <2>3, <2>4 DEF DispatchRecords
<1>14. QED
  BY <1>6, <1>7, <1>8, <1>9, <1>10, <1>11, <1>12, <1>13 DEF Dispatch

(* Every step keeps the types. *)
LEMMA TypeNext ==
  ASSUME IInv, Next
  PROVE  TypeOK' /\ PeerKnown'
<1> USE SchedulerAssumption, AsyncMasterAssumption
<1>1. TypeOK /\ PeerKnown /\ TaskInv
  BY DEF IInv, Core
<1>2. ASSUME NEW t \in Tasks, submit(t)
      PROVE  TypeOK' /\ PeerKnown'
  <2>1. task_order' \in Seq(Tasks)
    BY <1>1, <1>2, SMT DEF submit, submit_task, TypeOK, SchedulerTypeOK
  <2>2. status' \in [Tasks -> TaskStatus \cup {"ABSENT"}]
    BY <1>1, <1>2 DEF submit, submit_task, TypeOK, SchedulerTypeOK, TaskStatus
  <2>3. QED
    BY <1>1, <1>2, <2>1, <2>2 DEF submit, submit_task, TypeOK, SchedulerTypeOK,
                                  PeerKnown, worker_vars, link_vars
<1>3. ASSUME NEW t \in Tasks, NEW w \in Workers, DispatcherAssigns(t, w)
      PROVE  TypeOK' /\ PeerKnown'
  <2>1. assign_task(t, w) /\ status[t] = "PENDING"
    BY <1>3 DEF DispatcherAssigns, assign_next_pending_task, OldestPending
  <2>2. attempt[t] \in Nat /\ attempt[t] < MAX_TASK_ATTEMPTS
    BY <1>1, <2>1, SMT DEF TaskInv, TypeOK, SchedulerTypeOK
  <2>3. attempt' \in [Tasks -> 0 .. MAX_TASK_ATTEMPTS]
    BY <1>1, <2>1, <2>2, SMT DEF assign_task, TypeOK, SchedulerTypeOK
  <2>4. SchedulerTypeOK'
    BY <1>1, <2>1, <2>3 DEF assign_task, TypeOK, SchedulerTypeOK, TaskStatus,
                            WorkerStatus
  <2>5. dispatch' \in [Dispatches -> Coroutine]
    BY <1>1, <1>3, OperatorTypes DEF DispatcherAssigns, TypeOK
  <2>6. QED
    BY <1>1, <1>3, <2>4, <2>5 DEF DispatcherAssigns, TypeOK, PeerKnown, link_vars
<1>4. CASE failure_monitor
  <2>1. StaleWorkers \in SUBSET Workers
    BY DEF StaleWorkers
  <2>2. SchedulerTypeOK' /\ PeerKnown'
    BY <1>1, <1>4, <2>1, FailAndRequeueTypes DEF failure_monitor
  <2>3. QED
    BY <1>1, <1>4, <2>2 DEF failure_monitor, TypeOK, link_vars
<1>5. ASSUME NEW d \in Dispatches, Dispatch(d) PROVE TypeOK' /\ PeerKnown'
  BY <1>5, DispatchTypes
<1>6. ASSUME NEW c \in Conns, Handler(c) PROVE TypeOK' /\ PeerKnown'
  BY <1>1, <1>6, HandlerTypes
<1>7. ASSUME NEW c \in Conns, NEW w \in Workers,
             Connect(c, w) \/ Crash(c) \/ Silence(w)
      PROVE  TypeOK' /\ PeerKnown'
  BY <1>1, <1>7, EnvironmentTypes
<1>8. ASSUME NEW c \in Conns, Crash(c) PROVE TypeOK' /\ PeerKnown'
  BY <1>1, <1>8 DEF Crash, TypeOK, SchedulerTypeOK, PeerKnown, task_vars,
                    worker_vars, ConnStates
<1>9. ASSUME NEW w \in Workers, Silence(w) PROVE TypeOK' /\ PeerKnown'
  BY <1>1, <1>9 DEF Silence, HeartbeatExpires, TypeOK, SchedulerTypeOK,
                    PeerKnown, task_vars, link_vars
<1>10. QED
  BY <1>2, <1>3, <1>4, <1>5, <1>6, <1>7, <1>8, <1>9 DEF Next

-----------------------------------------------------------------------------
(* The core is preserved. *)

(* Links, the worker table and the replies of waiting coroutines may change *)
(* freely.                                                                  *)
LEMMA CoreReplies ==
  ASSUME Core,
         UNCHANGED <<status, assigned_worker_id, attempt, task_responses>>,
         \A d \in Dispatches :
           /\ dispatch'[d].pc = dispatch[d].pc
           /\ dispatch'[d].worker = dispatch[d].worker
           /\ dispatch'[d].attempt = dispatch[d].attempt
           /\ dispatch[d].pc = "closing" => dispatch'[d].reply = dispatch[d].reply
  PROVE  Core'
<1>1. TaskInv' /\ ResponseAgrees'
  BY DEF Core, TaskInv, ResponseAgrees
<1>2. AwaitingInv' /\ AwaitingUnique' /\ NameIsFresh'
  BY DEF Core, AwaitingInv, AwaitingUnique, NameIsFresh
<1>3. ClosingInv' /\ ClosingUnique'
  BY SMT DEF Core, ClosingInv, ClosingUnique
<1>4. CurrentIsRunning'
  BY DEF Core, CurrentIsRunning, is_current_attempt
<1>5. NoOrphan'
  BY SMT DEF Core, NoOrphan, is_current_attempt
<1>6. QED
  BY <1>1, <1>2, <1>3, <1>4, <1>5 DEF Core

(* A coroutine that no task depends on may end. *)
LEMMA CoreEnds ==
  ASSUME TypeOK, Core, NEW d \in Dispatches,
         UNCHANGED <<status, assigned_worker_id, attempt, task_responses>>,
         dispatch' = [dispatch EXCEPT ![d] = Done],
         dispatch[d].pc # "none",
         dispatch[d].pc = "spawned" => status[TaskOf(d)] # "ASSIGNED",
         dispatch[d].pc = "awaiting" => ~is_current_attempt(d)
  PROVE  Core'
<1>1. TaskInv' /\ ResponseAgrees'
  BY DEF Core, TaskInv, ResponseAgrees
<1>2. /\ dispatch'[d].pc = "done"
      /\ \A e \in Dispatches : e # d => dispatch'[e] = dispatch[e]
  BY DEF TypeOK, Done, Idle
<1>3. AwaitingInv' /\ AwaitingUnique' /\ NameIsFresh'
  BY <1>2, SMT DEF Core, AwaitingInv, AwaitingUnique, NameIsFresh
<1>4. ClosingInv' /\ ClosingUnique'
  BY <1>2, SMT DEF Core, ClosingInv, ClosingUnique
<1>5. CurrentIsRunning'
  BY <1>2, SMT DEF Core, CurrentIsRunning, is_current_attempt
<1>6. NoOrphan'
  BY <1>2, SMT DEF Core, NoOrphan, is_current_attempt
<1>7. QED
  BY <1>1, <1>3, <1>4, <1>5, <1>6 DEF Core

(* submit keeps the core. *)
LEMMA CoreSubmit ==
  ASSUME TypeOK, Core, NEW t \in Tasks, submit(t)
  PROVE  Core'
<1> USE SchedulerAssumption
<1>1. /\ status[t] = "ABSENT" /\ status'[t] = "PENDING"
      /\ \A u \in Tasks : u # t => status'[u] = status[u]
      /\ UNCHANGED <<assigned_worker_id, attempt, dispatch, task_responses>>
  BY DEF submit, submit_task, TypeOK, SchedulerTypeOK
<1>2. attempt[t] = 0 /\ assigned_worker_id[t] = None
  BY <1>1 DEF Core, TaskInv
<1>3. TaskInv' /\ ResponseAgrees'
  BY <1>1, <1>2, SMT DEF Core, TaskInv, ResponseAgrees, InFlight, Terminal
<1>4. AwaitingInv' /\ AwaitingUnique' /\ NameIsFresh'
  BY <1>1, DispatchType DEF Core, AwaitingInv, AwaitingUnique, NameIsFresh
<1>5. ClosingInv' /\ ClosingUnique'
  BY <1>1, DispatchType DEF Core, ClosingInv, ClosingUnique, Terminal
<1>6. CurrentIsRunning'
  BY <1>1, DispatchType DEF Core, CurrentIsRunning, is_current_attempt
<1>7. NoOrphan'
  BY <1>1, SMT DEF Core, NoOrphan, is_current_attempt
<1>8. QED
  BY <1>3, <1>4, <1>5, <1>6, <1>7 DEF Core

(* An assignment of the dispatcher keeps the core: every waiting coroutine  *)
(* of the task belongs to an earlier attempt.                               *)
LEMMA CoreAssigns ==
  ASSUME TypeOK, Core, NEW t \in Tasks, NEW w \in Workers,
         DispatcherAssigns(t, w)
  PROVE  Core'
<1> USE SchedulerAssumption
<1> DEFINE n == <<t, attempt[t] + 1>>
<1>1. status[t] = "PENDING" /\ attempt[t] \in Nat /\ attempt[t] < MAX_TASK_ATTEMPTS
  BY SMT DEF DispatcherAssigns, assign_next_pending_task, OldestPending, Core,
         TaskInv, TypeOK, SchedulerTypeOK
<1>2. /\ status'[t] = "ASSIGNED" /\ assigned_worker_id'[t] = w
      /\ attempt'[t] = attempt[t] + 1
      /\ \A u \in Tasks : u # t => /\ status'[u] = status[u]
                                   /\ attempt'[u] = attempt[u]
                                   /\ assigned_worker_id'[u] = assigned_worker_id[u]
      /\ task_responses' = task_responses
  BY DEF DispatcherAssigns, assign_next_pending_task, assign_task, TypeOK,
         SchedulerTypeOK
<1>3. n \in Dispatches /\ TaskOf(n) = t /\ n[2] = attempt[t] + 1
  BY <1>1, DispatchType, SMT
<1>4. /\ dispatch'[n].pc = "spawned"
      /\ \A e \in Dispatches : e # n => dispatch'[e] = dispatch[e]
  BY <1>2, <1>3 DEF DispatcherAssigns, TypeOK, Idle
<1>5. \A u \in Tasks : attempt[u] \in Nat
  BY SMT DEF TypeOK, SchedulerTypeOK
<1>6. \A e \in Dispatches : dispatch[e].attempt \in Nat
  BY SMT DEF TypeOK, Coroutine
<1>7. TaskInv' /\ ResponseAgrees'
  BY <1>1, <1>2, <1>5, SMT DEF Core, TaskInv, ResponseAgrees, InFlight, Terminal
<1>8. AwaitingInv' /\ AwaitingUnique'
  BY <1>2, <1>3, <1>4, <1>5, <1>6, DispatchType
    , SMT DEF Core, AwaitingInv, AwaitingUnique
<1>9. NameIsFresh'
  BY <1>2, <1>3, <1>4, <1>5, DispatchType, SMT DEF Core, NameIsFresh
<1>10. ClosingInv' /\ ClosingUnique'
  BY <1>1, <1>2, <1>3, <1>4, DispatchType, SMT DEF Core, ClosingInv, ClosingUnique,
                                              Terminal
<1>11. CurrentIsRunning'
  <2> SUFFICES ASSUME NEW e \in Dispatches, dispatch'[e].pc = "awaiting",
                      is_current_attempt(e)'
               PROVE  status'[TaskOf(e)] = "RUNNING"
    BY DEF CurrentIsRunning
  <2>1. e # n /\ dispatch'[e] = dispatch[e] /\ TaskOf(e) \in Tasks
    BY <1>4, DispatchType
  <2>2. CASE TaskOf(e) = t
    BY <1>2, <1>5, <1>6, <2>1, <2>2, SMT DEF Core, AwaitingInv, is_current_attempt
  <2>3. CASE TaskOf(e) # t
    BY <1>2, <2>1, <2>3 DEF Core, CurrentIsRunning, is_current_attempt
  <2>4. QED
    BY <2>2, <2>3
<1>12. NoOrphan'
  <2> SUFFICES ASSUME NEW u \in Tasks
               PROVE  /\ status'[u] = "ASSIGNED" =>
                           \E e \in Dispatches :
                             TaskOf(e) = u /\ dispatch'[e].pc = "spawned"
                      /\ status'[u] = "RUNNING" =>
                           \E e \in Dispatches :
                             /\ TaskOf(e) = u
                             /\ dispatch'[e].pc = "awaiting"
                             /\ is_current_attempt(e)'
    BY DEF NoOrphan
  <2>1. CASE u = t
    BY <1>2, <1>3, <1>4, <2>1
  <2>2. CASE u # t
    BY <1>2, <1>3, <1>4, <2>2, SMT DEF Core, NoOrphan, is_current_attempt
  <2>3. QED
    BY <2>1, <2>2
<1>13. QED
  BY <1>7, <1>8, <1>9, <1>10, <1>11, <1>12 DEF Core

(* Sending the TASK keeps the core. *)
LEMMA CoreSends ==
  ASSUME TypeOK, Core, NEW d \in Dispatches, DispatchSends(d)
  PROVE  Core'
<1> USE SchedulerAssumption
<1> DEFINE t == TaskOf(d)
           w == assigned_worker_id[t]
<1>1. t \in Tasks
  BY DispatchType
<1>2. /\ dispatch[d].pc = "spawned" /\ status[t] = "ASSIGNED"
      /\ status'[t] = "RUNNING"
      /\ \A u \in Tasks : u # t => status'[u] = status[u]
      /\ UNCHANGED <<assigned_worker_id, attempt, task_responses>>
  BY <1>1 DEF DispatchSends, start_task, TypeOK, SchedulerTypeOK
<1>3. w \in Workers /\ attempt[t] >= 1
  BY <1>1, <1>2 DEF Core, TaskInv, InFlight
<1>4. /\ dispatch'[d].pc = "awaiting"
      /\ dispatch'[d].worker = w
      /\ dispatch'[d].attempt = attempt[t]
      /\ \A e \in Dispatches : e # d => dispatch'[e] = dispatch[e]
  BY DEF DispatchSends, TypeOK
<1>5. \A u \in Tasks : attempt[u] \in Nat
  BY SMT DEF TypeOK, SchedulerTypeOK
<1>6. \A e \in Dispatches : dispatch[e].attempt \in Nat
  BY SMT DEF TypeOK, Coroutine
<1>7. TaskInv' /\ ResponseAgrees'
  BY <1>1, <1>2, SMT DEF Core, TaskInv, ResponseAgrees, InFlight, Terminal
<1>8. AwaitingInv'
  BY <1>1, <1>2, <1>3, <1>4, <1>5, DispatchType, SMT DEF Core, AwaitingInv
<1>9. AwaitingUnique'
  BY <1>1, <1>2, <1>4, <1>5, <1>6, SMT DEF Core, AwaitingInv, AwaitingUnique
<1>10. NameIsFresh'
  BY <1>2, <1>4 DEF Core, NameIsFresh
<1>11. ClosingInv' /\ ClosingUnique'
  BY <1>1, <1>2, <1>4, DispatchType, SMT DEF Core, ClosingInv, ClosingUnique, Terminal
<1>12. CurrentIsRunning'
  BY <1>1, <1>2, <1>4, DispatchType, SMT DEF Core, CurrentIsRunning,
                                        is_current_attempt
<1>13. NoOrphan'
  BY <1>1, <1>2, <1>4, SMT DEF Core, NoOrphan, is_current_attempt
<1>14. QED
  BY <1>7, <1>8, <1>9, <1>10, <1>11, <1>12, <1>13 DEF Core

(* Failing workers and requeueing their tasks keeps the core, whether the   *)
(* failure monitor does it or the coroutine d of one of those tasks, which  *)
(* then ends and answers the task if it has no attempt left.                *)
LEMMA CoreRequeues ==
  ASSUME TypeOK, Core, NEW W \in SUBSET Workers, FailAndRequeue(W),
         NEW D \in SUBSET Dispatches,
         \A d \in D : InFlightOn(TaskOf(d), W) /\ dispatch'[d] = Done
                      /\ dispatch[d].pc # "none",
         \A e \in Dispatches \ D : dispatch'[e] = dispatch[e],
         \A t \in Tasks :
           \/ task_responses'[t] = task_responses[t]
           \/ /\ InFlightOn(t, W) /\ status'[t] \in Terminal
              /\ task_responses'[t].kind = "unreachable"
              /\ task_responses'[t].attempt = attempt[t]
  PROVE  Core'
<1> USE SchedulerAssumption
<1>1. \A t \in Tasks :
        /\ InFlightOn(t, W) =>
             /\ status'[t] = IF attempt[t] >= MAX_TASK_ATTEMPTS
                             THEN "FAILED" ELSE "PENDING"
             /\ assigned_worker_id'[t] = None
        /\ ~InFlightOn(t, W) =>
             /\ status'[t] = status[t]
             /\ assigned_worker_id'[t] = assigned_worker_id[t]
  BY DEF FailAndRequeue, requeue_tasks_for_workers, Requeued
<1>2. attempt' = attempt /\ \A t \in Tasks : attempt[t] \in 0 .. MAX_TASK_ATTEMPTS
  BY DEF FailAndRequeue, requeue_tasks_for_workers, TypeOK, SchedulerTypeOK
<1>3. Done.pc = "done"
  BY DEF Done, Idle
<1>4. \A t \in Tasks : InFlightOn(t, W) => status[t] \in InFlight
  BY DEF InFlightOn
<1>5. TaskInv'
  BY <1>1, <1>2, <1>4, SMT DEF Core, TaskInv, InFlight, Terminal
<1>6. ResponseAgrees'
  BY <1>1, <1>2, <1>4, SMT DEF Core, ResponseAgrees, InFlight, Terminal
<1>7. AwaitingInv'
  BY <1>1, <1>2, <1>3, DispatchType, SMT DEF Core, AwaitingInv
<1>8. AwaitingUnique' /\ NameIsFresh'
  BY <1>2, <1>3, SMT DEF Core, AwaitingUnique, NameIsFresh
<1>9. ClosingUnique'
  BY <1>3, SMT DEF Core, ClosingUnique
<1>10. ClosingInv'
  <2> SUFFICES ASSUME NEW e \in Dispatches, dispatch'[e].pc = "closing"
               PROVE  /\ status'[TaskOf(e)] \in Terminal
                      /\ task_responses'[TaskOf(e)] = None
                      /\ dispatch'[e].attempt = attempt'[TaskOf(e)]
                      /\ dispatch'[e].reply \in {"success", "error"}
                      /\ dispatch'[e].reply = "success"
                           <=> status'[TaskOf(e)] = "COMPLETED"
    BY DEF ClosingInv
  <2>1. dispatch'[e] = dispatch[e] /\ TaskOf(e) \in Tasks
    BY <1>3, DispatchType
  <2>2. status[TaskOf(e)] \in Terminal
    BY <2>1 DEF Core, ClosingInv
  <2>3. ~InFlightOn(TaskOf(e), W)
    BY <2>2 DEF InFlightOn, InFlight, Terminal
  <2>4. QED
    BY <1>1, <1>2, <2>1, <2>3, SMT DEF Core, ClosingInv
<1>11. CurrentIsRunning'
  <2> SUFFICES ASSUME NEW e \in Dispatches, dispatch'[e].pc = "awaiting",
                      is_current_attempt(e)'
               PROVE  status'[TaskOf(e)] = "RUNNING"
    BY DEF CurrentIsRunning
  <2>1. dispatch'[e] = dispatch[e] /\ TaskOf(e) \in Tasks
    BY <1>3, DispatchType
  <2>2. dispatch[e].worker \in Workers
    BY <2>1 DEF Core, AwaitingInv
  <2>3. ~InFlightOn(TaskOf(e), W)
    BY <1>1, <2>1, <2>2, SMT DEF is_current_attempt
  <2>4. QED
    BY <1>1, <1>2, <2>1, <2>3, SMT DEF Core, CurrentIsRunning, is_current_attempt
<1>12. NoOrphan'
  <2> SUFFICES ASSUME NEW u \in Tasks, status'[u] \in InFlight
               PROVE  /\ status'[u] = "ASSIGNED" =>
                           \E e \in Dispatches :
                             TaskOf(e) = u /\ dispatch'[e].pc = "spawned"
                      /\ status'[u] = "RUNNING" =>
                           \E e \in Dispatches :
                             /\ TaskOf(e) = u
                             /\ dispatch'[e].pc = "awaiting"
                             /\ is_current_attempt(e)'
    BY DEF NoOrphan, InFlight
  <2>1. ~InFlightOn(u, W)
    BY <1>1 DEF InFlight
  <2>2. \A e \in Dispatches : TaskOf(e) = u => dispatch'[e] = dispatch[e]
    BY <2>1
  <2>3. QED
    BY <1>1, <1>2, <2>1, <2>2, SMT DEF Core, NoOrphan, is_current_attempt
<1>13. QED
  BY <1>5, <1>6, <1>7, <1>8, <1>9, <1>10, <1>11, <1>12 DEF Core

(* An unreachable worker, given up on by a coroutine of its task. *)
LEMMA CoreUnreachable ==
  ASSUME TypeOK, Core, NEW d \in Dispatches, NEW w \in Workers,
         WorkerUnreachable(d, w, attempt[TaskOf(d)]),
         InFlightOn(TaskOf(d), {w}), dispatch[d].pc # "none"
  PROVE  Core'
<1> DEFINE W == {w}
           D == {d}
<1>1. /\ \A e \in D : InFlightOn(TaskOf(e), W) /\ dispatch'[e] = Done
                      /\ dispatch[e].pc # "none"
      /\ \A e \in Dispatches \ D : dispatch'[e] = dispatch[e]
  BY DEF WorkerUnreachable, TypeOK
<1>2. TaskOf(d) \in Tasks
  BY DispatchType
<1>3. \A t \in Tasks :
        \/ task_responses'[t] = task_responses[t]
        \/ /\ InFlightOn(t, W) /\ status'[t] \in Terminal
           /\ task_responses'[t].kind = "unreachable"
           /\ task_responses'[t].attempt = attempt[t]
  BY <1>2, SMT DEF WorkerUnreachable, record_if_terminal, record_task_response, TypeOK
<1>4. FailAndRequeue(W) /\ W \in SUBSET Workers /\ D \in SUBSET Dispatches
  BY DEF WorkerUnreachable
<1> HIDE DEF W, D
<1>5. QED
  BY <1>1, <1>3, <1>4, CoreRequeues

(* The end of a RUNNING task keeps the core: the coroutine d that ends it,  *)
(* the only one whose attempt is current, answers it now, or is about to,   *)
(* or fails to.                                                             *)
LEMMA CoreFinishes ==
  ASSUME TypeOK, Core, NEW d \in Dispatches, TaskFinishes(d),
         \/ /\ dispatch' = [dispatch EXCEPT ![d] = Done]
            /\ \/ UNCHANGED task_responses
               \/ record_if_terminal(TaskOf(d), dispatch[d].reply,
                                     dispatch[d].attempt)
         \/ /\ dispatch' = [dispatch EXCEPT ![d].pc = "closing"]
            /\ UNCHANGED task_responses
  PROVE  Core'
<1> USE SchedulerAssumption
<1> DEFINE t == TaskOf(d)
<1>1. t \in Tasks /\ dispatch[d].pc = "awaiting" /\ is_current_attempt(d)
  BY DispatchType DEF TaskFinishes, Resumes
<1>2. status[t] = "RUNNING"
  BY <1>1 DEF Core, CurrentIsRunning
<1>3. /\ status'[t] = IF dispatch[d].reply = "success" THEN "COMPLETED" ELSE "FAILED"
      /\ \A u \in Tasks : u # t => status'[u] = status[u]
      /\ UNCHANGED <<assigned_worker_id, attempt>>
      /\ dispatch[d].reply \in {"success", "error"}
  BY <1>1 DEF TaskFinishes, complete_task, fail_task, TypeOK, SchedulerTypeOK
<1>4. dispatch[d].attempt = attempt[t] /\ assigned_worker_id[t] = dispatch[d].worker
  BY <1>1 DEF is_current_attempt
<1>5. /\ dispatch'[d].pc \in {"done", "closing"}
      /\ dispatch'[d].pc = "closing" =>
           /\ dispatch'[d].reply = dispatch[d].reply
           /\ dispatch'[d].attempt = dispatch[d].attempt
           /\ UNCHANGED task_responses
      /\ \A e \in Dispatches : e # d => dispatch'[e] = dispatch[e]
  BY SMT DEF TypeOK, Done, Idle, Coroutine
<1>6. task_responses[t] = None
  BY <1>1, <1>2 DEF Core, ResponseAgrees, Terminal
<1>7. \A u \in Tasks :
        \/ task_responses'[u] = task_responses[u]
        \/ /\ u = t
           /\ task_responses'[u].kind = dispatch[d].reply
           /\ task_responses'[u].attempt = attempt[u]
  BY <1>1, <1>4, SMT DEF record_if_terminal, record_task_response, TypeOK
<1>8. TaskInv'
  BY <1>1, <1>2, <1>3, <1>4, SMT DEF Core, TaskInv, AwaitingInv, InFlight, Terminal
<1>9. ResponseAgrees'
  BY <1>2, <1>3, <1>6, <1>7, SMT DEF Core, ResponseAgrees, Terminal
<1>10. AwaitingInv' /\ AwaitingUnique' /\ NameIsFresh'
  BY <1>1, <1>3, <1>5, DispatchType
    , SMT DEF Core, AwaitingInv, AwaitingUnique, NameIsFresh
<1>11. \A e \in Dispatches : dispatch[e].pc = "closing" => TaskOf(e) # t
  BY <1>2 DEF Core, ClosingInv, Terminal
<1>12. ClosingUnique'
  BY <1>5, <1>11 DEF Core, ClosingUnique
<1>13. ClosingInv'
  BY <1>1, <1>3, <1>4, <1>5, <1>6, <1>7, <1>11, DispatchType
    , SMT DEF Core, ClosingInv, Terminal
<1>14. CurrentIsRunning'
  <2> SUFFICES ASSUME NEW e \in Dispatches, dispatch'[e].pc = "awaiting",
                      is_current_attempt(e)'
               PROVE  status'[TaskOf(e)] = "RUNNING"
    BY DEF CurrentIsRunning
  <2>1. e # d /\ dispatch'[e] = dispatch[e] /\ TaskOf(e) \in Tasks
    BY <1>5, DispatchType
  <2>2. is_current_attempt(e) /\ status[TaskOf(e)] = "RUNNING"
    BY <1>3, <2>1 DEF Core, CurrentIsRunning, is_current_attempt
  <2>3. TaskOf(e) # t
    BY <1>1, <1>4, <2>1, <2>2, SMT DEF Core, AwaitingUnique, is_current_attempt
  <2>4. QED
    BY <1>3, <2>1, <2>2, <2>3
<1>15. NoOrphan'
  BY <1>1, <1>2, <1>3, <1>5, SMT DEF Core, NoOrphan, is_current_attempt
<1>16. QED
  BY <1>8, <1>9, <1>10, <1>12, <1>13, <1>14, <1>15 DEF Core

(* The belated record of a finished task keeps the core. *)
LEMMA CoreRecords ==
  ASSUME TypeOK, Core, NEW d \in Dispatches, DispatchRecords(d)
  PROVE  Core'
<1> DEFINE t == TaskOf(d)
<1>1. t \in Tasks /\ dispatch[d].pc = "closing"
  BY DispatchType DEF DispatchRecords
<1>2. UNCHANGED <<status, assigned_worker_id, attempt>>
  BY DEF DispatchRecords, task_vars
<1>3. /\ status[t] \in Terminal
      /\ dispatch[d].attempt = attempt[t]
      /\ dispatch[d].reply = "success" <=> status[t] = "COMPLETED"
  BY <1>1 DEF Core, ClosingInv
<1>4. /\ dispatch'[d].pc = "done"
      /\ \A e \in Dispatches : e # d => dispatch'[e] = dispatch[e]
  BY DEF DispatchRecords, TypeOK, Done, Idle
<1>5. /\ task_responses'[t].kind = dispatch[d].reply
      /\ task_responses'[t].attempt = dispatch[d].attempt
      /\ \A u \in Tasks : u # t => task_responses'[u] = task_responses[u]
  BY <1>1, <1>2, <1>3, SMT DEF DispatchRecords, record_if_terminal,
                          record_task_response, TypeOK
<1>6. TaskInv' /\ ResponseAgrees'
  BY <1>2, <1>3, <1>5, SMT DEF Core, TaskInv, ResponseAgrees
<1>7. AwaitingInv' /\ AwaitingUnique' /\ NameIsFresh'
  BY <1>1, <1>2, <1>4, SMT DEF Core, AwaitingInv, AwaitingUnique, NameIsFresh
<1>8. ClosingUnique'
  BY <1>4 DEF Core, ClosingUnique
<1>9. ClosingInv'
  BY <1>1, <1>2, <1>4, <1>5, DispatchType, SMT DEF Core, ClosingInv, ClosingUnique
<1>10. CurrentIsRunning'
  BY <1>2, <1>4 DEF Core, CurrentIsRunning, is_current_attempt
<1>11. NoOrphan'
  BY <1>1, <1>2, <1>4, SMT DEF Core, NoOrphan, is_current_attempt
<1>12. QED
  BY <1>6, <1>7, <1>8, <1>9, <1>10, <1>11 DEF Core

(* A step of a handler, of the network or of a worker process changes       *)
(* nothing of the core but the replies of waiting coroutines.               *)
LEMMA CoreHandler ==
  ASSUME TypeOK, Core, NEW c \in Conns, Handler(c)
  PROVE  Core'
<1>1. CASE \/ RegisterRejected(c) \/ RegisterAccepted(c) \/ RegisterReplyLost(c)
           \/ Heartbeat(c) \/ ShutdownWaits(c)
  <2>1. UNCHANGED <<status, assigned_worker_id, attempt, task_responses, dispatch>>
    BY <1>1 DEF RegisterRejected, RegisterAccepted, RegisterReplyLost,
                Heartbeat, ShutdownWaits, task_vars
  <2>2. QED
    BY <2>1, CoreReplies
<1>2. CASE ShutdownCloses(c) \/ HandlerExit(c)
  <2>1. UNCHANGED <<status, assigned_worker_id, attempt, task_responses>>
    BY <1>2 DEF ShutdownCloses, HandlerExit, task_vars
  <2>2. dispatch' = fail_pending(c)
    BY <1>2 DEF ShutdownCloses, HandlerExit, Cleanup
  <2>3. \A d \in Dispatches :
          /\ dispatch'[d].pc = dispatch[d].pc
          /\ dispatch'[d].worker = dispatch[d].worker
          /\ dispatch'[d].attempt = dispatch[d].attempt
          /\ dispatch[d].pc = "closing" => dispatch'[d].reply = dispatch[d].reply
    BY <2>2 DEF fail_pending, Pending, TypeOK, Coroutine
  <2>4. QED
    BY <2>1, <2>3, CoreReplies
<1>3. ASSUME NEW e \in Dispatches, NEW r \in {"success", "error"},
             TaskResult(c, e, r)
      PROVE  Core'
  <2>1. UNCHANGED <<status, assigned_worker_id, attempt, task_responses>>
    BY <1>3 DEF TaskResult, task_vars
  <2>2. \A d \in Dispatches :
          /\ dispatch'[d].pc = dispatch[d].pc
          /\ dispatch'[d].worker = dispatch[d].worker
          /\ dispatch'[d].attempt = dispatch[d].attempt
          /\ dispatch[d].pc = "closing" => dispatch'[d].reply = dispatch[d].reply
    BY <1>3 DEF TaskResult, Pending, TypeOK, Coroutine
  <2>3. QED
    BY <2>1, <2>2, CoreReplies
<1>4. QED
  BY <1>1, <1>2, <1>3 DEF Handler

(* A step of a dispatch coroutine keeps the core. *)
LEMMA CoreDispatch ==
  ASSUME TypeOK, Core, NEW d \in Dispatches, Dispatch(d)
  PROVE  Core'
<1> USE SchedulerAssumption
<1>1. TaskOf(d) \in Tasks
  BY DispatchType
<1>2. CASE DispatchRaises(d) \/ DispatchStale(d)
  <2>1. UNCHANGED <<status, assigned_worker_id, attempt, task_responses>>
    BY <1>2 DEF DispatchRaises, DispatchStale, task_vars
  <2>2. QED
    BY <1>2, <2>1, CoreEnds DEF DispatchRaises, DispatchStale, Resumes
<1>3. CASE DispatchUnsendable(d)
  <2>1. assigned_worker_id[TaskOf(d)] \in Workers
    BY <1>1, <1>3 DEF DispatchUnsendable, Core, TaskInv, InFlight
  <2>2. InFlightOn(TaskOf(d), {assigned_worker_id[TaskOf(d)]})
    BY <1>3 DEF DispatchUnsendable, InFlightOn, InFlight
  <2>3. QED
    BY <1>3, <2>1, <2>2, CoreUnreachable DEF DispatchUnsendable
<1>4. CASE DispatchSends(d)
  BY <1>4, CoreSends
<1>5. CASE DispatchLost(d)
  <2>1. /\ dispatch[d].pc = "awaiting" /\ is_current_attempt(d)
        /\ dispatch[d].attempt = attempt[TaskOf(d)]
        /\ assigned_worker_id[TaskOf(d)] = dispatch[d].worker
    BY <1>5 DEF DispatchLost, Resumes, is_current_attempt
  <2>2. InFlightOn(TaskOf(d), {dispatch[d].worker}) /\ dispatch[d].worker \in Workers
    BY <2>1 DEF Core, CurrentIsRunning, AwaitingInv, InFlightOn, InFlight
  <2>3. QED
    BY <1>5, <2>1, <2>2, CoreUnreachable DEF DispatchLost
<1>6. CASE \/ DispatchFinishes(d) \/ DispatchClosesLink(d)
           \/ DispatchCloseRaises(d)
  BY <1>6, CoreFinishes DEF DispatchFinishes, DispatchClosesLink,
                            DispatchCloseRaises
<1>7. CASE DispatchRecords(d)
  BY <1>7, CoreRecords
<1>8. QED
  BY <1>2, <1>3, <1>4, <1>5, <1>6, <1>7 DEF Dispatch

(* Every step keeps the core. *)
LEMMA CoreNext ==
  ASSUME TypeOK, Core, Next
  PROVE  Core'
<1>1. ASSUME NEW t \in Tasks, submit(t) PROVE Core'
  BY <1>1, CoreSubmit
<1>2. ASSUME NEW t \in Tasks, NEW w \in Workers, DispatcherAssigns(t, w) PROVE Core'
  BY <1>2, CoreAssigns
<1>3. ASSUME NEW d \in Dispatches, Dispatch(d) PROVE Core'
  BY <1>3, CoreDispatch
<1>4. ASSUME NEW c \in Conns, Handler(c) PROVE Core'
  BY <1>4, CoreHandler
<1>5. CASE \/ \E c \in Conns, w \in Workers : Connect(c, w)
           \/ \E c \in Conns : Crash(c)
           \/ \E w \in Workers : Silence(w)
  <2>1. UNCHANGED <<status, assigned_worker_id, attempt, task_responses, dispatch>>
    BY <1>5 DEF Connect, Crash, Silence, task_vars
  <2>2. QED
    BY <2>1, CoreReplies
<1>6. CASE failure_monitor
  <2> DEFINE D == {}
  <2>1. StaleWorkers \in SUBSET Workers /\ D \in SUBSET Dispatches
    BY DEF StaleWorkers
  <2>2. /\ FailAndRequeue(StaleWorkers)
        /\ \A e \in Dispatches \ D : dispatch'[e] = dispatch[e]
        /\ \A t \in Tasks : task_responses'[t] = task_responses[t]
    BY <1>6 DEF failure_monitor
  <2>3. \A e \in D : InFlightOn(TaskOf(e), StaleWorkers) /\ dispatch'[e] = Done
                     /\ dispatch[e].pc # "none"
    OBVIOUS
  <2> HIDE DEF D
  <2>4. QED
    BY <2>1, <2>2, <2>3, CoreRequeues
<1>7. QED
  BY <1>1, <1>2, <1>3, <1>4, <1>5, <1>6 DEF Next

(* The inductive invariant is inductive. *)
LEMMA NextIInv == IInv /\ [Next]_vars => IInv'
<1> SUFFICES ASSUME IInv, [Next]_vars PROVE IInv'
  OBVIOUS
<1>1. CASE Next
  BY <1>1, TypeNext, CoreNext DEF IInv
<1>2. CASE UNCHANGED vars
  <2>1. TypeOK' /\ PeerKnown'
    BY <1>2 DEF IInv, TypeOK, SchedulerTypeOK, PeerKnown, vars, task_vars,
                worker_vars, link_vars
  <2>2. Core'
    BY <1>2, CoreReplies DEF IInv, vars, task_vars
  <2>3. QED
    BY <2>1, <2>2 DEF IInv
<1>3. QED
  BY <1>1, <1>2

-----------------------------------------------------------------------------
(* Theorems. *)

(* The inductive invariant holds in every reachable state. *)
THEOREM Invariant == Spec => []IInv
BY InitIInv, NextIInv, PTL DEF Spec

(* Every variable keeps its type; in particular no task is ever handed out  *)
(* more than MAX_TASK_ATTEMPTS times (Task.attempt).                        *)
THEOREM TypeCorrect == Spec => []TypeOK
<1>1. IInv => TypeOK
  BY DEF IInv
<1>2. QED
  BY <1>1, Invariant, PTL

(* The retry budget of Scheduler.requeue_tasks_for_worker is respected      *)
(* whatever crashes, reconnects, timeouts and shutdowns do.                 *)
THEOREM RetryBudgetHolds == Spec => []RetryBudget
<1>1. IInv => RetryBudget
  <2> SUFFICES ASSUME IInv PROVE RetryBudget
    OBVIOUS
  <2>1. \A t \in Tasks : attempt[t] <= MAX_TASK_ATTEMPTS
    BY SchedulerAssumption, SMT DEF IInv, TypeOK, SchedulerTypeOK
  <2>2. QED
    BY <2>1 DEF IInv, Core, TaskInv, RetryBudget
<1>2. QED
  BY <1>1, Invariant, PTL

(* No task in flight is ever without the coroutine that will end it         *)
(* (dispatch_assigned_task).                                                *)
THEOREM NoOrphanHolds == Spec => []NoOrphan
<1>1. IInv => NoOrphan
  BY DEF IInv, Core
<1>2. QED
  BY <1>1, Invariant, PTL

(* The recheck of dispatch_assigned_task (is_current_attempt) is enough: a  *)
(* coroutine that passes it finds its task RUNNING.                         *)
THEOREM CurrentIsRunningHolds == Spec => []CurrentIsRunning
<1>1. IInv => CurrentIsRunning
  BY DEF IInv, Core
<1>2. QED
  BY <1>1, Invariant, PTL

(* The response registry never disagrees with the task table               *)
(* (record_if_terminal).                                                    *)
THEOREM ResponseAgreesHolds == Spec => []ResponseAgrees
<1>1. IInv => ResponseAgrees
  BY DEF IInv, Core
<1>2. QED
  BY <1>1, Invariant, PTL

-----------------------------------------------------------------------------
(* The life cycle of every task. *)

(* A step that leaves the tasks and the responses alone. *)
LEMMA RefineStutter ==
  ASSUME UNCHANGED <<status, attempt, task_responses>>
  PROVE  \A t \in Tasks : Lifecycle!Stutter(t)
BY DEF Lifecycle!Stutter, Lifecycle!KeepAttempt, Lifecycle!KeepResponse

(* An assignment of the dispatcher. *)
LEMMA RefineAssigns ==
  ASSUME IInv, NEW t \in Tasks, NEW w \in Workers, DispatcherAssigns(t, w)
  PROVE  Lifecycle!Next
<1> USE DEF Lifecycle!KeepAttempt, Lifecycle!KeepResponse
<1>1. status[t] = "PENDING" /\ assign_task(t, w)
  BY DEF DispatcherAssigns, assign_next_pending_task, OldestPending
<1>2. attempt[t] < MAX_TASK_ATTEMPTS
  BY <1>1 DEF IInv, Core, TaskInv
<1>3. Lifecycle!Assign(t)
  BY <1>1, <1>2 DEF Lifecycle!Assign, Lifecycle!Move, DispatcherAssigns,
                    assign_task, IInv, TypeOK, SchedulerTypeOK
<1>4. \A u \in Tasks \ {t} : Lifecycle!Stutter(u)
  BY <1>1 DEF Lifecycle!Stutter, DispatcherAssigns, assign_task, IInv, TypeOK,
              SchedulerTypeOK
<1>5. QED
  BY <1>3, <1>4 DEF Lifecycle!Next, Lifecycle!Step

(* The start of a coroutine that sends its TASK. *)
LEMMA RefineSends ==
  ASSUME IInv, NEW d \in Dispatches, DispatchSends(d)
  PROVE  Lifecycle!Next
<1> USE DEF Lifecycle!KeepAttempt, Lifecycle!KeepResponse
<1>1. TaskOf(d) \in Tasks
  BY DispatchType
<1>2. Lifecycle!Start(TaskOf(d))
  BY <1>1 DEF Lifecycle!Start, Lifecycle!Move, DispatchSends, start_task, IInv,
              TypeOK, SchedulerTypeOK
<1>3. \A u \in Tasks \ {TaskOf(d)} : Lifecycle!Stutter(u)
  BY <1>1 DEF Lifecycle!Stutter, DispatchSends, start_task, IInv, TypeOK,
              SchedulerTypeOK
<1>4. QED
  BY <1>2, <1>3 DEF Lifecycle!Next, Lifecycle!Step

(* Failing workers: each of their tasks is retried or given up. *)
LEMMA RefineRequeues ==
  ASSUME IInv, TypeOK', NEW W \in SUBSET Workers, FailAndRequeue(W),
         \A t \in Tasks :
           \/ task_responses'[t] = task_responses[t]
           \/ /\ InFlightOn(t, W) /\ status'[t] \in Terminal
              /\ task_responses'[t] # None
              /\ task_responses'[t].kind = "unreachable"
              /\ task_responses'[t].attempt = attempt[t]
  PROVE  Lifecycle!Next
<1> USE SchedulerAssumption
<1> SUFFICES ASSUME NEW t \in Tasks
             PROVE  Lifecycle!Step(t) \/ Lifecycle!Stutter(t)
  BY DEF Lifecycle!Next
<1>1. attempt' = attempt /\ attempt[t] \in 0 .. MAX_TASK_ATTEMPTS
  BY DEF FailAndRequeue, requeue_tasks_for_workers, IInv, TypeOK, SchedulerTypeOK
<1>2. CASE ~InFlightOn(t, W)
  <2>1. status'[t] = status[t] /\ task_responses'[t] = task_responses[t]
    BY <1>2 DEF FailAndRequeue, requeue_tasks_for_workers
  <2>2. QED
    BY <1>1, <2>1 DEF Lifecycle!Stutter, Lifecycle!KeepAttempt,
                      Lifecycle!KeepResponse
<1>3. CASE InFlightOn(t, W)
  <2>1. status[t] \in {"ASSIGNED", "RUNNING"}
    BY <1>3 DEF InFlightOn, InFlight
  <2>2. task_responses[t] = None
    BY <2>1 DEF IInv, Core, ResponseAgrees, Terminal
  <2>3. status'[t] = IF attempt[t] >= MAX_TASK_ATTEMPTS THEN "FAILED" ELSE "PENDING"
    BY <1>3 DEF FailAndRequeue, requeue_tasks_for_workers, Requeued
  <2>4. CASE attempt[t] >= MAX_TASK_ATTEMPTS
    <3>1. attempt[t] = MAX_TASK_ATTEMPTS /\ status'[t] = "FAILED"
      BY <1>1, <2>3, <2>4, SMT
    <3>2. Lifecycle!KeepResponse(t) \/ Lifecycle!Answer(t)
      BY <2>2, <3>1 DEF Lifecycle!KeepResponse, Lifecycle!Answer
    <3>3. QED
      BY <1>1, <2>1, <3>1, <3>2 DEF Lifecycle!Step, Lifecycle!GiveUp,
                                    Lifecycle!Move, Lifecycle!KeepAttempt
  <2>5. CASE ~(attempt[t] >= MAX_TASK_ATTEMPTS)
    <3>1. attempt[t] < MAX_TASK_ATTEMPTS /\ status'[t] = "PENDING"
      BY <1>1, <2>3, <2>5, SMT
    <3>2. task_responses'[t] = task_responses[t]
      BY <3>1 DEF Terminal
    <3>3. QED
      BY <1>1, <2>1, <3>1, <3>2
         DEF Lifecycle!Step, Lifecycle!Retry, Lifecycle!Move,
             Lifecycle!KeepAttempt, Lifecycle!KeepResponse
  <2>6. QED
    BY <2>4, <2>5
<1>4. QED
  BY <1>2, <1>3

(* The same, by a coroutine that finds its worker unreachable. *)
LEMMA RefineUnreachable ==
  ASSUME IInv, TypeOK', NEW d \in Dispatches, NEW w \in Workers,
         WorkerUnreachable(d, w, attempt[TaskOf(d)]),
         InFlightOn(TaskOf(d), {w})
  PROVE  Lifecycle!Next
<1> USE SchedulerAssumption
<1> DEFINE W == {w}
           r == [kind |-> "unreachable", attempt |-> attempt[TaskOf(d)]]
<1>1. TaskOf(d) \in Tasks
  BY DispatchType
<1>2. attempt[TaskOf(d)] \in 1 .. MAX_TASK_ATTEMPTS
  BY <1>1, SMT DEF IInv, TypeOK, SchedulerTypeOK, Core, TaskInv, InFlightOn
<1>3. r # None
  BY <1>2, ResponseAssumption, SMT DEF Responses
<1>4. \A t \in Tasks :
        \/ task_responses'[t] = task_responses[t]
        \/ /\ InFlightOn(t, W) /\ status'[t] \in Terminal
           /\ task_responses'[t] = r
           /\ r.kind = "unreachable" /\ r.attempt = attempt[t]
  BY <1>1, SMT DEF WorkerUnreachable, record_if_terminal, record_task_response, IInv,
              TypeOK
<1>5. FailAndRequeue(W) /\ W \in SUBSET Workers
  BY DEF WorkerUnreachable
<1> HIDE DEF W, r
<1>6. QED
  BY <1>3, <1>4, <1>5, RefineRequeues

(* The end of a task by the coroutine that has its reply. *)
LEMMA RefineFinishes ==
  ASSUME IInv, NEW d \in Dispatches, TaskFinishes(d),
         \/ UNCHANGED task_responses
         \/ record_if_terminal(TaskOf(d), dispatch[d].reply, dispatch[d].attempt)
  PROVE  Lifecycle!Next
<1> USE SchedulerAssumption
<1> DEFINE t == TaskOf(d)
           r == [kind |-> dispatch[d].reply, attempt |-> dispatch[d].attempt]
<1>1. /\ t \in Tasks /\ dispatch[d].pc = "awaiting" /\ is_current_attempt(d)
      /\ dispatch[d].attempt = attempt[t]
  BY DispatchType DEF TaskFinishes, Resumes, is_current_attempt
<1>2. status[t] = "RUNNING" /\ task_responses[t] = None
  BY <1>1 DEF IInv, Core, CurrentIsRunning, ResponseAgrees, Terminal
<1>3. /\ status'[t] = IF dispatch[d].reply = "success" THEN "COMPLETED" ELSE "FAILED"
      /\ \A u \in Tasks : u # t => status'[u] = status[u]
      /\ attempt' = attempt
      /\ dispatch[d].reply \in {"success", "error"}
  BY <1>1 DEF TaskFinishes, complete_task, fail_task, IInv, TypeOK,
              SchedulerTypeOK
<1>4. attempt[t] \in 1 .. MAX_TASK_ATTEMPTS
  BY <1>1, <1>2, SMT DEF IInv, TypeOK, SchedulerTypeOK, Core, TaskInv, InFlight
<1>5. r # None
  BY <1>1, <1>3, <1>4, ResponseAssumption, SMT DEF Responses
<1>6. /\ task_responses'[t] = task_responses[t] \/ task_responses'[t] = r
      /\ \A u \in Tasks : u # t => task_responses'[u] = task_responses[u]
  BY <1>1 DEF record_if_terminal, record_task_response, IInv, TypeOK
<1>7. Lifecycle!KeepResponse(t) \/ Lifecycle!Answer(t)
  <2>1. r.kind = dispatch[d].reply /\ r.attempt = attempt[t]
    BY <1>1
  <2> HIDE DEF r
  <2>2. QED
    BY <1>2, <1>3, <1>5, <1>6, <2>1 DEF Lifecycle!KeepResponse, Lifecycle!Answer
<1>8. Lifecycle!Finish(t)
  BY <1>2, <1>3, <1>7 DEF Lifecycle!Finish, Lifecycle!Move, Lifecycle!KeepAttempt
<1>9. \A u \in Tasks \ {t} : Lifecycle!Stutter(u)
  BY <1>3, <1>6 DEF Lifecycle!Stutter, Lifecycle!KeepAttempt,
                    Lifecycle!KeepResponse
<1>10. QED
  BY <1>1, <1>8, <1>9 DEF Lifecycle!Next, Lifecycle!Step

(* The belated record of a finished task. *)
LEMMA RefineRecords ==
  ASSUME IInv, NEW d \in Dispatches, DispatchRecords(d)
  PROVE  Lifecycle!Next
<1> USE SchedulerAssumption
<1> DEFINE t == TaskOf(d)
           r == [kind |-> dispatch[d].reply, attempt |-> dispatch[d].attempt]
<1>1. t \in Tasks /\ dispatch[d].pc = "closing"
  BY DispatchType DEF DispatchRecords
<1>2. /\ status[t] \in Terminal /\ task_responses[t] = None
      /\ dispatch[d].attempt = attempt[t]
      /\ dispatch[d].reply \in {"success", "error"}
      /\ dispatch[d].reply = "success" <=> status[t] = "COMPLETED"
  BY <1>1 DEF IInv, Core, ClosingInv
<1>3. attempt[t] \in 1 .. MAX_TASK_ATTEMPTS
  BY <1>1, <1>2, SMT DEF IInv, TypeOK, SchedulerTypeOK, Core, TaskInv
<1>4. r # None
  BY <1>2, <1>3, ResponseAssumption, SMT DEF Responses
<1>5. /\ UNCHANGED <<status, attempt>>
      /\ task_responses'[t] = r
      /\ \A u \in Tasks : u # t => task_responses'[u] = task_responses[u]
  BY <1>1, <1>2 DEF DispatchRecords, record_if_terminal, record_task_response,
                    IInv, TypeOK, task_vars
<1>6. Lifecycle!Respond(t)
  <2>1. r.kind = dispatch[d].reply /\ r.attempt = attempt[t]
    BY <1>2
  <2> HIDE DEF r
  <2>2. QED
    BY <1>2, <1>4, <1>5, <2>1 DEF Lifecycle!Respond, Lifecycle!Answer,
                                  Lifecycle!KeepAttempt, Terminal
<1>7. \A u \in Tasks \ {t} : Lifecycle!Stutter(u)
  BY <1>5 DEF Lifecycle!Stutter, Lifecycle!KeepAttempt, Lifecycle!KeepResponse
<1>8. QED
  BY <1>1, <1>6, <1>7 DEF Lifecycle!Next, Lifecycle!Step

(* Every step of the master is a step of the life cycle. *)
LEMMA RefineNext ==
  ASSUME IInv, TypeOK', Next
  PROVE  Lifecycle!Next
<1> USE SchedulerAssumption
<1>1. ASSUME UNCHANGED <<status, attempt, task_responses>> PROVE Lifecycle!Next
  BY <1>1, RefineStutter DEF Lifecycle!Next
<1>2. ASSUME NEW t \in Tasks, submit(t) PROVE Lifecycle!Next
  <2>1. Lifecycle!Submit(t)
    BY <1>2 DEF Lifecycle!Submit, Lifecycle!Move, Lifecycle!KeepAttempt,
                Lifecycle!KeepResponse, submit, submit_task, IInv, TypeOK,
                SchedulerTypeOK
  <2>2. \A u \in Tasks \ {t} : Lifecycle!Stutter(u)
    BY <1>2 DEF Lifecycle!Stutter, Lifecycle!KeepAttempt, Lifecycle!KeepResponse,
                submit, submit_task, IInv, TypeOK, SchedulerTypeOK
  <2>3. QED
    BY <2>1, <2>2 DEF Lifecycle!Next, Lifecycle!Step
<1>3. ASSUME NEW t \in Tasks, NEW w \in Workers, DispatcherAssigns(t, w)
      PROVE  Lifecycle!Next
  BY <1>3, RefineAssigns
<1>4. ASSUME NEW d \in Dispatches, Dispatch(d) PROVE Lifecycle!Next
  <2>1. CASE DispatchRaises(d) \/ DispatchStale(d)
    BY <1>1, <2>1 DEF DispatchRaises, DispatchStale, task_vars
  <2>2. CASE DispatchUnsendable(d)
    <3>1. assigned_worker_id[TaskOf(d)] \in Workers
      BY <2>2, DispatchType DEF DispatchUnsendable, IInv, Core, TaskInv, InFlight
    <3>2. InFlightOn(TaskOf(d), {assigned_worker_id[TaskOf(d)]})
      BY <2>2 DEF DispatchUnsendable, InFlightOn, InFlight
    <3>3. QED
      BY <2>2, <3>1, <3>2, RefineUnreachable DEF DispatchUnsendable
  <2>3. CASE DispatchSends(d)
    BY <2>3, RefineSends
  <2>4. CASE DispatchLost(d)
    <3>1. /\ dispatch[d].pc = "awaiting" /\ is_current_attempt(d)
          /\ dispatch[d].attempt = attempt[TaskOf(d)]
          /\ assigned_worker_id[TaskOf(d)] = dispatch[d].worker
      BY <2>4 DEF DispatchLost, Resumes, is_current_attempt
    <3>2. InFlightOn(TaskOf(d), {dispatch[d].worker}) /\ dispatch[d].worker \in Workers
      BY <3>1 DEF IInv, Core, CurrentIsRunning, AwaitingInv, InFlightOn, InFlight
    <3>3. QED
      BY <2>4, <3>1, <3>2, RefineUnreachable DEF DispatchLost
  <2>5. CASE \/ DispatchFinishes(d) \/ DispatchClosesLink(d)
             \/ DispatchCloseRaises(d)
    BY <2>5, RefineFinishes DEF DispatchFinishes, DispatchClosesLink,
                                DispatchCloseRaises
  <2>6. CASE DispatchRecords(d)
    BY <2>6, RefineRecords
  <2>7. QED
    BY <1>4, <2>1, <2>2, <2>3, <2>4, <2>5, <2>6 DEF Dispatch
<1>5. ASSUME NEW c \in Conns, Handler(c) PROVE Lifecycle!Next
  BY <1>1, <1>5 DEF Handler, RegisterRejected, RegisterAccepted,
     RegisterReplyLost, Heartbeat, ShutdownCloses, ShutdownWaits, TaskResult,
     HandlerExit, task_vars
<1>6. CASE \/ \E c \in Conns, w \in Workers : Connect(c, w)
           \/ \E c \in Conns : Crash(c)
           \/ \E w \in Workers : Silence(w)
  BY <1>1, <1>6 DEF Connect, Crash, Silence, task_vars
<1>7. CASE failure_monitor
  <2>1. StaleWorkers \in SUBSET Workers /\ FailAndRequeue(StaleWorkers)
    BY <1>7 DEF StaleWorkers, failure_monitor
  <2>2. \A t \in Tasks : task_responses'[t] = task_responses[t]
    BY <1>7 DEF failure_monitor
  <2>3. QED
    BY <2>1, <2>2, RefineRequeues
<1>8. QED
  BY <1>2, <1>3, <1>4, <1>5, <1>6, <1>7 DEF Next

(* The master implements the life cycle: for every task, whatever happens,  *)
(* only the transitions of TaskLifecycle occur.                             *)
THEOREM Refinement == Spec => ImplementsLifecycle
<1>1. Init => Lifecycle!Init
  BY DEF Init, SchedulerInit, Lifecycle!Init
<1>2. IInv /\ IInv' /\ [Next]_vars => [Lifecycle!Next]_(Lifecycle!vars)
  <2>1. ASSUME IInv, IInv', Next PROVE Lifecycle!Next
    BY <2>1, RefineNext DEF IInv
  <2>2. UNCHANGED vars => UNCHANGED Lifecycle!vars
    BY DEF vars, task_vars, Lifecycle!vars
  <2>3. QED
    BY <2>1, <2>2
<1>3. QED
  BY <1>1, <1>2, Invariant, PTL DEF Spec, ImplementsLifecycle, Lifecycle!Spec

(* No step changes a finished task or a recorded response: the guards of    *)
(* dispatch_assigned_task stop every late reply and late failure.           *)
THEOREM OutcomeIsFinalHolds == Spec => OutcomeIsFinal
<1> DEFINE Final == \A t \in Tasks :
             /\ status[t] \in Terminal =>
                  status'[t] = status[t] /\ attempt'[t] = attempt[t]
             /\ task_responses[t] # None =>
                  task_responses'[t] = task_responses[t]
<1>1. IInv /\ IInv' /\ [Next]_vars => [Final]_vars
  <2>1. ASSUME IInv, IInv', Next PROVE Final
    <3>1. Lifecycle!Next
      BY <2>1, RefineNext DEF IInv
    <3>2. QED
      BY <3>1 DEF Lifecycle!Next, Lifecycle!Step, Lifecycle!Stutter,
           Lifecycle!Submit, Lifecycle!Assign, Lifecycle!Start, Lifecycle!Retry,
           Lifecycle!GiveUp, Lifecycle!Finish, Lifecycle!Respond,
           Lifecycle!Answer, Lifecycle!Move, Lifecycle!KeepAttempt,
           Lifecycle!KeepResponse, Terminal
  <2>2. QED
    BY <2>1
<1>2. QED
  BY <1>1, Invariant, PTL DEF Spec, OutcomeIsFinal

=============================================================================
