-------------------------- MODULE AsyncMasterLinks --------------------------
(***************************************************************************)
(* Proofs about the workers and the connections of the asyncio master: no  *)
(* worker is left BUSY, cleanup never clobbers a newer connection, the     *)
(* connection in use is the newest and the one a running task is answered  *)
(* on, and a task is with a worker that works on it and on nothing else.   *)
(***************************************************************************)
EXTENDS AsyncMasterProofs

(* Most leaves are first-order: they are Zenon's unless they name a prover. *)
USE Zenon

(* A step that makes no worker BUSY and takes no task from one. *)
LEMMA BusyKept ==
  ASSUME BusyHasTask,
         \A w \in Workers : worker_status'[w] = "BUSY" => worker_status[w] = "BUSY",
         \A t \in Tasks, w \in Workers :
           InFlightOn(t, {w}) /\ worker_status'[w] = "BUSY" => InFlightOn(t, {w})'
  PROVE  BusyHasTask'
BY DEF BusyHasTask

(* A step of a handler makes no worker BUSY. *)
LEMMA BusyHandler ==
  ASSUME TypeOK, PeerKnown, BusyHasTask, NEW c \in Conns, Handler(c)
  PROVE  BusyHasTask'
<1>1. UNCHANGED <<status, assigned_worker_id>>
  BY DEF Handler, RegisterRejected, RegisterAccepted, RegisterReplyLost,
     Heartbeat, ShutdownCloses, ShutdownWaits, TaskResult, HandlerExit, task_vars
<1>2. \A w \in Workers : worker_status'[w] = "BUSY" => worker_status[w] = "BUSY"
  <2>1. CASE RegisterAccepted(c) \/ RegisterReplyLost(c)
    BY <2>1 DEF RegisterAccepted, RegisterReplyLost, register_worker, TypeOK,
                SchedulerTypeOK
  <2>2. CASE ShutdownCloses(c)
    BY <2>2 DEF ShutdownCloses, Cleanup, handle_shutdown, TypeOK,
                SchedulerTypeOK
  <2>3. CASE ShutdownWaits(c)
    BY <2>3 DEF ShutdownWaits, handle_shutdown, TypeOK, SchedulerTypeOK
  <2>4. CASE HandlerExit(c)
    BY <2>4 DEF HandlerExit, Cleanup, TypeOK, SchedulerTypeOK
  <2>5. CASE \/ RegisterRejected(c) \/ Heartbeat(c)
             \/ \E d \in Dispatches, r \in {"success", "error"} :
                  TaskResult(c, d, r)
    BY <2>5 DEF RegisterRejected, Heartbeat, TaskResult, worker_vars
  <2>6. QED
    BY <2>1, <2>2, <2>3, <2>4, <2>5 DEF Handler
<1>3. QED
  BY <1>1, <1>2, BusyKept DEF InFlightOn

(* Failing workers leaves none of them BUSY. *)
LEMMA BusyRequeues ==
  ASSUME TypeOK, BusyHasTask, NEW W \in SUBSET Workers, FailAndRequeue(W)
  PROVE  BusyHasTask'
<1>1. \A w \in Workers :
        worker_status'[w] = "BUSY" => worker_status[w] = "BUSY" /\ w \notin W
  BY DEF FailAndRequeue, update_status, TypeOK, SchedulerTypeOK
<1>2. \A t \in Tasks :
        assigned_worker_id[t] \notin W =>
          /\ status'[t] = status[t]
          /\ assigned_worker_id'[t] = assigned_worker_id[t]
  BY DEF FailAndRequeue, requeue_tasks_for_workers, InFlightOn
<1>3. QED
  BY <1>1, <1>2, BusyKept DEF InFlightOn

(* Every step keeps a task behind each BUSY worker. *)
LEMMA BusyNext ==
  ASSUME IInv, BusyHasTask, Next
  PROVE  BusyHasTask'
<1>1. TypeOK /\ PeerKnown /\ Core
  BY DEF IInv
<1>2. ASSUME NEW t \in Tasks, submit(t) PROVE BusyHasTask'
  <2>1. /\ status[t] = "ABSENT"
        /\ \A u \in Tasks : u # t => status'[u] = status[u]
        /\ UNCHANGED <<assigned_worker_id, worker_status>>
    BY <1>1, <1>2 DEF submit, submit_task, worker_vars, TypeOK, SchedulerTypeOK
  <2>2. QED
    BY <2>1, BusyKept DEF InFlightOn, InFlight
<1>3. ASSUME NEW t \in Tasks, NEW w \in Workers, DispatcherAssigns(t, w)
      PROVE  BusyHasTask'
  <2>1. assign_task(t, w) /\ status[t] = "PENDING"
    BY <1>3 DEF DispatcherAssigns, assign_next_pending_task, OldestPending
  <2>2. /\ status'[t] = "ASSIGNED" /\ assigned_worker_id'[t] = w
        /\ \A u \in Tasks : u # t => /\ status'[u] = status[u]
                                     /\ assigned_worker_id'[u] = assigned_worker_id[u]
        /\ \A v \in Workers : v # w => worker_status'[v] = worker_status[v]
    BY <1>1, <2>1 DEF assign_task, TypeOK, SchedulerTypeOK
  <2>3. QED
    BY <2>1, <2>2 DEF BusyHasTask, InFlightOn, InFlight
<1>4. ASSUME NEW d \in Dispatches, Dispatch(d) PROVE BusyHasTask'
  <2>1. CASE DispatchRaises(d) \/ DispatchStale(d) \/ DispatchRecords(d)
    BY <2>1, BusyKept DEF DispatchRaises, DispatchStale, DispatchRecords,
                          task_vars, worker_vars, InFlightOn
  <2>2. CASE DispatchSends(d)
    <3>1. /\ \A u \in Tasks : \/ status'[u] = status[u]
                              \/ status[u] \in InFlight /\ status'[u] \in InFlight
          /\ UNCHANGED <<assigned_worker_id, worker_status>>
      BY <1>1, <2>2 DEF DispatchSends, start_task, worker_vars, TypeOK,
                        SchedulerTypeOK, InFlight
    <3>2. QED
      BY <3>1, BusyKept DEF InFlightOn
  <2>3. CASE DispatchUnsendable(d)
    <3>1. assigned_worker_id[TaskOf(d)] \in Workers
      BY <1>1, <2>3, DispatchType DEF DispatchUnsendable, Core, TaskInv, InFlight
    <3>2. FailAndRequeue({assigned_worker_id[TaskOf(d)]})
      BY <2>3 DEF DispatchUnsendable, WorkerUnreachable
    <3>3. QED
      BY <1>1, <3>1, <3>2, BusyRequeues
  <2>4. CASE DispatchLost(d)
    <3>1. dispatch[d].worker \in Workers
      BY <1>1, <2>4 DEF DispatchLost, Resumes, Core, AwaitingInv
    <3>2. FailAndRequeue({dispatch[d].worker})
      BY <2>4 DEF DispatchLost, WorkerUnreachable
    <3>3. QED
      BY <1>1, <3>1, <3>2, BusyRequeues
  <2>5. CASE \/ DispatchFinishes(d) \/ DispatchClosesLink(d)
             \/ DispatchCloseRaises(d)
    <3> DEFINE t == TaskOf(d)
               w == assigned_worker_id[t]
    <3>1. TaskFinishes(d) /\ t \in Tasks
      BY <2>5, DispatchType DEF DispatchFinishes, DispatchClosesLink,
                                DispatchCloseRaises
    <3>2. dispatch[d].pc = "awaiting" /\ w = dispatch[d].worker
      BY <3>1 DEF TaskFinishes, Resumes, is_current_attempt
    <3>3. w \in Workers /\ w # None
      BY <1>1, <3>2, SchedulerAssumption DEF Core, AwaitingInv
    <3>4. /\ worker_status' = release_worker(w)
          /\ assigned_worker_id' = assigned_worker_id
          /\ \A u \in Tasks : u # t => status'[u] = status[u]
      BY <1>1, <3>1 DEF TaskFinishes, complete_task, fail_task, TypeOK,
                        SchedulerTypeOK
    <3>5. /\ worker_status'[w] # "BUSY"
          /\ \A v \in Workers : v # w => worker_status'[v] = worker_status[v]
      BY <1>1, <3>3, <3>4 DEF release_worker, TypeOK, SchedulerTypeOK
    <3>6. \A u \in Tasks, v \in Workers :
            InFlightOn(u, {v}) /\ v # w => InFlightOn(u, {v})'
      BY <3>4 DEF InFlightOn
    <3> HIDE DEF w
    <3>7. QED
      BY <3>5, <3>6, BusyKept
  <2>6. QED
    BY <1>4, <2>1, <2>2, <2>3, <2>4, <2>5 DEF Dispatch
<1>5. ASSUME NEW c \in Conns, Handler(c) PROVE BusyHasTask'
  BY <1>1, <1>5, BusyHandler
<1>6. CASE \/ \E c \in Conns, w \in Workers : Connect(c, w)
           \/ \E c \in Conns : Crash(c)
           \/ \E w \in Workers : Silence(w)
  BY <1>6, BusyKept DEF Connect, Crash, Silence, task_vars, worker_vars, InFlightOn
<1>7. CASE failure_monitor
  <2>1. StaleWorkers \in SUBSET Workers /\ FailAndRequeue(StaleWorkers)
    BY <1>7 DEF StaleWorkers, failure_monitor
  <2>2. QED
    BY <1>1, <2>1, BusyRequeues
<1>8. QED
  BY <1>2, <1>3, <1>4, <1>5, <1>6, <1>7 DEF Next

(* No worker is left BUSY without a task: every path that takes the task    *)
(* away also releases, fails or stops the worker.                           *)
THEOREM BusyHasTaskHolds == Spec => []BusyHasTask
<1>1. Init => BusyHasTask
  BY DEF Init, SchedulerInit, BusyHasTask
<1>2. IInv /\ BusyHasTask /\ [Next]_vars => BusyHasTask'
  <2>1. ASSUME UNCHANGED vars, BusyHasTask PROVE BusyHasTask'
    BY <2>1 DEF vars, task_vars, worker_vars, BusyHasTask, InFlightOn
  <2>2. QED
    BY <2>1, BusyNext
<1>3. QED
  BY <1>1, <1>2, Invariant, PTL DEF Spec

(* A connection that was never opened has no handler. *)
LinkInv ==
  /\ OpenLinkIsCurrent
  /\ \A c \in Conns : conn[c] = "unused" => link_worker[c] = None

(* The end of a handler, which pops only its own entry. *)
LEMMA LinkCleanup ==
  ASSUME TypeOK, LinkInv, NEW c \in Conns, NEW wstatus, Cleanup(c, wstatus)
  PROVE  LinkInv'
<1>1. /\ conn'[c] = "closed"
      /\ \A b \in Conns : b # c => conn'[b] = conn[b] /\ link_worker'[b] = link_worker[b]
  BY DEF Cleanup, Forget, TypeOK
<1>2. \A b \in Conns :
        /\ b # c /\ link_worker[b] # None /\ connections[link_worker[b]] = b
        => connections'[link_worker[b]] = b
  BY DEF Cleanup, IsCurrentLink, TypeOK
<1>3. QED
  BY <1>1, <1>2 DEF LinkInv, OpenLinkIsCurrent

(* A step that installs no link and opens none. *)
LEMMA LinkKept ==
  ASSUME LinkInv, UNCHANGED <<connections, link_worker>>,
         \A c \in Conns : conn'[c] = conn[c] \/ conn'[c] \notin {"open", "unused"}
  PROVE  LinkInv'
BY DEF LinkInv, OpenLinkIsCurrent

(* An accepted REGISTER: the one link that was healthy before is closed. *)
LEMMA LinkRegister ==
  ASSUME TypeOK, PeerKnown, LinkInv, NEW c \in Conns, RegisterAccepted(c)
  PROVE  LinkInv'
<1> USE SchedulerAssumption, AsyncMasterAssumption
<1> DEFINE w == peer[c]
           previous == connections[w]
<1>1. w \in Workers /\ w # None
  BY DEF RegisterAccepted, PeerKnown
<1>2. /\ connections'[w] = c
      /\ \A v \in Workers : v # w => connections'[v] = connections[v]
  BY <1>1 DEF RegisterAccepted, Installed, TypeOK
<1>3. /\ link_worker'[c] = w
      /\ \A b \in Conns : b # c => link_worker'[b] = link_worker[b]
  BY DEF RegisterAccepted, TypeOK
<1>4. conn[c] # "unused"
  BY DEF RegisterAccepted, Reads
<1>5. previous \in Conns \cup {None}
  BY <1>1 DEF TypeOK
<1>6. \A b \in Conns : conn'[b] = conn[b] \/ conn'[b] = "closing"
  BY <1>5 DEF RegisterAccepted, Closed, TypeOK
<1>7. previous \in Conns /\ previous # c => conn'[previous] # "open"
  <2>1. CASE conn' = Closed(previous)
    BY <2>1, <1>5 DEF Closed, TypeOK, Conns
  <2>2. CASE conn[previous] = "lost"
    BY <2>2, <1>6
  <2>3. QED
    BY <2>1, <2>2 DEF RegisterAccepted
<1>8. OpenLinkIsCurrent'
  <2> SUFFICES ASSUME NEW b \in Conns, conn'[b] = "open", link_worker'[b] # None
               PROVE  connections'[link_worker'[b]] = b
    BY DEF OpenLinkIsCurrent
  <2>1. CASE b = c
    BY <1>2, <1>3, <2>1
  <2>2. CASE b # c
    <3>1. /\ conn[b] = "open" /\ link_worker'[b] = link_worker[b]
          /\ link_worker[b] \in Workers
          /\ connections[link_worker[b]] = b
      BY <1>3, <1>6, <2>2, SMT DEF LinkInv, OpenLinkIsCurrent, TypeOK
    <3>2. link_worker[b] # w
      BY <1>7, <2>2, <3>1
    <3>3. QED
      BY <1>2, <3>1, <3>2
  <2>3. QED
    BY <2>1, <2>2
<1>9. \A b \in Conns : conn'[b] = "unused" => link_worker'[b] = None
  BY <1>3, <1>4, <1>6 DEF LinkInv
<1>10. QED
  BY <1>8, <1>9 DEF LinkInv

(* Every step keeps the healthy links current. *)
LEMMA LinkNext ==
  ASSUME IInv, LinkInv, Next
  PROVE  LinkInv'
<1> USE SchedulerAssumption, AsyncMasterAssumption
<1>1. TypeOK /\ PeerKnown
  BY DEF IInv
<1>2. ASSUME NEW c \in Conns, Handler(c) PROVE LinkInv'
  <2>1. CASE ShutdownCloses(c) \/ HandlerExit(c)
    BY <1>1, <2>1, LinkCleanup DEF ShutdownCloses, HandlerExit
  <2>2. CASE RegisterAccepted(c)
    BY <1>1, <2>2, LinkRegister
  <2>3. CASE RegisterReplyLost(c)
    <3>1. /\ conn'[c] = "closed" /\ connections' = connections
          /\ \A b \in Conns : b # c => conn'[b] = conn[b] /\ link_worker'[b] = link_worker[b]
      BY <1>1, <2>3 DEF RegisterReplyLost, Forget, TypeOK
    <3>2. QED
      BY <3>1 DEF LinkInv, OpenLinkIsCurrent
  <2>4. CASE \/ RegisterRejected(c) \/ Heartbeat(c) \/ ShutdownWaits(c)
             \/ \E d \in Dispatches, r \in {"success", "error"} :
                  TaskResult(c, d, r)
    BY <2>4, LinkKept DEF RegisterRejected, Heartbeat, ShutdownWaits,
                          TaskResult, link_vars
  <2>5. QED
    BY <1>2, <2>1, <2>2, <2>3, <2>4 DEF Handler
<1>3. ASSUME NEW c \in Conns, NEW w \in Workers, Connect(c, w) PROVE LinkInv'
  <2>1. /\ link_worker[c] = None /\ UNCHANGED <<connections, link_worker>>
        /\ \A b \in Conns : b # c => conn'[b] = conn[b]
        /\ conn'[c] = "open"
    BY <1>1, <1>3 DEF Connect, LinkInv, TypeOK
  <2>2. QED
    BY <2>1 DEF LinkInv, OpenLinkIsCurrent
<1>4. ASSUME NEW c \in Conns, Crash(c) PROVE LinkInv'
  BY <1>1, <1>4, LinkKept DEF Crash, TypeOK
<1>5. ASSUME NEW d \in Dispatches, Dispatch(d) PROVE LinkInv'
  <2>1. CASE DispatchClosesLink(d)
    <3>1. \A b \in Conns : conn'[b] = conn[b] \/ conn'[b] = "closing"
      BY <1>1, <2>1 DEF DispatchClosesLink, Closed, TypeOK
    <3>2. QED
      BY <2>1, <3>1, LinkKept DEF DispatchClosesLink
  <2>2. CASE ~DispatchClosesLink(d)
    <3>1. UNCHANGED link_vars
      BY <1>5, <2>2 DEF Dispatch, DispatchRaises, DispatchUnsendable,
         DispatchSends, DispatchStale, DispatchLost, DispatchFinishes,
         DispatchCloseRaises, DispatchRecords, WorkerUnreachable
    <3>2. QED
      BY <3>1, LinkKept DEF link_vars
  <2>3. QED
    BY <2>1, <2>2
<1>6. CASE \/ \E t \in Tasks : submit(t)
           \/ \E t \in Tasks, w \in Workers : DispatcherAssigns(t, w)
           \/ \E w \in Workers : Silence(w)
           \/ failure_monitor
  BY <1>6, LinkKept DEF submit, DispatcherAssigns, Silence, failure_monitor,
                        link_vars
<1>7. QED
  BY <1>2, <1>3, <1>4, <1>5, <1>6 DEF Next

(* A healthy registered connection is the one that speaks for its worker,  *)
(* so there is at most one: handle_worker_connection closes the previous    *)
(* link, and its finally block pops only its own entry.                     *)
THEOREM OpenLinkIsCurrentHolds == Spec => []OpenLinkIsCurrent
<1>1. Init => LinkInv
  BY DEF Init, LinkInv, OpenLinkIsCurrent
<1>2. IInv /\ LinkInv /\ [Next]_vars => LinkInv'
  <2>1. ASSUME UNCHANGED vars, LinkInv PROVE LinkInv'
    BY <2>1, LinkKept DEF vars, link_vars
  <2>2. QED
    BY <2>1, LinkNext
<1>3. LinkInv => OpenLinkIsCurrent
  BY DEF LinkInv
<1>4. QED
  BY <1>1, <1>2, <1>3, Invariant, PTL DEF Spec

-----------------------------------------------------------------------------
(* The link that dispatches use was registered for its worker; a link      *)
(* carries a generation its worker has reached; a process that has yet to  *)
(* be accepted has no worker id.                                           *)
GenerationInv ==
  /\ \A w \in Workers : connections[w] # None => link_worker[connections[w]] = w
  /\ \A c \in Conns :
       link_worker[c] # None => link_generation[c] <= generation[link_worker[c]]
  /\ \A c \in Conns : process[c] = "registering" => link_worker[c] = None
  /\ LatestGeneration

(* A step that touches no link, and lets no generation go back. *)
LEMMA GenerationKept ==
  ASSUME GenerationInv, UNCHANGED <<connections, link_worker, link_generation>>,
         UNCHANGED generation,
         \A c \in Conns :
           process'[c] = "registering" => process[c] = "registering" \/ link_worker[c] = None
  PROVE  GenerationInv'
BY DEF GenerationInv, LatestGeneration

(* The end of a handler: its generation is forgotten, and the entry of its *)
(* worker with it, if that entry is its own.                               *)
LEMMA GenerationCleanup ==
  ASSUME TypeOK, GenerationInv, NEW c \in Conns,
         Forget(c), generation' = generation,
         connections' = IF IsCurrentLink(c)
                        THEN [connections EXCEPT ![link_worker[c]] = None] ELSE connections
  PROVE  GenerationInv'
<1> USE SchedulerAssumption, AsyncMasterAssumption
<1>1. /\ link_worker'[c] = None /\ process'[c] = "none"
      /\ \A b \in Conns : b # c => /\ link_worker'[b] = link_worker[b]
                                   /\ link_generation'[b] = link_generation[b]
                                   /\ process'[b] = process[b]
  BY DEF Forget, TypeOK
<1>2. \A w \in Workers :
        /\ connections'[w] # c
        /\ connections'[w] = connections[w] \/ connections'[w] = None
  <2> TAKE w \in Workers
  <2>1. connections[w] \in Conns \cup {None} /\ c # None
    BY DEF TypeOK, Conns
  <2>2. connections[w] = c => link_worker[c] = w /\ IsCurrentLink(c)
    BY <2>1 DEF GenerationInv, IsCurrentLink
  <2>3. QED
    BY <2>1, <2>2 DEF TypeOK
<1>3. \A w \in Workers : connections'[w] \in Conns \cup {None}
  BY <1>2 DEF TypeOK
<1>4. LatestGeneration'
  <2> SUFFICES ASSUME NEW b \in Conns, link_worker'[b] # None,
                      connections'[link_worker'[b]] \notin {None, b}
               PROVE  link_generation'[b] < link_generation'[connections'[link_worker'[b]]]
    BY DEF LatestGeneration
  <2>1. b # c /\ link_worker'[b] = link_worker[b] /\ link_worker[b] \in Workers
    BY <1>1, SMT DEF TypeOK
  <2>2. /\ connections'[link_worker[b]] = connections[link_worker[b]]
        /\ connections[link_worker[b]] \in Conns \ {c}
    BY <1>2, <1>3, <2>1
  <2>3. QED
    BY <1>1, <2>1, <2>2, SMT DEF GenerationInv, LatestGeneration
<1>5. \A w \in Workers : connections'[w] # None => link_worker'[connections'[w]] = w
  BY <1>1, <1>2, <1>3, SMT DEF GenerationInv
<1>6. QED
  BY <1>1, <1>4, <1>5, SMT DEF GenerationInv

(* An accepted REGISTER gets a generation that no link of its worker has. *)
LEMMA GenerationRegister ==
  ASSUME TypeOK, PeerKnown, GenerationInv, NEW c \in Conns, RegisterAccepted(c)
  PROVE  GenerationInv'
<1> USE SchedulerAssumption, AsyncMasterAssumption
<1> DEFINE w == peer[c]
<1>1. w \in Workers /\ w # None /\ c # None
  BY DEF RegisterAccepted, PeerKnown, Conns
<1>2. /\ connections'[w] = c
      /\ \A v \in Workers : v # w => connections'[v] = connections[v]
  BY <1>1 DEF RegisterAccepted, Installed, TypeOK
<1>3. /\ link_worker'[c] = w /\ link_generation'[c] = generation'[w]
      /\ process'[c] = "serving" /\ link_worker[c] = None
      /\ \A b \in Conns : b # c => /\ link_worker'[b] = link_worker[b]
                                   /\ link_generation'[b] = link_generation[b]
                                   /\ process'[b] = process[b]
  BY SMT DEF RegisterAccepted, TypeOK, GenerationInv
<1>4. /\ generation'[w] = generation[w] + 1
      /\ \A v \in Workers : v # w => generation'[v] = generation[v]
      /\ \A v \in Workers : generation[v] \in Nat
      /\ \A b \in Conns : link_generation[b] \in Nat
  BY <1>1 DEF RegisterAccepted, register_worker, TypeOK, SchedulerTypeOK
<1>5. \A v \in Workers : connections[v] \in Conns \cup {None} /\ connections[v] # c
  BY <1>1, <1>3, SMT DEF GenerationInv, TypeOK
<1>6. \A b \in Conns : link_worker[b] \in Workers \cup {None}
  BY DEF TypeOK
<1> HIDE DEF w
<1>7. \A v \in Workers : connections'[v] # None => link_worker'[connections'[v]] = v
  BY <1>2, <1>3, <1>5, SMT DEF GenerationInv
<1>8. \A b \in Conns :
        link_worker'[b] # None => link_generation'[b] <= generation'[link_worker'[b]]
  <2> SUFFICES ASSUME NEW b \in Conns, link_worker'[b] # None
               PROVE  link_generation'[b] <= generation'[link_worker'[b]]
    OBVIOUS
  <2>1. CASE b = c
    BY <1>1, <1>3, <1>4, <2>1, SMT
  <2>2. CASE b # c
    <3>1. link_generation[b] <= generation[link_worker[b]] /\ link_worker[b] \in Workers
      BY <1>3, <1>6, <2>2 DEF GenerationInv
    <3>2. generation[link_worker[b]] <= generation'[link_worker[b]]
          /\ generation'[link_worker[b]] \in Nat /\ generation[link_worker[b]] \in Nat
      BY <1>1, <1>4, <3>1, SMT
    <3>3. QED
      BY <1>3, <1>4, <2>2, <3>1, <3>2, SMT
  <2>3. QED
    BY <2>1, <2>2
<1>9. LatestGeneration'
  <2> SUFFICES ASSUME NEW b \in Conns, link_worker'[b] # None,
                      connections'[link_worker'[b]] \notin {None, b}
               PROVE  link_generation'[b] < link_generation'[connections'[link_worker'[b]]]
    BY DEF LatestGeneration
  <2>1. b # c /\ link_worker'[b] = link_worker[b] /\ link_worker[b] \in Workers
    BY <1>2, <1>3, <1>6
  <2>2. CASE link_worker[b] = w
    <3>1. link_generation[b] <= generation[w]
      BY <2>1, <2>2, <1>1 DEF GenerationInv
    <3>2. QED
      BY <1>1, <1>2, <1>3, <1>4, <2>1, <2>2, <3>1, SMT
  <2>3. CASE link_worker[b] # w
    <3>1. /\ connections'[link_worker[b]] = connections[link_worker[b]]
          /\ connections[link_worker[b]] \in Conns \ {c}
      BY <1>2, <1>5, <2>1, <2>3
    <3>2. QED
      BY <1>3, <2>1, <3>1, SMT DEF GenerationInv, LatestGeneration
  <2>4. QED
    BY <2>2, <2>3
<1>10. QED
  BY <1>3, <1>7, <1>8, <1>9, SMT DEF GenerationInv

(* Every step keeps the generations in order. *)
LEMMA GenerationNext ==
  ASSUME IInv, LinkInv, GenerationInv, Next
  PROVE  GenerationInv'
<1> USE SchedulerAssumption, AsyncMasterAssumption
<1>1. TypeOK /\ PeerKnown
  BY DEF IInv
<1>2. ASSUME NEW c \in Conns, Handler(c) PROVE GenerationInv'
  <2>1. CASE ShutdownCloses(c) \/ HandlerExit(c)
    BY <1>1, <2>1, GenerationCleanup DEF ShutdownCloses, HandlerExit, Cleanup
  <2>2. CASE RegisterAccepted(c)
    BY <1>1, <2>2, GenerationRegister
  <2>3. CASE RegisterReplyLost(c)
    <3>1. /\ link_worker[c] = None /\ connections' = connections
          /\ link_worker'[c] = None /\ process'[c] = "none"
          /\ \A b \in Conns : b # c => /\ link_worker'[b] = link_worker[b]
                                       /\ link_generation'[b] = link_generation[b]
                                       /\ process'[b] = process[b]
      BY <1>1, <2>3 DEF RegisterReplyLost, Forget, TypeOK, GenerationInv
    <3>2. \A v \in Workers : /\ generation[v] \in Nat /\ generation'[v] \in Nat
                             /\ generation[v] <= generation'[v]
      BY <1>1, <2>3, SMT DEF RegisterReplyLost, register_worker, TypeOK, SchedulerTypeOK
    <3>3. \A v \in Workers : connections[v] \in Conns \cup {None} /\ connections[v] # c
      BY <1>1, <3>1, SMT DEF GenerationInv, TypeOK, Conns
    <3>4. \A b \in Conns : link_worker[b] \in Workers \cup {None} /\ link_generation[b] \in Nat
      BY <1>1 DEF TypeOK
    <3>5. LatestGeneration'
      BY <3>1, <3>3, <3>4, SMT DEF GenerationInv, LatestGeneration
    <3>6. \A b \in Conns :
            link_worker'[b] # None => link_generation'[b] <= generation'[link_worker'[b]]
      BY <3>1, <3>2, <3>4, SMT DEF GenerationInv
    <3>7. \A v \in Workers : connections'[v] # None => link_worker'[connections'[v]] = v
      BY <3>1, <3>3, SMT DEF GenerationInv
    <3>8. QED
      BY <3>1, <3>5, <3>6, <3>7, SMT DEF GenerationInv
  <2>4. CASE \/ RegisterRejected(c) \/ Heartbeat(c) \/ ShutdownWaits(c)
             \/ \E d \in Dispatches, r \in {"success", "error"} :
                  TaskResult(c, d, r)
    BY <1>1, <2>4, GenerationKept DEF RegisterRejected, Heartbeat, ShutdownWaits,
         TaskResult, link_vars, worker_vars, TypeOK
  <2>5. QED
    BY <1>2, <2>1, <2>2, <2>3, <2>4 DEF Handler
<1>3. ASSUME NEW c \in Conns, NEW w \in Workers, Connect(c, w) PROVE GenerationInv'
  <2>1. /\ link_worker[c] = None
        /\ \A b \in Conns : b # c => process'[b] = process[b]
    BY <1>1, <1>3 DEF Connect, LinkInv, TypeOK
  <2>2. QED
    BY <1>3, <2>1, GenerationKept DEF Connect, worker_vars
<1>4. ASSUME NEW d \in Dispatches, Dispatch(d) PROVE GenerationInv'
  BY <1>4, GenerationKept DEF Dispatch, DispatchRaises, DispatchUnsendable,
     DispatchSends, DispatchStale, DispatchLost, DispatchFinishes, DispatchClosesLink,
     DispatchCloseRaises, DispatchRecords, WorkerUnreachable, TaskFinishes,
     FailAndRequeue, complete_task, fail_task, link_vars, worker_vars
<1>5. CASE \/ \E t \in Tasks : submit(t)
           \/ \E t \in Tasks, w \in Workers : DispatcherAssigns(t, w)
           \/ \E c \in Conns : Crash(c)
           \/ \E w \in Workers : Silence(w)
           \/ failure_monitor
  BY <1>5, GenerationKept DEF submit, DispatcherAssigns, assign_next_pending_task,
     assign_task, Crash, Silence, failure_monitor, FailAndRequeue, link_vars, worker_vars
<1>6. QED
  BY <1>2, <1>3, <1>4, <1>5 DEF Next

(* Of the connections registered for one worker id, the one that           *)
(* dispatches use has the greatest generation, in whatever order older     *)
(* handlers return.                                                        *)
THEOREM LatestGenerationHolds == Spec => []LatestGeneration
<1>1. Init => LinkInv /\ GenerationInv
  BY SMT DEF Init, LinkInv, OpenLinkIsCurrent, GenerationInv, LatestGeneration
<1>2. IInv /\ LinkInv /\ GenerationInv /\ [Next]_vars => LinkInv' /\ GenerationInv'
  <2>1. ASSUME UNCHANGED vars, LinkInv, GenerationInv PROVE LinkInv' /\ GenerationInv'
    BY <2>1, LinkKept, GenerationKept DEF vars, link_vars, worker_vars
  <2>2. QED
    BY <2>1, LinkNext, GenerationNext
<1>3. GenerationInv => LatestGeneration
  BY DEF GenerationInv
<1>4. QED
  BY <1>1, <1>2, <1>3, Invariant, PTL DEF Spec

-----------------------------------------------------------------------------
(* A STOPPED worker has no connection in use, a FAILED one has no task,    *)
(* and a running task whose reply has not come awaits it on the connection *)
(* of its worker.                                                          *)
HeardInv ==
  /\ \A w \in Workers : worker_status[w] = "STOPPED" => connections[w] = None
  /\ \A t \in Tasks : status[t] \in InFlight =>
       worker_status[assigned_worker_id[t]] \notin {"FAILED", "ABSENT"}
  /\ \A d \in Dispatches :
       /\ dispatch[d].pc = "awaiting" /\ dispatch[d].reply = "none"
       /\ is_current_attempt(d)
       => /\ dispatch[d].link \in Conns
          /\ connections[dispatch[d].worker] = dispatch[d].link

(* The worker of such a task cannot be registered anew. *)
LEMMA HeardIsTaken ==
  ASSUME IInv, HeardInv, NEW d \in Dispatches, dispatch[d].pc = "awaiting",
         dispatch[d].reply = "none", is_current_attempt(d)
  PROVE  dispatch[d].worker \in Workers /\ ~CanRegister(dispatch[d].worker)
<1>1. dispatch[d].worker \in Workers
  BY DEF IInv, Core, AwaitingInv
<1>2. TaskOf(d) \in Tasks /\ status[TaskOf(d)] = "RUNNING"
  BY DispatchType DEF IInv, Core, CurrentIsRunning
<1>3. worker_status[dispatch[d].worker] \notin {"FAILED", "ABSENT"}
  BY <1>2 DEF HeardInv, is_current_attempt, InFlight
<1>4. worker_status[dispatch[d].worker] # "STOPPED"
  <2>1. connections[dispatch[d].worker] \in Conns /\ None \notin Conns
    BY AsyncMasterAssumption DEF HeardInv, Conns
  <2>2. QED
    BY <1>1, <2>1 DEF HeardInv
<1>5. QED
  BY <1>1, <1>3, <1>4 DEF CanRegister, REPLACEABLE_WORKER_STATUSES

(* A step that makes no attempt current again, and starts no dispatch. *)
LEMMA HeardKept ==
  ASSUME IInv, HeardInv, UNCHANGED <<connections, attempt>>,
         \A d \in Dispatches :
           dispatch'[d].pc = "awaiting" /\ dispatch'[d].reply = "none" =>
             dispatch'[d] = dispatch[d],
         \A t \in Tasks : assigned_worker_id'[t] \in {assigned_worker_id[t], None},
         \A t \in Tasks : status'[t] \in InFlight =>
           /\ status[t] \in InFlight
           /\ assigned_worker_id'[t] = assigned_worker_id[t]
           /\ worker_status'[assigned_worker_id[t]] \notin {"FAILED", "ABSENT"}
                                \ {worker_status[assigned_worker_id[t]]},
         \A w \in Workers : worker_status'[w] = "STOPPED" => worker_status[w] = "STOPPED"
  PROVE  HeardInv'
<1>1. \A w \in Workers : worker_status'[w] = "STOPPED" => connections'[w] = None
  BY DEF HeardInv
<1>2. \A t \in Tasks : status'[t] \in InFlight =>
        worker_status'[assigned_worker_id'[t]] \notin {"FAILED", "ABSENT"}
  BY DEF HeardInv
<1>3. ASSUME NEW d \in Dispatches, dispatch'[d].pc = "awaiting",
             dispatch'[d].reply = "none", is_current_attempt(d)'
      PROVE  /\ dispatch'[d].link \in Conns
             /\ connections'[dispatch'[d].worker] = dispatch'[d].link
  <2>1. dispatch'[d] = dispatch[d] /\ TaskOf(d) \in Tasks
    BY <1>3, DispatchType
  <2>2. dispatch[d].worker # None
    BY <1>3, <2>1, SchedulerAssumption DEF IInv, Core, AwaitingInv
  <2>3. is_current_attempt(d)
    BY <1>3, <2>1, <2>2 DEF is_current_attempt
  <2>4. /\ dispatch[d].link \in Conns
        /\ connections[dispatch[d].worker] = dispatch[d].link
    BY <1>3, <2>1, <2>3 DEF HeardInv
  <2>5. QED
    BY <2>1, <2>4
<1>4. QED
  BY <1>1, <1>2, <1>3 DEF HeardInv

(* Failing workers takes every task from them. *)
LEMMA HeardRequeues ==
  ASSUME IInv, HeardInv, NEW W \in SUBSET Workers, FailAndRequeue(W),
         UNCHANGED connections,
         \A d \in Dispatches :
           dispatch'[d].pc = "awaiting" /\ dispatch'[d].reply = "none" =>
             dispatch'[d] = dispatch[d]
  PROVE  HeardInv'
<1>1. \A w \in Workers : worker_status'[w] = IF w \in W THEN "FAILED" ELSE worker_status[w]
  BY DEF FailAndRequeue, update_status
<1>2. \A t \in Tasks : status'[t] \in InFlight =>
        /\ status[t] \in InFlight
        /\ assigned_worker_id[t] \notin W
        /\ assigned_worker_id'[t] = assigned_worker_id[t]
  BY DEF FailAndRequeue, requeue_tasks_for_workers, InFlightOn, Requeued, InFlight
<1>3. \A t \in Tasks : status[t] \in InFlight => assigned_worker_id[t] \in Workers
  BY DEF IInv, Core, TaskInv
<1>4. /\ UNCHANGED attempt
      /\ \A t \in Tasks : assigned_worker_id'[t] \in {assigned_worker_id[t], None}
  BY DEF FailAndRequeue, requeue_tasks_for_workers
<1>5. \A t \in Tasks : status'[t] \in InFlight =>
        worker_status'[assigned_worker_id[t]] = worker_status[assigned_worker_id[t]]
  BY <1>1, <1>2, <1>3
<1>6. \A w \in Workers : worker_status'[w] = "STOPPED" => worker_status[w] = "STOPPED"
  BY <1>1
<1>7. QED
  BY <1>2, <1>4, <1>5, <1>6, HeardKept

(* The end of a handler tells whoever awaits a reply on its link. *)
LEMMA HeardCleanup ==
  ASSUME IInv, HeardInv, NEW c \in Conns, NEW wstatus \in [Workers -> WorkerStatus \cup {"ABSENT"}],
         \A w \in Workers : wstatus[w] = worker_status[w] \/ wstatus[w] = "DRAINING",
         Cleanup(c, wstatus), UNCHANGED task_vars
  PROVE  HeardInv'
<1>1. TypeOK
  BY DEF IInv
<1>2. \A w \in Workers : connections'[w] = connections[w] \/
        (connections[w] = c /\ connections'[w] = None)
  BY <1>1 DEF Cleanup, IsCurrentLink, TypeOK
<1>3. \A w \in Workers :
        \/ worker_status'[w] = wstatus[w]
        \/ worker_status'[w] = "STOPPED" /\ connections'[w] = None
  <2>1. IsCurrentLink(c) => link_worker[c] \in Workers
    BY <1>1 DEF IsCurrentLink, TypeOK
  <2>2. QED
    BY <1>1, <2>1 DEF Cleanup, TypeOK
<1>4. \A w \in Workers : worker_status'[w] = "STOPPED" => connections'[w] = None
  BY <1>2, <1>3 DEF HeardInv
<1>5. \A t \in Tasks : status'[t] \in InFlight =>
        worker_status'[assigned_worker_id'[t]] \notin {"FAILED", "ABSENT"}
  <2>1. \A t \in Tasks : status[t] \in InFlight => assigned_worker_id[t] \in Workers
    BY DEF IInv, Core, TaskInv
  <2>2. UNCHANGED <<status, assigned_worker_id>>
    BY DEF task_vars
  <2>3. QED
    BY <1>3, <2>1, <2>2 DEF HeardInv
<1>6. ASSUME NEW d \in Dispatches, dispatch'[d].pc = "awaiting",
             dispatch'[d].reply = "none", is_current_attempt(d)'
      PROVE  /\ dispatch'[d].link \in Conns
             /\ connections'[dispatch'[d].worker] = dispatch'[d].link
  <2>1. dispatch[d] \in Coroutine
    BY <1>1 DEF TypeOK
  <2>2. dispatch'[d] = IF d \in Pending(c) /\ dispatch[d].reply = "none"
                       THEN [dispatch[d] EXCEPT !.reply = "lost"] ELSE dispatch[d]
    BY DEF Cleanup, fail_pending
  <2>3. ~(d \in Pending(c) /\ dispatch[d].reply = "none")
    <3>1. SUFFICES ASSUME dispatch'[d] = [dispatch[d] EXCEPT !.reply = "lost"] PROVE FALSE
      BY <2>2
    <3>2. dispatch'[d].reply = "lost"
      BY <2>1, <3>1 DEF Coroutine
    <3>3. QED
      BY <1>6, <3>2
  <2>4. dispatch'[d] = dispatch[d]
    BY <2>2, <2>3
  <2>5. is_current_attempt(d)
    BY <1>6, <2>4 DEF is_current_attempt, task_vars
  <2>6. dispatch[d].link # c
    BY <1>6, <2>3, <2>4 DEF Pending
  <2>7. /\ dispatch[d].link \in Conns /\ dispatch[d].worker \in Workers
        /\ connections[dispatch[d].worker] = dispatch[d].link
    BY <1>6, <2>4, <2>5, HeardIsTaken DEF HeardInv
  <2>8. QED
    BY <1>2, <2>4, <2>6, <2>7
<1>7. QED
  BY <1>4, <1>5, <1>6 DEF HeardInv

(* A REGISTER is accepted only for a worker no running task waits for. *)
LEMMA HeardRegister ==
  ASSUME IInv, HeardInv, NEW w \in Workers, register_worker(w),
         \A v \in Workers : v # w => connections'[v] = connections[v],
         UNCHANGED <<task_vars, dispatch>>
  PROVE  HeardInv'
<1>1. /\ CanRegister(w)
      /\ worker_status'[w] = "IDLE"
      /\ \A v \in Workers : v # w => worker_status'[v] = worker_status[v]
  BY DEF register_worker, IInv, TypeOK, SchedulerTypeOK
<1>2. \A v \in Workers : worker_status'[v] = "STOPPED" => connections'[v] = None
  BY <1>1 DEF HeardInv
<1>3. \A t \in Tasks : status'[t] \in InFlight =>
        worker_status'[assigned_worker_id'[t]] \notin {"FAILED", "ABSENT"}
  <2>1. \A t \in Tasks : status[t] \in InFlight => assigned_worker_id[t] \in Workers
    BY DEF IInv, Core, TaskInv
  <2>2. UNCHANGED <<status, assigned_worker_id>>
    BY DEF task_vars
  <2>3. QED
    BY <1>1, <2>1, <2>2 DEF HeardInv
<1>4. ASSUME NEW d \in Dispatches, dispatch'[d].pc = "awaiting",
             dispatch'[d].reply = "none", is_current_attempt(d)'
      PROVE  /\ dispatch'[d].link \in Conns
             /\ connections'[dispatch'[d].worker] = dispatch'[d].link
  <2>1. is_current_attempt(d)
    BY <1>4 DEF is_current_attempt, task_vars
  <2>2. dispatch[d].worker \in Workers /\ ~CanRegister(dispatch[d].worker)
    BY <1>4, <2>1, HeardIsTaken
  <2>3. dispatch[d].worker # w
    BY <1>1, <2>2
  <2>4. QED
    BY <1>4, <2>1, <2>2, <2>3 DEF HeardInv
<1>5. QED
  BY <1>2, <1>3, <1>4 DEF HeardInv

LEMMA HeardHandler ==
  ASSUME IInv, HeardInv, NEW c \in Conns, Handler(c)
  PROVE  HeardInv'
<1>1. TypeOK /\ PeerKnown
  BY DEF IInv
<1>2. CASE RegisterAccepted(c) \/ RegisterReplyLost(c)
  <2>1. peer[c] \in Workers /\ register_worker(peer[c])
    BY <1>1, <1>2 DEF RegisterAccepted, RegisterReplyLost, PeerKnown
  <2>2. /\ \A v \in Workers : v # peer[c] => connections'[v] = connections[v]
        /\ UNCHANGED <<task_vars, dispatch>>
    BY <1>1, <1>2 DEF RegisterAccepted, RegisterReplyLost, Installed, TypeOK
  <2>3. QED
    BY <2>1, <2>2, HeardRegister
<1>3. CASE ShutdownCloses(c) \/ HandlerExit(c)
  <2>1. PICK wstatus \in {worker_status, handle_shutdown(peer[c])} : Cleanup(c, wstatus)
    BY <1>3 DEF ShutdownCloses, HandlerExit
  <2>2. /\ wstatus \in [Workers -> WorkerStatus \cup {"ABSENT"}]
        /\ \A w \in Workers : wstatus[w] = worker_status[w] \/ wstatus[w] = "DRAINING"
    BY <1>1 DEF handle_shutdown, TypeOK, SchedulerTypeOK, WorkerStatus
  <2>3. UNCHANGED task_vars
    BY <1>3 DEF ShutdownCloses, HandlerExit
  <2>4. QED
    BY <2>1, <2>2, <2>3, HeardCleanup
<1>4. CASE ShutdownWaits(c)
  <2>1. \A w \in Workers : worker_status'[w] = worker_status[w] \/ worker_status'[w] = "DRAINING"
    BY <1>1, <1>4 DEF ShutdownWaits, handle_shutdown, TypeOK, SchedulerTypeOK
  <2>2. UNCHANGED <<status, assigned_worker_id, attempt, connections, dispatch>>
    BY <1>4 DEF ShutdownWaits, task_vars
  <2>3. \A t \in Tasks : status[t] \in InFlight => assigned_worker_id[t] \in Workers
    BY DEF IInv, Core, TaskInv
  <2>4. \A t \in Tasks : status'[t] \in InFlight =>
          /\ status[t] \in InFlight
          /\ assigned_worker_id'[t] = assigned_worker_id[t]
          /\ worker_status'[assigned_worker_id[t]] \notin {"FAILED", "ABSENT"}
                               \ {worker_status[assigned_worker_id[t]]}
    BY <2>1, <2>2, <2>3
  <2>5. \A w \in Workers : worker_status'[w] = "STOPPED" => worker_status[w] = "STOPPED"
    BY <2>1
  <2>6. QED
    BY <2>2, <2>4, <2>5, HeardKept
<1>5. CASE \/ RegisterRejected(c) \/ Heartbeat(c)
           \/ \E d \in Dispatches, r \in {"success", "error"} : TaskResult(c, d, r)
  <2>1. UNCHANGED <<status, assigned_worker_id, attempt, connections, worker_status>>
    BY <1>5 DEF RegisterRejected, Heartbeat, TaskResult, task_vars, worker_vars, link_vars
  <2>2. \A d \in Dispatches :
          dispatch'[d].pc = "awaiting" /\ dispatch'[d].reply = "none" =>
            dispatch'[d] = dispatch[d]
    <3>1. CASE RegisterRejected(c) \/ Heartbeat(c)
      BY <3>1 DEF RegisterRejected, Heartbeat
    <3>2. ASSUME NEW e \in Dispatches, NEW r \in {"success", "error"}, TaskResult(c, e, r),
                 NEW d \in Dispatches, dispatch'[d].reply = "none"
          PROVE  dispatch'[d] = dispatch[d]
      BY <1>1, <3>2 DEF TaskResult, TypeOK, Coroutine
    <3>3. QED
      BY <1>5, <3>1, <3>2
  <2>3. QED
    BY <2>1, <2>2, HeardKept
<1>6. QED
  BY <1>2, <1>3, <1>4, <1>5 DEF Handler

LEMMA HeardDispatch ==
  ASSUME IInv, HeardInv, NEW d \in Dispatches, Dispatch(d)
  PROVE  HeardInv'
<1> DEFINE t == TaskOf(d)
<1>1. TypeOK /\ t \in Tasks
  BY DispatchType DEF IInv
<1>2. Done.pc = "done"
  BY DEF Done, Idle
<1>3. ASSUME dispatch' = [dispatch EXCEPT ![d] = Done]
      PROVE  \A e \in Dispatches :
               dispatch'[e].pc = "awaiting" /\ dispatch'[e].reply = "none" =>
                 dispatch'[e] = dispatch[e]
  BY <1>1, <1>2, <1>3 DEF TypeOK
<1>4. CASE DispatchRaises(d) \/ DispatchStale(d) \/ DispatchRecords(d)
  <2>1. /\ UNCHANGED <<status, assigned_worker_id, attempt, connections, worker_status>>
        /\ dispatch' = [dispatch EXCEPT ![d] = Done]
    BY <1>4 DEF DispatchRaises, DispatchStale, DispatchRecords, task_vars, worker_vars, link_vars
  <2>2. QED
    BY <1>3, <2>1, HeardKept
<1>5. CASE DispatchUnsendable(d) \/ DispatchLost(d)
  <2>1. PICK w \in Workers : /\ FailAndRequeue({w}) /\ UNCHANGED link_vars
                             /\ dispatch' = [dispatch EXCEPT ![d] = Done]
    <3>1. CASE DispatchUnsendable(d)
      <4>1. assigned_worker_id[t] \in Workers
        BY <1>1, <3>1 DEF DispatchUnsendable, IInv, Core, TaskInv, InFlight
      <4>2. QED
        BY <3>1, <4>1 DEF DispatchUnsendable, WorkerUnreachable
    <3>2. CASE DispatchLost(d)
      <4>1. dispatch[d].worker \in Workers
        BY <3>2 DEF DispatchLost, Resumes, IInv, Core, AwaitingInv
      <4>2. QED
        BY <3>2, <4>1 DEF DispatchLost, WorkerUnreachable
    <3>3. QED
      BY <1>5, <3>1, <3>2
  <2>2. {w} \in SUBSET Workers /\ UNCHANGED connections
    BY <2>1 DEF link_vars
  <2>3. QED
    BY <1>3, <2>1, <2>2, HeardRequeues
<1>6. CASE DispatchFinishes(d) \/ DispatchClosesLink(d) \/ DispatchCloseRaises(d)
  <2> DEFINE w == assigned_worker_id[t]
  <2>1. TaskFinishes(d) /\ UNCHANGED connections
    BY <1>6 DEF DispatchFinishes, DispatchClosesLink, DispatchCloseRaises, link_vars
  <2>2. dispatch' = [dispatch EXCEPT ![d] = Done] \/ dispatch' = [dispatch EXCEPT ![d].pc = "closing"]
    BY <1>6 DEF DispatchFinishes, DispatchClosesLink, DispatchCloseRaises
  <2>3. \A e \in Dispatches :
          dispatch'[e].pc = "awaiting" /\ dispatch'[e].reply = "none" =>
            dispatch'[e] = dispatch[e]
    <3>1. ASSUME dispatch' = [dispatch EXCEPT ![d].pc = "closing"],
                 NEW e \in Dispatches, dispatch'[e].pc = "awaiting"
          PROVE  dispatch'[e] = dispatch[e]
      BY <1>1, <3>1 DEF TypeOK, Coroutine
    <3>2. QED
      BY <1>3, <2>2, <3>1
  <2>4. w \in Workers
    BY <2>1 DEF TaskFinishes, Resumes, is_current_attempt, IInv, Core, AwaitingInv
  <2>5. /\ worker_status' = release_worker(w)
        /\ UNCHANGED <<assigned_worker_id, attempt>>
        /\ status'[t] \in Terminal
        /\ \A u \in Tasks : u # t => status'[u] = status[u]
    BY <1>1, <2>1 DEF TaskFinishes, complete_task, fail_task, TypeOK, SchedulerTypeOK, Terminal
  <2> HIDE DEF w
  <2>6. \A v \in Workers : worker_status'[v] = worker_status[v] \/ worker_status'[v] = "IDLE"
    BY <1>1, <2>4, <2>5 DEF release_worker, TypeOK, SchedulerTypeOK
  <2>7. \A u \in Tasks : status[u] \in InFlight => assigned_worker_id[u] \in Workers
    BY DEF IInv, Core, TaskInv
  <2>8. \A u \in Tasks : status'[u] \in InFlight => status[u] \in InFlight
    BY <2>5 DEF InFlight, Terminal
  <2>9. \A u \in Tasks : status'[u] \in InFlight =>
          worker_status'[assigned_worker_id[u]] \notin {"FAILED", "ABSENT"}
                               \ {worker_status[assigned_worker_id[u]]}
    BY <2>6, <2>7, <2>8
  <2>10. \A v \in Workers : worker_status'[v] = "STOPPED" => worker_status[v] = "STOPPED"
    BY <2>6
  <2>11. QED
    BY <2>1, <2>3, <2>5, <2>8, <2>9, <2>10, HeardKept
<1>7. CASE DispatchSends(d)
  <2> DEFINE w == assigned_worker_id[t]
  <2>1. /\ UNCHANGED <<assigned_worker_id, attempt, connections, worker_status>>
        /\ \A u \in Tasks : status'[u] \in InFlight => status[u] \in InFlight
    BY <1>1, <1>7 DEF DispatchSends, start_task, worker_vars, link_vars, TypeOK,
                      SchedulerTypeOK, InFlight
  <2>2. status[t] \in InFlight /\ connections[w] # None
    BY <1>7 DEF DispatchSends, start_task, InFlight
  <2>3. w \in Workers /\ connections[w] \in Conns
    BY <1>1, <2>2 DEF IInv, Core, TaskInv, TypeOK
  <2>4. /\ dispatch'[d].worker = w /\ dispatch'[d].link = connections[w]
        /\ \A e \in Dispatches : e # d => dispatch'[e] = dispatch[e]
    BY <1>1, <1>7 DEF DispatchSends, TypeOK
  <2>5. ASSUME NEW e \in Dispatches, dispatch'[e].pc = "awaiting",
               dispatch'[e].reply = "none", is_current_attempt(e)'
        PROVE  /\ dispatch'[e].link \in Conns
               /\ connections'[dispatch'[e].worker] = dispatch'[e].link
    <3>1. CASE e = d
      BY <2>1, <2>3, <2>4, <3>1
    <3>2. CASE e # d
      <4>1. is_current_attempt(e)
        BY <2>1, <2>4, <2>5, <3>2 DEF is_current_attempt
      <4>2. QED
        BY <2>1, <2>4, <2>5, <3>2, <4>1 DEF HeardInv
    <3>3. QED
      BY <3>1, <3>2
  <2>6. QED
    BY <2>1, <2>5 DEF HeardInv
<1>8. QED
  BY <1>4, <1>5, <1>6, <1>7 DEF Dispatch

(* An assignment makes a new attempt, which no dispatch awaits yet. *)
LEMMA HeardAssigns ==
  ASSUME IInv, HeardInv, NEW t \in Tasks, NEW w \in Workers, DispatcherAssigns(t, w)
  PROVE  HeardInv'
<1>1. TypeOK
  BY DEF IInv
<1>2. assign_task(t, w) /\ worker_status[w] = "IDLE" /\ UNCHANGED connections
  BY DEF DispatcherAssigns, assign_next_pending_task, FirstIdle, link_vars
<1>3. /\ assigned_worker_id'[t] = w
      /\ attempt'[t] = attempt[t] + 1
      /\ \A u \in Tasks : u # t => /\ status'[u] = status[u]
                                   /\ assigned_worker_id'[u] = assigned_worker_id[u]
                                   /\ attempt'[u] = attempt[u]
      /\ worker_status'[w] = "BUSY"
      /\ \A v \in Workers : v # w => worker_status'[v] = worker_status[v]
  BY <1>1, <1>2 DEF assign_task, TypeOK, SchedulerTypeOK
<1>4. \A v \in Workers : worker_status'[v] = "STOPPED" => connections'[v] = None
  BY <1>2, <1>3 DEF HeardInv
<1>5. \A u \in Tasks : status'[u] \in InFlight =>
        worker_status'[assigned_worker_id'[u]] \notin {"FAILED", "ABSENT"}
  <2>1. \A u \in Tasks : status[u] \in InFlight => assigned_worker_id[u] \in Workers
    BY DEF IInv, Core, TaskInv
  <2>2. \A u \in Tasks : u # t /\ status'[u] \in InFlight =>
          worker_status'[assigned_worker_id[u]] \notin {"FAILED", "ABSENT"}
    BY <1>3, <2>1 DEF HeardInv
  <2>3. QED
    BY <1>3, <2>2
<1>6. ASSUME NEW d \in Dispatches, dispatch'[d].pc = "awaiting",
             dispatch'[d].reply = "none", is_current_attempt(d)'
      PROVE  /\ dispatch'[d].link \in Conns
             /\ connections'[dispatch'[d].worker] = dispatch'[d].link
  <2>1. [Idle EXCEPT !.pc = "spawned"].pc = "spawned"
    BY DEF Idle
  <2>2. dispatch'[d] = dispatch[d] /\ TaskOf(d) \in Tasks
    BY <1>1, <1>6, <2>1, DispatchType DEF DispatcherAssigns, TypeOK
  <2>3. TaskOf(d) # t
    <3>1. dispatch[d].attempt <= attempt[TaskOf(d)]
      BY <1>6, <2>2 DEF IInv, Core, AwaitingInv
    <3>2. dispatch[d].attempt \in Nat /\ attempt[t] \in Nat
      BY <1>1, SchedulerAssumption, SMT DEF TypeOK, SchedulerTypeOK, Coroutine
    <3>3. attempt'[TaskOf(d)] = dispatch[d].attempt
      BY <1>6, <2>2 DEF is_current_attempt
    <3>4. QED
      BY <1>3, <3>1, <3>2, <3>3, SMT
  <2>4. is_current_attempt(d)
    BY <1>3, <1>6, <2>2, <2>3 DEF is_current_attempt
  <2>5. QED
    BY <1>2, <1>6, <2>2, <2>4 DEF HeardInv
<1>7. QED
  BY <1>4, <1>5, <1>6 DEF HeardInv

LEMMA HeardNext ==
  ASSUME IInv, HeardInv, Next
  PROVE  HeardInv'
<1>1. ASSUME NEW t \in Tasks, submit(t) PROVE HeardInv'
  <2>1. /\ UNCHANGED <<assigned_worker_id, attempt, connections, worker_status, dispatch>>
        /\ \A u \in Tasks : status'[u] \in InFlight => status[u] \in InFlight
    BY <1>1 DEF submit, submit_task, worker_vars, link_vars, IInv, TypeOK,
                SchedulerTypeOK, InFlight
  <2>2. QED
    BY <2>1, HeardKept
<1>2. CASE \/ \E c \in Conns, w \in Workers : Connect(c, w)
           \/ \E c \in Conns : Crash(c)
           \/ \E w \in Workers : Silence(w)
  <2>1. UNCHANGED <<status, assigned_worker_id, attempt, connections, worker_status, dispatch>>
    BY <1>2 DEF Connect, Crash, Silence, task_vars, worker_vars, link_vars
  <2>2. QED
    BY <2>1, HeardKept
<1>3. CASE failure_monitor
  <2>1. /\ StaleWorkers \in SUBSET Workers /\ FailAndRequeue(StaleWorkers)
        /\ UNCHANGED <<connections, dispatch>>
    BY <1>3 DEF StaleWorkers, failure_monitor, link_vars
  <2>2. QED
    BY <2>1, HeardRequeues
<1>4. QED
  BY <1>1, <1>2, <1>3, HeardHandler, HeardDispatch, HeardAssigns DEF Next

(* The reply of a running task is awaited on the connection of its worker: *)
(* REGISTER is refused for a worker that has a task in flight, failing a   *)
(* worker takes its tasks away, and a handler that ends tells whoever      *)
(* awaits a reply on its link.                                             *)
THEOREM RunningIsHeardHolds == Spec => []RunningIsHeard
<1>1. Init => HeardInv
  BY SMT DEF Init, SchedulerInit, HeardInv, InFlight, Idle
<1>2. IInv /\ HeardInv /\ [Next]_vars => HeardInv'
  <2>1. ASSUME UNCHANGED vars, IInv, HeardInv PROVE HeardInv'
    BY <2>1, HeardKept DEF vars, task_vars, worker_vars, link_vars
  <2>2. QED
    BY <2>1, HeardNext
<1>3. HeardInv => RunningIsHeard
  BY DEF HeardInv, RunningIsHeard
<1>4. QED
  BY <1>1, <1>2, <1>3, Invariant, PTL DEF Spec

-----------------------------------------------------------------------------
(* Workers and the tasks they hold, while no worker asks to leave.         *)
HolderInv ==
  /\ \A w \in Workers : worker_status[w] \notin {"DRAINING", "STOPPED"}
  /\ HolderIsWorking
  /\ OneTaskPerWorker

(* The holder of a task that is in flight is BUSY. *)
LEMMA HolderIsBusy ==
  ASSUME IInv, HolderInv, NEW t \in Tasks, status[t] \in InFlight
  PROVE  assigned_worker_id[t] \in Workers /\ worker_status[assigned_worker_id[t]] = "BUSY"
<1>1. assigned_worker_id[t] \in Workers
  BY DEF IInv, Core, TaskInv
<1>2. QED
  BY <1>1 DEF HolderInv, HolderIsWorking

(* A step that puts no task in flight and moves none, and changes only     *)
(* workers that hold none.                                                 *)
LEMMA HolderKept ==
  ASSUME IInv, HolderInv,
         \A t \in Tasks : status'[t] \in InFlight =>
           /\ status[t] \in InFlight
           /\ assigned_worker_id'[t] = assigned_worker_id[t]
           /\ worker_status'[assigned_worker_id[t]] = worker_status[assigned_worker_id[t]],
         \A w \in Workers : worker_status'[w] \notin {"DRAINING", "STOPPED"}
  PROVE  HolderInv'
<1>1. HolderIsWorking'
  BY DEF HolderInv, HolderIsWorking
<1>2. OneTaskPerWorker'
  BY DEF HolderInv, OneTaskPerWorker, InFlightOn
<1>3. QED
  BY <1>1, <1>2 DEF HolderInv

(* Failing workers takes every task from them. *)
LEMMA HolderRequeues ==
  ASSUME IInv, HolderInv, NEW W \in SUBSET Workers, FailAndRequeue(W)
  PROVE  HolderInv'
<1>1. TypeOK
  BY DEF IInv
<1>2. \A w \in Workers : worker_status'[w] = IF w \in W THEN "FAILED" ELSE worker_status[w]
  BY DEF FailAndRequeue, update_status
<1>3. \A t \in Tasks : status'[t] \in InFlight =>
        /\ status[t] \in InFlight
        /\ assigned_worker_id[t] \notin W
        /\ assigned_worker_id'[t] = assigned_worker_id[t]
  BY DEF FailAndRequeue, requeue_tasks_for_workers, InFlightOn, Requeued, InFlight
<1>4. \A t \in Tasks : status[t] \in InFlight => assigned_worker_id[t] \in Workers
  BY HolderIsBusy
<1>5. \A w \in Workers : worker_status'[w] \notin {"DRAINING", "STOPPED"}
  BY <1>2 DEF HolderInv
<1>6. QED
  BY <1>2, <1>3, <1>4, <1>5, HolderKept

(* A handler changes the worker table only when it registers a worker,     *)
(* which then holds no task.                                               *)
LEMMA HolderHandler ==
  ASSUME "shutdown" \notin Faults, IInv, HolderInv, NEW c \in Conns, Handler(c)
  PROVE  HolderInv'
<1>1. TypeOK
  BY DEF IInv
<1>2. UNCHANGED <<status, assigned_worker_id>>
  BY DEF Handler, RegisterRejected, RegisterAccepted, RegisterReplyLost,
     Heartbeat, ShutdownCloses, ShutdownWaits, TaskResult, HandlerExit, task_vars
<1>3. CASE RegisterAccepted(c) \/ RegisterReplyLost(c)
  <2>1. PICK w : register_worker(w)
    BY <1>3 DEF RegisterAccepted, RegisterReplyLost
  <2>2. worker_status[w] # "BUSY"
    BY <2>1 DEF register_worker, CanRegister, REPLACEABLE_WORKER_STATUSES
  <2>3. \A v \in Workers : /\ v # w => worker_status'[v] = worker_status[v]
                           /\ worker_status'[v] \in {"IDLE", worker_status[v]}
    BY <1>1, <2>1 DEF register_worker, TypeOK, SchedulerTypeOK
  <2>4. \A t \in Tasks : status[t] \in InFlight =>
          worker_status'[assigned_worker_id[t]] = worker_status[assigned_worker_id[t]]
    BY <2>2, <2>3, HolderIsBusy
  <2>5. \A v \in Workers : worker_status'[v] \notin {"DRAINING", "STOPPED"}
    BY <2>3 DEF HolderInv
  <2>6. QED
    BY <1>2, <2>4, <2>5, HolderKept
<1>4. CASE HandlerExit(c)
  <2>1. worker_status' = worker_status
    <3>1. IsCurrentLink(c) => link_worker[c] \in Workers
      BY <1>1 DEF IsCurrentLink, TypeOK
    <3>2. QED
      BY <1>4, <3>1 DEF HandlerExit, Cleanup, HolderInv
  <2>2. QED
    BY <1>2, <2>1, HolderKept DEF HolderInv
<1>5. CASE \/ RegisterRejected(c) \/ Heartbeat(c)
           \/ \E d \in Dispatches, r \in {"success", "error"} : TaskResult(c, d, r)
  BY <1>2, <1>5, HolderKept DEF RegisterRejected, Heartbeat, TaskResult, worker_vars, HolderInv
<1>6. QED
  BY <1>3, <1>4, <1>5 DEF Handler, ShutdownCloses, ShutdownWaits

(* The end of a task releases its holder, and nobody else. *)
LEMMA HolderFinishes ==
  ASSUME IInv, HolderInv, NEW d \in Dispatches, TaskFinishes(d)
  PROVE  HolderInv'
<1> DEFINE t == TaskOf(d)
           w == assigned_worker_id[t]
<1>1. TypeOK /\ t \in Tasks
  BY DispatchType DEF IInv
<1>2. status[t] \in InFlight
  BY DEF TaskFinishes, Resumes, IInv, Core, CurrentIsRunning, InFlight
<1>3. w \in Workers /\ w # None /\ worker_status[w] = "BUSY"
  BY <1>1, <1>2, HolderIsBusy, SchedulerAssumption
<1>4. /\ worker_status' = release_worker(w)
      /\ assigned_worker_id' = assigned_worker_id
      /\ status'[t] \in Terminal
      /\ \A u \in Tasks : u # t => status'[u] = status[u]
  BY <1>1 DEF TaskFinishes, complete_task, fail_task, TypeOK, SchedulerTypeOK, Terminal
<1>5. \A v \in Workers : /\ v # w => worker_status'[v] = worker_status[v]
                         /\ worker_status'[v] \in {"IDLE", worker_status[v]}
  BY <1>1, <1>3, <1>4 DEF release_worker, TypeOK, SchedulerTypeOK
<1>6. \A u \in Tasks : u # t /\ status[u] \in InFlight =>
        assigned_worker_id[u] # w /\ assigned_worker_id[u] \in Workers
  BY <1>1, <1>2, HolderIsBusy DEF HolderInv, OneTaskPerWorker, InFlightOn
<1> HIDE DEF w
<1>7. \A u \in Tasks : status'[u] \in InFlight =>
        /\ status[u] \in InFlight
        /\ assigned_worker_id'[u] = assigned_worker_id[u]
        /\ worker_status'[assigned_worker_id[u]] = worker_status[assigned_worker_id[u]]
  <2> SUFFICES ASSUME NEW u \in Tasks, status'[u] \in InFlight
               PROVE  /\ status[u] \in InFlight
                      /\ worker_status'[assigned_worker_id[u]] = worker_status[assigned_worker_id[u]]
    BY <1>4
  <2>1. u # t /\ status[u] \in InFlight
    BY <1>4 DEF InFlight, Terminal
  <2>2. QED
    BY <1>5, <1>6, <2>1
<1>8. \A v \in Workers : worker_status'[v] \notin {"DRAINING", "STOPPED"}
  BY <1>5 DEF HolderInv
<1>9. QED
  BY <1>7, <1>8, HolderKept

(* Every step keeps one task per worker, if no worker asks to leave. *)
LEMMA HolderNext ==
  ASSUME "shutdown" \notin Faults, IInv, HolderInv, Next
  PROVE  HolderInv'
<1>1. TypeOK /\ Core
  BY DEF IInv
<1>2. ASSUME NEW t \in Tasks, submit(t) PROVE HolderInv'
  <2>1. /\ UNCHANGED <<assigned_worker_id, worker_status>>
        /\ \A u \in Tasks : status'[u] \in InFlight => status[u] \in InFlight
    BY <1>1, <1>2 DEF submit, submit_task, worker_vars, TypeOK, SchedulerTypeOK, InFlight
  <2>2. QED
    BY <2>1, HolderKept DEF HolderInv
<1>3. ASSUME NEW t \in Tasks, NEW w \in Workers, DispatcherAssigns(t, w)
      PROVE  HolderInv'
  <2>1. assign_task(t, w) /\ status[t] = "PENDING" /\ worker_status[w] = "IDLE"
    BY <1>3 DEF DispatcherAssigns, assign_next_pending_task, OldestPending, FirstIdle
  <2>2. /\ status'[t] = "ASSIGNED" /\ assigned_worker_id'[t] = w
        /\ \A u \in Tasks : u # t => /\ status'[u] = status[u]
                                     /\ assigned_worker_id'[u] = assigned_worker_id[u]
        /\ worker_status'[w] = "BUSY"
        /\ \A v \in Workers : v # w => worker_status'[v] = worker_status[v]
    BY <1>1, <2>1 DEF assign_task, TypeOK, SchedulerTypeOK
  <2>3. \A u \in Tasks : status[u] \in InFlight =>
          /\ assigned_worker_id[u] \in Workers \ {w}
          /\ worker_status[assigned_worker_id[u]] = "BUSY"
    BY <2>1, HolderIsBusy
  <2>4. HolderIsWorking'
    BY <2>2, <2>3, SMT DEF HolderIsWorking
  <2>5. OneTaskPerWorker'
    BY <2>2, <2>3, SMT DEF HolderInv, OneTaskPerWorker, InFlightOn
  <2>6. QED
    BY <2>2, <2>4, <2>5 DEF HolderInv
<1>4. ASSUME NEW d \in Dispatches, Dispatch(d) PROVE HolderInv'
  <2>1. CASE DispatchRaises(d) \/ DispatchStale(d) \/ DispatchRecords(d)
    BY <2>1, HolderKept DEF DispatchRaises, DispatchStale, DispatchRecords,
                            task_vars, worker_vars, HolderInv
  <2>2. CASE DispatchSends(d)
    <3>1. /\ \A u \in Tasks : status'[u] \in InFlight => status[u] \in InFlight
          /\ UNCHANGED <<assigned_worker_id, worker_status>>
      BY <1>1, <2>2 DEF DispatchSends, start_task, worker_vars, TypeOK,
                        SchedulerTypeOK, InFlight
    <3>2. QED
      BY <3>1, HolderKept DEF HolderInv
  <2>3. CASE DispatchUnsendable(d)
    <3>1. assigned_worker_id[TaskOf(d)] \in Workers
      BY <1>1, <2>3, DispatchType DEF DispatchUnsendable, Core, TaskInv, InFlight
    <3>2. FailAndRequeue({assigned_worker_id[TaskOf(d)]})
      BY <2>3 DEF DispatchUnsendable, WorkerUnreachable
    <3>3. QED
      BY <3>1, <3>2, HolderRequeues
  <2>4. CASE DispatchLost(d)
    <3>1. dispatch[d].worker \in Workers
      BY <1>1, <2>4 DEF DispatchLost, Resumes, Core, AwaitingInv
    <3>2. FailAndRequeue({dispatch[d].worker})
      BY <2>4 DEF DispatchLost, WorkerUnreachable
    <3>3. QED
      BY <3>1, <3>2, HolderRequeues, SMTT(30)
  <2>5. CASE DispatchFinishes(d) \/ DispatchClosesLink(d) \/ DispatchCloseRaises(d)
    BY <2>5, HolderFinishes DEF DispatchFinishes, DispatchClosesLink, DispatchCloseRaises
  <2>6. QED
    BY <1>4, <2>1, <2>2, <2>3, <2>4, <2>5 DEF Dispatch
<1>5. ASSUME NEW c \in Conns, Handler(c) PROVE HolderInv'
  BY <1>5, HolderHandler
<1>6. CASE \/ \E c \in Conns, w \in Workers : Connect(c, w)
           \/ \E c \in Conns : Crash(c)
           \/ \E w \in Workers : Silence(w)
  BY <1>6, HolderKept DEF Connect, Crash, Silence, task_vars, worker_vars, HolderInv
<1>7. CASE failure_monitor
  <2>1. StaleWorkers \in SUBSET Workers /\ FailAndRequeue(StaleWorkers)
    BY <1>7 DEF StaleWorkers, failure_monitor
  <2>2. QED
    BY <2>1, HolderRequeues
<1>8. QED
  BY <1>2, <1>3, <1>4, <1>5, <1>6, <1>7 DEF Next

(* While no worker asks to leave, tasks and their holders agree. *)
LEMMA HolderInvariant ==
  ASSUME "shutdown" \notin Faults
  PROVE  Spec => []HolderInv
<1>1. Init => HolderInv
  BY SMT DEF Init, SchedulerInit, HolderInv, HolderIsWorking, OneTaskPerWorker, InFlight
<1>2. IInv /\ HolderInv /\ [Next]_vars => HolderInv'
  <2>1. ASSUME UNCHANGED vars, IInv, HolderInv PROVE HolderInv'
    BY <2>1, HolderKept DEF vars, task_vars, worker_vars, HolderInv
  <2>2. QED
    BY <2>1, HolderNext
<1>3. QED
  BY <1>1, <1>2, Invariant, PTL DEF Spec

(* As long as no worker asks to leave, a worker holds one task at a time,  *)
(* whatever crashes, silences and duplicate registrations there are.       *)
THEOREM OneTaskPerWorkerHolds ==
  ASSUME "shutdown" \notin Faults
  PROVE  Spec => []OneTaskPerWorker
<1>1. HolderInv => OneTaskPerWorker
  BY DEF HolderInv
<1>2. QED
  BY <1>1, HolderInvariant, PTL

(* As long as no worker asks to leave, a worker that is IDLE or FAILED     *)
(* holds no task: assign_task cannot give a worker a second one.           *)
THEOREM HolderIsWorkingHolds ==
  ASSUME "shutdown" \notin Faults
  PROVE  Spec => []HolderIsWorking
<1>1. HolderInv => HolderIsWorking
  BY DEF HolderInv
<1>2. QED
  BY <1>1, HolderInvariant, PTL

=============================================================================
