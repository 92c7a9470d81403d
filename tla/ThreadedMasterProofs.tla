------------------------- MODULE ThreadedMasterProofs -------------------------
(***************************************************************************)
(* Proofs about the threaded master: who may talk to a worker, the tasks   *)
(* of a failed worker, what is left when the drain returns, when the       *)
(* failure monitor may die, and the life cycle of every task; for every    *)
(* number of tasks, workers and attempts.                                  *)
(***************************************************************************)
EXTENDS ThreadedMaster, TLAPS

(* Most leaves are first-order: they are Zenon's unless they name a prover. *)
USE Zenon

-----------------------------------------------------------------------------
(* The inductive invariant. *)

(* No task was assigned yet. *)
Fresh == \A t \in Tasks : attempt[t] = 0

Found == {found[i] : i \in DOMAIN found}

(* The task of a thread was taken away by the monitor. *)
TakenAway(t) ==
  /\ assigned_worker_id[t] = None
  /\ status[t] \in {"PENDING", "FAILED"}

(* The worker that thread t talks to, or is about to. *)
Peer(t) ==
  IF thread[t] = "started" THEN assigned_worker_id[t] ELSE captured[t].worker

TaskInv(t) ==
  /\ attempt[t] = 0 => /\ status[t] \in {"ABSENT", "PENDING"}
                       /\ thread[t] = "none" /\ assigned_worker_id[t] = None
  /\ status[t] = "ABSENT" => attempt[t] = 0
  /\ status[t] = "PENDING" => /\ attempt[t] < MAX_TASK_ATTEMPTS
                              /\ assigned_worker_id[t] = None
  /\ status[t] \in InFlight => assigned_worker_id[t] \in Workers

(* A task is in flight exactly while a thread has it for its own; a thread *)
(* that lost its task to the monitor has a worker that stays FAILED.       *)
ThreadInv(t) ==
  /\ thread[t] = "none" => status[t] \notin InFlight
  /\ thread[t] = "started" => status[t] = "ASSIGNED" \/ TakenAway(t)
  /\ thread[t] \in {"captured", "waiting"} =>
       /\ captured[t].worker \in Workers
       /\ \/ /\ is_current_attempt(t)
             /\ status[t] = IF thread[t] = "captured" THEN "ASSIGNED" ELSE "RUNNING"
          \/ TakenAway(t) /\ worker_status[captured[t].worker] = "FAILED"

(* The worker of a task in flight is BUSY, or the monitor has marked it    *)
(* and is on its way to requeue the task.                                  *)
Covered(t) ==
  status[t] \in InFlight =>
    \/ worker_status[assigned_worker_id[t]] = "BUSY"
    \/ /\ worker_status[assigned_worker_id[t]] = "FAILED"
       /\ assigned_worker_id[t] \in Found

(* No two threads have the same worker. *)
Distinct ==
  \A t, u \in Tasks :
    t # u /\ thread[t] # "none" /\ thread[u] # "none" /\ Peer(t) = Peer(u) =>
      Peer(t) = None

(* The monitor walks a table under the lock; what it walks grows only      *)
(* while no task was ever assigned.                                        *)
MonitorInv ==
  /\ monitor \in {"sweeping", "requeueing"} <=> lock = "monitor"
  /\ lock # "monitor" => found = <<>>
  /\ monitor = "requeueing" => found # <<>>
  /\ monitor = "sweeping" => visited \in 1 .. Len(worker_order)
  /\ monitor = "sweeping" => table_size <= Len(worker_order)
  /\ monitor # "sweeping" => visited = 0
  /\ ~Fresh => /\ monitor = "sweeping" => table_size = Len(worker_order)
               /\ monitor = "requeueing" => table_size = Len(task_order)
               /\ \A w \in Found : worker_status[w] = "FAILED"

Early == {"accepting", "blocked", "submitting", "crashed"}

(* What main has done so far. *)
MainInv ==
  /\ lock = "main" <=> main = "assigning"
  /\ main \in Early => Fresh
  /\ main \notin Early => \A t \in Tasks : status[t] # "ABSENT"
  /\ main \notin {"assigning", "joining"} => \A t \in Tasks : thread[t] = "none"
  /\ main = "assigning" =>
       \A t \in Tasks : thread[t] # "none" =>
                          thread[t] = "started" /\ status[t] = "ASSIGNED"
  /\ main = "accepting" => accepted < EXPECTED_WORKERS
  /\ Len(worker_order) <= accepted

IInv ==
  /\ TypeOK
  /\ \A t \in Tasks : TaskInv(t) /\ ThreadInv(t) /\ Covered(t)
  /\ Distinct
  /\ MonitorInv
  /\ MainInv
  /\ DrainIsComplete

-----------------------------------------------------------------------------
(* Sequences. *)

LEMMA AppendElements ==
  ASSUME NEW S, NEW s \in Seq(S), NEW x \in S, NEW a, a = Append(s, x)
  PROVE  /\ a \in Seq(S) /\ a # <<>>
         /\ Len(s) \in Nat /\ Len(a) = Len(s) + 1
         /\ DOMAIN s = 1 .. Len(s) /\ DOMAIN a = 1 .. Len(s) + 1
         /\ \A i \in 1 .. Len(s) : a[i] = s[i] /\ a[i] \in S
         /\ a[Len(s) + 1] = x
BY SMT

LEMMA TailElements ==
  ASSUME NEW S, NEW s \in Seq(S), s # <<>>
  PROVE  /\ Len(s) \in Nat /\ Len(s) >= 1 /\ DOMAIN s = 1 .. Len(s)
         /\ Head(s) = s[1] /\ Head(s) \in S
         /\ Tail(s) \in Seq(S) /\ DOMAIN Tail(s) = 1 .. Len(s) - 1
         /\ \A i \in 1 .. Len(s) - 1 : Tail(s)[i] = s[i + 1]
BY SMT

-----------------------------------------------------------------------------
(* What steps leave alone. *)

(* Steps beside the tables, the threads and the monitor. *)
LEMMA AsideKept ==
  ASSUME IInv,
         UNCHANGED <<task_vars, thread_vars, worker_order, worker_status, monitor_vars>>
  PROVE  /\ \A t \in Tasks : TaskInv(t)' /\ ThreadInv(t)' /\ Covered(t)'
         /\ Distinct' /\ Fresh' = Fresh /\ Found' = Found
<1>1. Found' = Found /\ Fresh' = Fresh
  BY DEF Found, Fresh, task_vars, monitor_vars
<1>2. ASSUME NEW t \in Tasks
      PROVE  TaskInv(t)' /\ ThreadInv(t)' /\ Covered(t)'
  <2>1. TaskInv(t) /\ ThreadInv(t) /\ Covered(t)
    BY DEF IInv
  <2>2. TaskInv(t)'
    BY <2>1 DEF TaskInv, task_vars, thread_vars
  <2>3. ThreadInv(t)'
    BY <2>1 DEF ThreadInv, TakenAway, is_current_attempt, task_vars, thread_vars
  <2>4. Covered(t)'
    BY <1>1, <2>1 DEF Covered, task_vars
  <2>5. QED
    BY <2>2, <2>3, <2>4
<1>3. Distinct'
  BY DEF IInv, Distinct, Peer, task_vars, thread_vars
<1>4. QED
  BY <1>1, <1>2, <1>3

(* Steps of the threads that main waits for. *)
LEMMA JoiningKept ==
  ASSUME IInv, main = "joining", UNCHANGED <<main, accepted, worker_order, lock, task_order>>,
         \A t \in Tasks : status'[t] = "ABSENT" <=> status[t] = "ABSENT"
  PROVE  MainInv' /\ DrainIsComplete'
<1>1. MainInv'
  BY DEF IInv, MainInv, Early
<1>2. DrainIsComplete'
  BY DEF DrainIsComplete
<1>3. QED
  BY <1>1, <1>2

(* Steps of the monitor: main has not got the lock, no worker becomes IDLE *)
(* and only a task in flight changes.                                      *)
LEMMA SweepKept ==
  ASSUME IInv, UNCHANGED <<main, accepted, worker_order, task_order, attempt, thread_vars>>,
         lock # "main", lock' # "main",
         \A t \in Tasks : \/ status'[t] = status[t]
                          \/ status[t] \in InFlight /\ status'[t] \in {"PENDING", "FAILED"},
         \A w \in Workers : worker_status'[w] \in {worker_status[w], "FAILED"}
  PROVE  MainInv' /\ DrainIsComplete' /\ Fresh' = Fresh
<1>1. \A t \in Tasks : status'[t] = "ABSENT" <=> status[t] = "ABSENT"
  BY DEF InFlight
<1>2. Fresh' = Fresh
  BY DEF Fresh
<1>3. MainInv /\ DrainIsComplete /\ \A t \in Tasks : ThreadInv(t)
  BY DEF IInv
<1>4. MainInv'
  BY <1>1, <1>2, <1>3 DEF MainInv, Early, thread_vars
<1>5. DrainIsComplete'
  <2> SUFFICES ASSUME main \in {"drained", "ended"}, NEW t \in Tasks
               PROVE  \/ status'[t] \in Terminal
                      \/ /\ status'[t] = "PENDING"
                         /\ \A w \in Workers : worker_status'[w] # "IDLE"
    BY DEF DrainIsComplete
  <2>1. status'[t] = status[t]
    BY <1>3 DEF MainInv, ThreadInv
  <2>2. QED
    BY <1>3, <2>1 DEF DrainIsComplete
<1>6. QED
  BY <1>2, <1>4, <1>5

-----------------------------------------------------------------------------
(* The steps of main and of the workers. *)

LEMMA AsideStep ==
  ASSUME IInv,
         UNCHANGED <<task_vars, thread_vars, worker_order, worker_status, generation,
                     monitor_vars, accepted>>,
         \/ BeginsRound \/ EndsRound \/ Joins \/ Stops \/ RegistrationLost
         \/ \E w \in Workers : \/ Refuses(w) \/ RecordsHeartbeat(w)
                               \/ FallsSilent(w) \/ WorkerLost(w)
  PROVE  IInv'
<1>1. TypeOK /\ MonitorInv /\ MainInv /\ DrainIsComplete
  BY DEF IInv
<1>2. /\ \A t \in Tasks : TaskInv(t)' /\ ThreadInv(t)' /\ Covered(t)'
      /\ Distinct' /\ Fresh' = Fresh /\ Found' = Found
  BY AsideKept
<1>3. lock' = lock \/ (BeginsRound /\ lock = "free" /\ lock' = "main")
                   \/ (EndsRound /\ lock = "main" /\ lock' = "free")
  BY <1>1 DEF BeginsRound, EndsRound, Joins, Stops, RegistrationLost, Refuses,
              RecordsHeartbeat, FallsSilent, WorkerLost, MainInv
<1>4. MonitorInv'
  BY <1>1, <1>2, <1>3 DEF MonitorInv, monitor_vars, task_vars
<1>5. CASE BeginsRound \/ EndsRound \/ Joins \/ RegistrationLost \/ \E w \in Workers : Refuses(w)
  <2>1. UNCHANGED <<connection, stale>>
    BY <1>5 DEF BeginsRound, EndsRound, Joins, RegistrationLost, Refuses, worker_vars
  <2>2. main' \in {"blocked", "crashed", "drained"} \cup Draining
    BY <1>5 DEF BeginsRound, EndsRound, Joins, RegistrationLost, Refuses, Draining
  <2>3. TypeOK'
    BY <1>1, <1>3, <2>1, <2>2 DEF TypeOK, SchedulerTypeOK, task_vars, thread_vars, monitor_vars
  <2>4. MainInv'
    <3>1. CASE BeginsRound
      BY <1>1, <1>2, <3>1 DEF BeginsRound, MainInv, Early, task_vars, thread_vars
    <3>2. CASE EndsRound
      BY <1>1, <1>2, <3>2 DEF EndsRound, MainInv, Early, Batch, task_vars, thread_vars
    <3>3. CASE Joins
      BY <1>1, <1>2, <3>3 DEF Joins, MainInv, Early, Batch, task_vars, thread_vars
    <3>4. CASE RegistrationLost \/ \E w \in Workers : Refuses(w)
      BY <1>1, <1>2, <3>4 DEF RegistrationLost, Refuses, MainInv, Early, task_vars, thread_vars
    <3>5. QED
      BY <1>5, <3>1, <3>2, <3>3, <3>4
  <2>5. DrainIsComplete'
    <3> SUFFICES ASSUME main' \in {"drained", "ended"}, NEW t \in Tasks
                 PROVE  \/ status'[t] \in Terminal
                        \/ /\ status'[t] = "PENDING"
                           /\ \A w \in Workers : worker_status'[w] # "IDLE"
      BY DEF DrainIsComplete
    <3>1. main = "assigning" /\ NothingToAssign /\ Batch = {}
      BY <1>5 DEF BeginsRound, EndsRound, Joins, RegistrationLost, Refuses
    <3>2. thread[t] = "none" /\ status[t] # "ABSENT" /\ status[t] \notin InFlight
      BY <1>1, <3>1 DEF Batch, MainInv, Early, IInv, ThreadInv
    <3>3. status[t] \in Terminal \cup {"PENDING"}
      BY <1>1, <3>2 DEF TypeOK, SchedulerTypeOK, TaskStatus, InFlight, Terminal
    <3>4. QED
      BY <3>1, <3>3 DEF NothingToAssign, task_vars
  <2>6. QED
    BY <1>2, <1>4, <2>3, <2>4, <2>5 DEF IInv
<1>6. CASE Stops \/ \E w \in Workers : RecordsHeartbeat(w) \/ FallsSilent(w) \/ WorkerLost(w)
  <2>1. /\ lock' = lock
        /\ main' = main \/ (main = "drained" /\ main' = "ended")
    <3>1. CASE Stops
      BY <3>1 DEF Stops
    <3>2. ASSUME NEW w \in Workers, RecordsHeartbeat(w) \/ FallsSilent(w) \/ WorkerLost(w)
          PROVE  lock' = lock /\ main' = main
      BY <3>2 DEF RecordsHeartbeat, FallsSilent, WorkerLost
    <3>3. QED
      BY <1>6, <3>1, <3>2
  <2>2. connection' \in [Workers -> {"none", "open", "lost", "closed"}]
    BY <1>1, <1>6, SMT DEF TypeOK, Stops, RecordsHeartbeat, FallsSilent, WorkerLost
  <2>3. stale' \in [Workers -> BOOLEAN]
    <3>1. \/ stale' = stale
          \/ \E w \in Workers, b \in BOOLEAN : stale' = [stale EXCEPT ![w] = b]
      BY <1>6 DEF Stops, RecordsHeartbeat, FallsSilent, WorkerLost,
                  record_heartbeat, HeartbeatExpires, worker_vars
    <3>2. stale \in [Workers -> BOOLEAN]
      BY <1>1 DEF TypeOK, SchedulerTypeOK
    <3>3. QED
      BY <3>1, <3>2
  <2>4. TypeOK'
    BY <1>1, <2>1, <2>2, <2>3 DEF TypeOK, SchedulerTypeOK, task_vars, thread_vars, monitor_vars
  <2>5. MainInv'
    BY <1>1, <1>2, <2>1 DEF MainInv, Early, task_vars, thread_vars
  <2>6. DrainIsComplete'
    BY <1>1, <2>1 DEF DrainIsComplete, task_vars
  <2>7. QED
    BY <1>2, <1>4, <2>4, <2>5, <2>6 DEF IInv
<1>7. QED
  BY <1>5, <1>6

(* A registration: no task was assigned yet, and no thread runs. *)
LEMMA RegistersStep ==
  ASSUME IInv, NEW w \in Workers, Registers(w)
  PROVE  IInv'
<1> USE ThreadedAssumption
<1>1. TypeOK /\ MonitorInv /\ MainInv /\ \A t \in Tasks : TaskInv(t) /\ ThreadInv(t)
  BY DEF IInv
<1>2. /\ main = "accepting" /\ register_worker(w) /\ accepted' = accepted + 1
      /\ connection' = [connection EXCEPT ![w] = "open"]
      /\ main' = IF accepted + 1 = EXPECTED_WORKERS THEN "submitting" ELSE main
      /\ UNCHANGED <<task_order, status, assigned_worker_id, attempt, thread, captured,
                     monitor, visited, found, table_size, lock>>
  BY DEF Registers, task_vars, thread_vars, monitor_vars
<1>3. Fresh /\ Fresh'
  BY <1>1, <1>2 DEF MainInv, Early, Fresh
<1>4. \A t \in Tasks : thread[t] = "none" /\ status[t] \in {"ABSENT", "PENDING"}
  BY <1>1, <1>3 DEF Fresh, TaskInv
<1>5. /\ worker_order' \in Seq(Workers)
      /\ Len(worker_order) \in Nat /\ Len(worker_order') \in Nat
      /\ Len(worker_order) <= Len(worker_order') /\ Len(worker_order') <= Len(worker_order) + 1
  <2>1. worker_order \in Seq(Workers)
    BY <1>1 DEF TypeOK, SchedulerTypeOK
  <2>2. worker_order' = worker_order \/ worker_order' = Append(worker_order, w)
    BY <1>2 DEF register_worker
  <2>3. QED
    BY <2>1, <2>2, AppendElements, SMT
<1>6. accepted \in Nat /\ accepted < EXPECTED_WORKERS /\ accepted + 1 \in 0 .. EXPECTED_WORKERS
  BY <1>1, <1>2, SMT DEF TypeOK, MainInv
<1>7. TypeOK'
  <2>1. SchedulerTypeOK'
    BY <1>1, <1>2, <1>5, SMT DEF TypeOK, SchedulerTypeOK, register_worker, WorkerStatus
  <2>2. QED
    BY <1>1, <1>2, <1>6, <2>1 DEF TypeOK
<1>8. \A t \in Tasks : TaskInv(t)' /\ ThreadInv(t)' /\ Covered(t)'
  BY <1>1, <1>2, <1>4 DEF TaskInv, ThreadInv, Covered, InFlight
<1>9. Distinct'
  BY <1>2, <1>4 DEF Distinct
<1>10. MonitorInv'
  BY <1>1, <1>2, <1>3, <1>5, SMT DEF MonitorInv, TypeOK
<1>11. MainInv'
  BY <1>1, <1>2, <1>3, <1>4, <1>5, <1>6, SMT DEF MainInv, Early
<1>12. DrainIsComplete'
  BY <1>2 DEF DrainIsComplete
<1>13. QED
  BY <1>7, <1>8, <1>9, <1>10, <1>11, <1>12 DEF IInv

(* A submission; with the last one every task is in the table. *)
LEMMA SubmitsStep ==
  ASSUME IInv, NEW t \in Tasks, Submits(t)
  PROVE  IInv'
<1> USE ThreadedAssumption, SchedulerAssumption
<1>1. TypeOK /\ MonitorInv /\ MainInv /\ \A u \in Tasks : TaskInv(u) /\ ThreadInv(u)
  BY DEF IInv
<1>2. /\ main = "submitting" /\ status[t] = "ABSENT"
      /\ task_order' = Append(task_order, t)
      /\ status' = [status EXCEPT ![t] = "PENDING"]
      /\ main' = IF \A u \in Tasks : status'[u] # "ABSENT" THEN "draining" ELSE main
      /\ UNCHANGED <<assigned_worker_id, attempt, worker_order, worker_status, generation, stale,
                     accepted, connection, thread, captured,
                     monitor, visited, found, table_size, lock>>
  BY DEF Submits, submit_task, worker_vars, thread_vars, monitor_vars
<1>3. /\ status'[t] = "PENDING" /\ \A u \in Tasks \ {t} : status'[u] = status[u]
      /\ status' \in [Tasks -> TaskStatus \cup {"ABSENT"}]
  BY <1>1, <1>2 DEF TypeOK, SchedulerTypeOK, TaskStatus
<1>4. Fresh /\ Fresh'
  BY <1>1, <1>2 DEF MainInv, Early, Fresh
<1>5. \A u \in Tasks : /\ thread[u] = "none" /\ status'[u] \in {"ABSENT", "PENDING"}
                       /\ attempt[u] = 0 /\ assigned_worker_id[u] = None
  BY <1>1, <1>3, <1>4 DEF Fresh, TaskInv
<1>6. task_order' \in Seq(Tasks)
  <2>1. task_order \in Seq(Tasks)
    BY <1>1 DEF TypeOK, SchedulerTypeOK
  <2>2. QED
    BY <1>2, <2>1, AppendElements
<1>7. TypeOK'
  <2>1. SchedulerTypeOK'
    BY <1>1, <1>2, <1>3, <1>6 DEF TypeOK, SchedulerTypeOK
  <2>2. main' \in {"submitting"} \cup Draining
    BY <1>2 DEF Draining
  <2>3. QED
    BY <1>1, <1>2, <2>1, <2>2 DEF TypeOK
<1>8. \A u \in Tasks : TaskInv(u)' /\ ThreadInv(u)' /\ Covered(u)'
  BY <1>2, <1>5, SMT DEF TaskInv, ThreadInv, Covered, InFlight
<1>9. Distinct'
  BY <1>2, <1>5 DEF Distinct
<1>10. MonitorInv'
  BY <1>1, <1>2, <1>4 DEF MonitorInv
<1>11. MainInv'
  <2>1. CASE \A u \in Tasks : status'[u] # "ABSENT"
    BY <1>1, <1>2, <1>5, <2>1 DEF MainInv, Early
  <2>2. CASE ~(\A u \in Tasks : status'[u] # "ABSENT")
    BY <1>1, <1>2, <1>4, <1>5, <2>2 DEF MainInv, Early
  <2>3. QED
    BY <2>1, <2>2
<1>12. DrainIsComplete'
  BY <1>2 DEF DrainIsComplete
<1>13. QED
  BY <1>7, <1>8, <1>9, <1>10, <1>11, <1>12 DEF IInv

-----------------------------------------------------------------------------
(* The dispatch of tasks. *)

(* A worker that is IDLE belongs to no thread of the round. *)
LEMMA AssignsStep ==
  ASSUME IInv, NEW t \in Tasks, NEW w \in Workers, Assigns(t, w)
  PROVE  IInv'
<1> USE SchedulerAssumption
<1>1. TypeOK /\ MonitorInv /\ MainInv /\ Distinct
  BY DEF IInv
<1>2. /\ main = "assigning" /\ main' = main
      /\ status[t] = "PENDING" /\ worker_status[w] = "IDLE"
      /\ attempt' = [attempt EXCEPT ![t] = @ + 1]
      /\ assigned_worker_id' = [assigned_worker_id EXCEPT ![t] = w]
      /\ status' = [status EXCEPT ![t] = "ASSIGNED"]
      /\ worker_status' = [worker_status EXCEPT ![w] = "BUSY"]
      /\ thread' = [thread EXCEPT ![t] = "started"]
      /\ UNCHANGED <<task_order, worker_order, generation, stale, accepted, connection,
                     captured, monitor, visited, found, table_size, lock>>
  BY DEF Assigns, assign_next_pending_task, OldestPending, FirstIdle, assign_task, monitor_vars
<1>3. lock = "main" /\ found = <<>> /\ Found = {} /\ monitor \notin {"sweeping", "requeueing"}
  BY <1>1, <1>2, SMT DEF MainInv, MonitorInv, Found
<1>4. /\ \A u \in Tasks : TaskInv(u) /\ ThreadInv(u) /\ Covered(u)
      /\ attempt[t] + 1 \in 1 .. MAX_TASK_ATTEMPTS
  <2>1. \A u \in Tasks : TaskInv(u) /\ ThreadInv(u) /\ Covered(u)
    BY DEF IInv
  <2>2. QED
    BY <1>1, <1>2, <2>1, SMT DEF TaskInv, TypeOK, SchedulerTypeOK
<1>5. /\ status'[t] = "ASSIGNED" /\ assigned_worker_id'[t] = w /\ attempt'[t] = attempt[t] + 1
      /\ thread'[t] = "started" /\ worker_status'[w] = "BUSY"
      /\ \A u \in Tasks \ {t} : /\ status'[u] = status[u] /\ attempt'[u] = attempt[u]
                                /\ assigned_worker_id'[u] = assigned_worker_id[u]
                                /\ thread'[u] = thread[u]
      /\ \A v \in Workers \ {w} : worker_status'[v] = worker_status[v]
  BY <1>1, <1>2 DEF TypeOK, SchedulerTypeOK
<1>6. ASSUME NEW u \in Tasks \ {t}, thread[u] # "none"
      PROVE  /\ thread[u] = "started" /\ status[u] = "ASSIGNED"
             /\ assigned_worker_id[u] \in Workers \ {w}
             /\ worker_status[assigned_worker_id[u]] = "BUSY"
  BY <1>1, <1>2, <1>3, <1>4, <1>6 DEF MainInv, TaskInv, Covered, InFlight
<1>7. TypeOK'
  <2>1. SchedulerTypeOK'
    BY <1>1, <1>2, <1>4, SMT DEF TypeOK, SchedulerTypeOK, TaskStatus, WorkerStatus
  <2>2. QED
    BY <1>1, <1>2, <2>1 DEF TypeOK
<1>8. ASSUME NEW u \in Tasks
      PROVE  TaskInv(u)' /\ ThreadInv(u)' /\ Covered(u)'
  <2>1. CASE u = t
    <3>1. attempt'[t] # 0 /\ attempt'[t] \in Nat
      BY <1>4, <1>5, SMT
    <3>2. QED
      BY <1>5, <2>1, <3>1 DEF TaskInv, ThreadInv, Covered
  <2>2. CASE u # t /\ thread[u] = "none"
    BY <1>2, <1>4, <1>5, <2>2, SMT DEF TaskInv, ThreadInv, Covered
  <2>3. CASE u # t /\ thread[u] # "none"
    <3>1. /\ thread'[u] = "started" /\ status'[u] = "ASSIGNED"
          /\ assigned_worker_id'[u] \in Workers
          /\ worker_status'[assigned_worker_id'[u]] = "BUSY"
      BY <1>5, <1>6, <2>3, SMT
    <3>2. attempt'[u] # 0
      BY <1>4, <1>5, <2>3, SMT DEF TaskInv
    <3>3. QED
      BY <3>1, <3>2 DEF TaskInv, ThreadInv, Covered
  <2>4. QED
    BY <2>1, <2>2, <2>3
<1>9. Distinct'
  <2> SUFFICES ASSUME NEW u \in Tasks, NEW v \in Tasks, u # v,
                      thread'[u] # "none", thread'[v] # "none", Peer(u)' = Peer(v)'
               PROVE  FALSE
    BY DEF Distinct
  <2>1. CASE u = t \/ v = t
    BY <1>2, <1>5, <1>6, <2>1, SMT DEF Peer
  <2>2. CASE u # t /\ v # t
    <3>1. /\ thread[u] = "started" /\ thread[v] = "started"
          /\ assigned_worker_id[u] = assigned_worker_id[v] /\ assigned_worker_id[u] \in Workers
      BY <1>5, <1>6, <2>2, SMT DEF Peer
    <3>2. QED
      BY <1>1, <3>1 DEF Distinct, Peer
  <2>3. QED
    BY <2>1, <2>2
<1>10. MonitorInv'
  BY <1>1, <1>2, <1>3, SMT DEF MonitorInv, Found
<1>11. MainInv'
  BY <1>1, <1>2, <1>5, SMT DEF MainInv, Early
<1>12. DrainIsComplete'
  BY <1>2 DEF DrainIsComplete
<1>13. QED
  BY <1>7, <1>8, <1>9, <1>10, <1>11, <1>12 DEF IInv

(* A thread that is not its task's owner any more knows no current attempt. *)
LEMMA OwnerOrTakenAway ==
  ASSUME IInv, NEW t \in Tasks, thread[t] \in {"captured", "waiting"}
  PROVE  /\ main = "joining" /\ captured[t].worker \in Workers
         /\ is_current_attempt(t) <=> status[t] \in InFlight
         /\ is_current_attempt(t) =>
              status[t] = IF thread[t] = "captured" THEN "ASSIGNED" ELSE "RUNNING"
         /\ ~is_current_attempt(t) =>
              TakenAway(t) /\ worker_status[captured[t].worker] = "FAILED"
<1> USE SchedulerAssumption
<1>1. main = "joining"
  BY DEF IInv, MainInv
<1>2. ThreadInv(t)
  BY DEF IInv
<1>3. QED
  BY <1>1, <1>2 DEF ThreadInv, TakenAway, is_current_attempt, InFlight

(* The end of a thread whose task is over or was taken away. *)
LEMMA ThreadEndsStep ==
  ASSUME IInv, NEW t \in Tasks, thread[t] # "none", main = "joining", ThreadEnds(t),
         status[t] \notin InFlight,
         UNCHANGED <<task_vars, worker_vars, main, accepted, connection, monitor_vars, lock>>
  PROVE  IInv'
<1>1. TypeOK /\ MonitorInv /\ MainInv /\ Distinct
  BY DEF IInv
<1>2. /\ thread'[t] = "none" /\ captured'[t] = Nothing
      /\ \A u \in Tasks \ {t} : thread'[u] = thread[u] /\ captured'[u] = captured[u]
      /\ thread' \in [Tasks -> {"none", "started", "captured", "waiting"}]
      /\ captured' \in [Tasks -> Captures]
  BY <1>1, SchedulerAssumption, SMT DEF TypeOK, ThreadEnds, Captures, Nothing
<1>3. TypeOK'
  BY <1>1, <1>2 DEF TypeOK, SchedulerTypeOK, task_vars, worker_vars, monitor_vars
<1>4. Found' = Found /\ Fresh' = Fresh
  BY DEF Found, Fresh, monitor_vars, task_vars
<1>5. ASSUME NEW u \in Tasks
      PROVE  TaskInv(u)' /\ ThreadInv(u)' /\ Covered(u)'
  <2>1. TaskInv(u) /\ ThreadInv(u) /\ Covered(u)
    BY DEF IInv
  <2>2. TaskInv(u)' /\ ThreadInv(u)'
    BY <1>2, <2>1
       DEF TaskInv, ThreadInv, TakenAway, is_current_attempt, task_vars, worker_vars
  <2>3. Covered(u)'
    BY <1>4, <2>1 DEF Covered, task_vars, worker_vars
  <2>4. QED
    BY <2>2, <2>3
<1>6. Distinct'
  BY <1>1, <1>2, SMT DEF Distinct, Peer, task_vars
<1>7. MonitorInv'
  BY <1>1, <1>4 DEF MonitorInv, task_vars, worker_vars, monitor_vars
<1>8. MainInv' /\ DrainIsComplete'
  BY JoiningKept DEF task_vars, worker_vars
<1>9. QED
  BY <1>3, <1>5, <1>6, <1>7, <1>8 DEF IInv

LEMMA ReadsAssignmentStep ==
  ASSUME IInv, NEW t \in Tasks, ReadsAssignment(t)
  PROVE  IInv'
<1> USE SchedulerAssumption
<1>1. TypeOK /\ MonitorInv /\ MainInv /\ Distinct /\ TaskInv(t) /\ ThreadInv(t)
  BY DEF IInv
<1>2. CASE assigned_worker_id[t] = None
  <2>1. status[t] \notin InFlight
    BY <1>1, <1>2 DEF TaskInv
  <2>2. QED
    BY <1>2, <2>1, ThreadEndsStep DEF ReadsAssignment
<1>3. CASE assigned_worker_id[t] # None
  <2>1. /\ main = "joining" /\ thread[t] = "started"
        /\ status[t] = "ASSIGNED" /\ assigned_worker_id[t] \in Workers
    BY <1>1, <1>3 DEF ReadsAssignment, ThreadInv, TaskInv, TakenAway, InFlight
  <2>2. /\ thread' = [thread EXCEPT ![t] = "captured"]
        /\ captured' = [captured EXCEPT ![t] =
             [worker |-> assigned_worker_id[t], attempt |-> attempt[t]]]
        /\ UNCHANGED <<task_vars, worker_vars, main, accepted, connection, monitor_vars, lock>>
    BY <1>3 DEF ReadsAssignment
  <2>3. [worker |-> assigned_worker_id[t], attempt |-> attempt[t]] \in Captures
    BY <1>1, <2>1 DEF TypeOK, SchedulerTypeOK, Captures
  <2>4. /\ thread'[t] = "captured"
        /\ captured'[t].worker = assigned_worker_id[t] /\ captured'[t].attempt = attempt[t]
        /\ \A u \in Tasks \ {t} : thread'[u] = thread[u] /\ captured'[u] = captured[u]
        /\ thread' \in [Tasks -> {"none", "started", "captured", "waiting"}]
        /\ captured' \in [Tasks -> Captures]
    BY <1>1, <2>2, <2>3 DEF TypeOK
  <2>5. TypeOK'
    BY <1>1, <2>2, <2>4 DEF TypeOK, SchedulerTypeOK, task_vars, worker_vars, monitor_vars
  <2>6. Found' = Found /\ Fresh' = Fresh
    BY <2>2 DEF Found, Fresh, monitor_vars, task_vars
  <2>7. ASSUME NEW u \in Tasks
        PROVE  TaskInv(u)' /\ ThreadInv(u)' /\ Covered(u)'
    <3>1. TaskInv(u) /\ ThreadInv(u) /\ Covered(u)
      BY DEF IInv
    <3>2. Covered(u)'
      BY <2>2, <2>6, <3>1 DEF Covered, task_vars, worker_vars
    <3>3. CASE u = t
      BY <2>1, <2>2, <2>4, <3>1, <3>2, <3>3
         DEF TaskInv, ThreadInv, is_current_attempt, task_vars, worker_vars
    <3>4. CASE u # t
      BY <2>2, <2>4, <3>1, <3>2, <3>4
         DEF TaskInv, ThreadInv, TakenAway, is_current_attempt, task_vars, worker_vars
    <3>5. QED
      BY <3>3, <3>4
  <2>8. \A u \in Tasks : Peer(u)' = Peer(u)
    BY <2>1, <2>2, <2>4 DEF Peer, task_vars
  <2>9. Distinct'
    BY <1>1, <2>1, <2>4, <2>8, SMT DEF Distinct
  <2>10. MonitorInv'
    BY <1>1, <2>2, <2>6 DEF MonitorInv, task_vars, worker_vars, monitor_vars
  <2>11. MainInv' /\ DrainIsComplete'
    BY <2>1, <2>2, JoiningKept DEF task_vars, worker_vars
  <2>12. QED
    BY <2>5, <2>7, <2>9, <2>10, <2>11 DEF IInv
<1>4. QED
  BY <1>2, <1>3

LEMMA StartsTaskStep ==
  ASSUME IInv, NEW t \in Tasks, StartsTask(t)
  PROVE  IInv'
<1> USE SchedulerAssumption
<1>1. TypeOK /\ MonitorInv /\ MainInv /\ Distinct /\ TaskInv(t) /\ ThreadInv(t)
  BY DEF IInv
<1>2. thread[t] = "captured" /\ main = "joining" /\ lock = "free"
  BY OwnerOrTakenAway DEF StartsTask
<1>3. CASE status[t] # "ASSIGNED"
  <2>1. status[t] \notin InFlight
    BY <1>2, <1>3, OwnerOrTakenAway
  <2>2. QED
    BY <1>2, <1>3, <2>1, ThreadEndsStep DEF StartsTask
<1>4. CASE status[t] = "ASSIGNED"
  <2>1. /\ status' = [status EXCEPT ![t] = "RUNNING"]
        /\ thread' = [thread EXCEPT ![t] = "waiting"]
        /\ UNCHANGED <<task_order, assigned_worker_id, attempt, captured,
                       worker_vars, main, accepted, connection, monitor_vars, lock>>
    BY <1>4 DEF StartsTask, start_task
  <2>2. /\ thread'[t] = "waiting" /\ status'[t] = "RUNNING"
        /\ \A u \in Tasks \ {t} : thread'[u] = thread[u] /\ status'[u] = status[u]
        /\ thread' \in [Tasks -> {"none", "started", "captured", "waiting"}]
        /\ status' \in [Tasks -> TaskStatus \cup {"ABSENT"}]
    BY <1>1, <2>1 DEF TypeOK, SchedulerTypeOK, TaskStatus
  <2>3. TypeOK'
    BY <1>1, <2>1, <2>2 DEF TypeOK, SchedulerTypeOK, worker_vars, monitor_vars
  <2>4. Found' = Found /\ Fresh' = Fresh
    BY <2>1 DEF Found, Fresh, monitor_vars
  <2>5. is_current_attempt(t)
    BY <1>2, <1>4, OwnerOrTakenAway DEF InFlight
  <2>6. ASSUME NEW u \in Tasks
        PROVE  TaskInv(u)' /\ ThreadInv(u)' /\ Covered(u)'
    <3>1. TaskInv(u) /\ ThreadInv(u) /\ Covered(u)
      BY DEF IInv
    <3>2. Covered(u)'
      BY <1>4, <2>1, <2>2, <2>4, <3>1 DEF Covered, InFlight, worker_vars
    <3>3. CASE u = t
      <4>1. attempt'[t] # 0 /\ assigned_worker_id'[t] \in Workers
        BY <1>1, <1>4, <2>1 DEF TaskInv, InFlight
      <4>2. is_current_attempt(t)' /\ captured'[t].worker \in Workers
        BY <1>1, <1>2, <2>1, <2>5 DEF ThreadInv, is_current_attempt
      <4>3. QED
        BY <2>2, <3>2, <3>3, <4>1, <4>2 DEF TaskInv, ThreadInv
    <3>4. CASE u # t
      BY <2>1, <2>2, <3>1, <3>2, <3>4
        , SMT DEF TaskInv, ThreadInv, TakenAway, is_current_attempt, worker_vars
    <3>5. QED
      BY <3>3, <3>4
  <2>7. \A u \in Tasks : Peer(u)' = Peer(u)
    BY <1>2, <2>1, <2>2 DEF Peer
  <2>8. Distinct'
    BY <1>1, <1>2, <2>2, <2>7, SMT DEF Distinct
  <2>9. MonitorInv'
    BY <1>1, <2>1, <2>4 DEF MonitorInv, worker_vars, monitor_vars
  <2>10. MainInv' /\ DrainIsComplete'
    <3>1. \A u \in Tasks : status'[u] = "ABSENT" <=> status[u] = "ABSENT"
      BY <1>4, <2>2
    <3>2. QED
      BY <1>2, <2>1, <3>1, JoiningKept DEF worker_vars
  <2>11. QED
    BY <2>3, <2>6, <2>8, <2>9, <2>10 DEF IInv
<1>5. QED
  BY <1>3, <1>4

(* The owner of a task ends it and its worker with it: the task gets the   *)
(* status s, the worker v becomes IDLE or FAILED.  Nobody else had either. *)
LEMMA OwnerEndsStep ==
  ASSUME IInv, NEW t \in Tasks, thread[t] = "waiting", is_current_attempt(t),
         lock = "free", ThreadEnds(t),
         NEW s \in {"COMPLETED", "FAILED", "PENDING"}, NEW a \in {None, assigned_worker_id[t]},
         NEW v \in {"IDLE", "FAILED"},
         s = "PENDING" => attempt[t] < MAX_TASK_ATTEMPTS /\ a = None,
         status' = [status EXCEPT ![t] = s],
         assigned_worker_id' = [assigned_worker_id EXCEPT ![t] = a],
         worker_status' = [worker_status EXCEPT ![captured[t].worker] = v],
         UNCHANGED <<task_order, attempt, worker_order, generation, stale,
                     main, accepted, connection, monitor_vars, lock>>
  PROVE  IInv'
<1> USE SchedulerAssumption
<1>1. TypeOK /\ MonitorInv /\ MainInv /\ Distinct
  BY DEF IInv
<1>2. PICK w \in Workers : w = captured[t].worker
  BY OwnerOrTakenAway
<1>3. main = "joining" /\ status[t] = "RUNNING" /\ assigned_worker_id[t] = w
  BY <1>2, OwnerOrTakenAway DEF is_current_attempt
<1>4. found = <<>> /\ Found = {} /\ monitor \notin {"sweeping", "requeueing"}
  BY <1>1, SMT DEF MonitorInv, Found
<1>5. /\ thread'[t] = "none" /\ status'[t] = s /\ assigned_worker_id'[t] = a
      /\ \A u \in Tasks \ {t} : /\ thread'[u] = thread[u] /\ captured'[u] = captured[u]
                                /\ status'[u] = status[u]
                                /\ assigned_worker_id'[u] = assigned_worker_id[u]
      /\ \A x \in Workers \ {w} : worker_status'[x] = worker_status[x]
  BY <1>1, <1>2, SMT DEF TypeOK, SchedulerTypeOK, ThreadEnds
<1>6. TypeOK'
  <2>1. /\ status' \in [Tasks -> TaskStatus \cup {"ABSENT"}]
        /\ assigned_worker_id' \in [Tasks -> Workers \cup {None}]
        /\ worker_status' \in [Workers -> WorkerStatus \cup {"ABSENT"}]
    BY <1>1, <1>2, <1>3, SMT DEF TypeOK, SchedulerTypeOK, TaskStatus, WorkerStatus
  <2>2. thread' \in [Tasks -> {"none", "started", "captured", "waiting"}]
        /\ captured' \in [Tasks -> Captures]
    BY <1>1, SMT DEF TypeOK, ThreadEnds, Captures, Nothing
  <2>3. QED
    BY <1>1, <2>1, <2>2 DEF TypeOK, SchedulerTypeOK, monitor_vars
<1>7. ASSUME NEW u \in Tasks \ {t}, thread[u] # "none"
      PROVE  Peer(u) # w
  BY <1>1, <1>2, <1>3, <1>7 DEF Distinct, Peer
<1>8. ASSUME NEW u \in Tasks \ {t}, status[u] \in InFlight
      PROVE  assigned_worker_id[u] \in Workers \ {w}
  <2>1. TaskInv(u) /\ ThreadInv(u)
    BY DEF IInv
  <2>2. thread[u] # "none" /\ assigned_worker_id[u] \in Workers
    BY <1>8, <2>1 DEF TaskInv, ThreadInv
  <2>3. Peer(u) = assigned_worker_id[u]
    BY <1>1, <1>8, <2>1, <2>2
       DEF TypeOK, ThreadInv, TakenAway, is_current_attempt, InFlight, Peer
  <2>4. QED
    BY <1>7, <2>2, <2>3
<1>9. ASSUME NEW u \in Tasks
      PROVE  TaskInv(u)' /\ ThreadInv(u)' /\ Covered(u)'
  <2>1. TaskInv(u) /\ ThreadInv(u) /\ Covered(u)
    BY DEF IInv
  <2>2. CASE u = t
    <3>1. attempt'[t] # 0
      BY <1>3, <2>1, <2>2 DEF TaskInv
    <3>2. QED
      BY <1>5, <2>2, <3>1 DEF TaskInv, ThreadInv, Covered, InFlight
  <2>3. CASE u # t
    <3>1. TaskInv(u)'
      BY <1>5, <2>1, <2>3 DEF TaskInv
    <3>2. ThreadInv(u)'
      <4>1. thread[u] \in {"captured", "waiting"} =>
              worker_status'[captured[u].worker] = worker_status[captured[u].worker]
        BY <1>5, <1>7, <2>1, <2>3, SMT DEF ThreadInv, Peer
      <4>2. QED
        BY <1>5, <2>1, <2>3, <4>1, SMT DEF ThreadInv, TakenAway, is_current_attempt
    <3>3. Covered(u)'
      BY <1>4, <1>5, <1>8, <2>1, <2>3, SMT DEF Covered
    <3>4. QED
      BY <3>1, <3>2, <3>3
  <2>4. QED
    BY <2>2, <2>3
<1>10. Distinct'
  BY <1>1, <1>5, SMT DEF Distinct, Peer
<1>11. MonitorInv'
  BY <1>1, <1>4, SMT DEF MonitorInv, Found, monitor_vars
<1>12. MainInv' /\ DrainIsComplete'
  <2>1. \A u \in Tasks : status'[u] = "ABSENT" <=> status[u] = "ABSENT"
    BY <1>3, <1>5
  <2>2. QED
    BY <1>3, <2>1, JoiningKept
<1>13. QED
  BY <1>6, <1>9, <1>10, <1>11, <1>12 DEF IInv

LEMMA GetsAnswerStep ==
  ASSUME IInv, NEW t \in Tasks, NEW success \in BOOLEAN, GetsAnswer(t, success)
  PROVE  IInv'
<1> USE SchedulerAssumption
<1>1. thread[t] = "waiting" /\ lock = "free" /\ main = "joining" /\ TypeOK
  BY OwnerOrTakenAway DEF GetsAnswer, IInv
<1>2. CASE ~is_current_attempt(t)
  <2>1. status[t] \notin InFlight
    BY <1>1, <1>2, OwnerOrTakenAway
  <2>2. UNCHANGED <<task_vars, worker_vars>>
    BY <1>2 DEF GetsAnswer
  <2>3. QED
    BY <1>1, <2>1, <2>2, ThreadEndsStep DEF GetsAnswer
<1>3. CASE is_current_attempt(t)
  <2>1. captured[t].worker \in Workers /\ captured[t].worker = assigned_worker_id[t]
    BY <1>1, <1>3, OwnerOrTakenAway DEF is_current_attempt
  <2>2. complete_task(t) \/ fail_task(t)
    BY <1>3 DEF GetsAnswer
  <2>3. worker_status[captured[t].worker] = "BUSY"
    <3>1. Covered(t) /\ found = <<>> /\ status[t] \in InFlight
      BY <1>1, <1>3, OwnerOrTakenAway DEF IInv, MonitorInv
    <3>2. QED
      BY <2>1, <3>1, SMT DEF Covered, Found
  <2>4. \E s \in {"COMPLETED", "FAILED"} : status' = [status EXCEPT ![t] = s]
    BY <2>2 DEF complete_task, fail_task
  <2>5. worker_status' = [worker_status EXCEPT ![captured[t].worker] = "IDLE"]
    BY <2>1, <2>2, <2>3 DEF complete_task, fail_task, release_worker
  <2>6. UNCHANGED <<task_order, attempt, worker_order, generation, stale,
                    main, accepted, connection, monitor_vars, lock>>
    BY <2>2 DEF complete_task, fail_task, GetsAnswer
  <2>7. assigned_worker_id' = [assigned_worker_id EXCEPT ![t] = assigned_worker_id[t]]
    BY <1>1, <2>2 DEF complete_task, fail_task, TypeOK, SchedulerTypeOK
  <2>8. ThreadEnds(t)
    BY DEF GetsAnswer
  <2>9. QED
    BY <1>1, <1>3, <2>4, <2>5, <2>6, <2>7, <2>8, OwnerEndsStep
<1>4. QED
  BY <1>2, <1>3

LEMMA FindsLostStep ==
  ASSUME IInv, NEW t \in Tasks, FindsLost(t)
  PROVE  IInv'
<1> USE SchedulerAssumption
<1>1. thread[t] = "waiting" /\ lock = "free" /\ main = "joining" /\ TypeOK
  BY OwnerOrTakenAway DEF FindsLost, IInv
<1>2. CASE ~is_current_attempt(t)
  <2>1. status[t] \notin InFlight
    BY <1>1, <1>2, OwnerOrTakenAway
  <2>2. UNCHANGED <<task_vars, worker_vars>>
    BY <1>2 DEF FindsLost
  <2>3. QED
    BY <1>1, <2>1, <2>2, ThreadEndsStep DEF FindsLost
<1>3. CASE is_current_attempt(t)
  <2>1. PICK w \in Workers : w = captured[t].worker /\ w = assigned_worker_id[t]
    BY <1>1, <1>3, OwnerOrTakenAway DEF is_current_attempt
  <2>2. status[t] \in InFlight
    BY <1>1, <1>3, OwnerOrTakenAway
  <2>3. ASSUME NEW u \in Tasks \ {t}
        PROVE  ~InFlightOn(u, {w})
    <3> SUFFICES ASSUME assigned_worker_id[u] = w, status[u] \in InFlight
                 PROVE  FALSE
      BY DEF InFlightOn
    <3>1. ThreadInv(u) /\ Distinct
      BY DEF IInv
    <3>2. thread[u] # "none" /\ Peer(u) = w
      BY <1>1, <2>1, <3>1
         DEF TypeOK, ThreadInv, TakenAway, is_current_attempt, InFlight, Peer
    <3>3. Peer(t) = w
      BY <1>1, <2>1 DEF Peer
    <3>4. QED
      BY <1>1, <2>1, <3>1, <3>2, <3>3 DEF Distinct
  <2>4. InFlightOn(t, {w})
    BY <2>1, <2>2 DEF InFlightOn
  <2>5. FailAndRequeue({w})
    BY <1>3, <2>1 DEF FindsLost
  <2>6. PICK s : s = Requeued(t)
    OBVIOUS
  <2>7. /\ s \in {"FAILED", "PENDING"}
        /\ s = "PENDING" => attempt[t] < MAX_TASK_ATTEMPTS
    BY <1>1, <2>6, SMT DEF Requeued, TypeOK, SchedulerTypeOK
  <2>8. /\ status' = [status EXCEPT ![t] = s]
        /\ assigned_worker_id' = [assigned_worker_id EXCEPT ![t] = None]
    <3>1. /\ \A u \in Tasks \ {t} : /\ status'[u] = status[u]
                                    /\ assigned_worker_id'[u] = assigned_worker_id[u]
          /\ status'[t] = s /\ assigned_worker_id'[t] = None
          /\ DOMAIN status' = Tasks /\ DOMAIN assigned_worker_id' = Tasks
          /\ status' = [u \in Tasks |-> status'[u]]
          /\ assigned_worker_id' = [u \in Tasks |-> assigned_worker_id'[u]]
      BY <2>3, <2>4, <2>5, <2>6 DEF FailAndRequeue, requeue_tasks_for_workers
    <3>2. QED
      BY <1>1, <3>1, SMT DEF TypeOK, SchedulerTypeOK
  <2>9. worker_status' = [worker_status EXCEPT ![captured[t].worker] = "FAILED"]
    BY <1>1, <2>1, <2>5 DEF FailAndRequeue, update_status, TypeOK, SchedulerTypeOK
  <2>10. UNCHANGED <<task_order, attempt, worker_order, generation, stale,
                     main, accepted, connection, monitor_vars, lock>>
    BY <2>5 DEF FailAndRequeue, requeue_tasks_for_workers, FindsLost
  <2>11. ThreadEnds(t)
    BY DEF FindsLost
  <2>12. QED
    BY <1>1, <1>3, <2>7, <2>8, <2>9, <2>10, <2>11, OwnerEndsStep
<1>4. QED
  BY <1>2, <1>3

-----------------------------------------------------------------------------
(* The failure monitor. *)

(* A worker that is looked at is left alone, or marked and remembered. *)
LEMMA VisitStep ==
  ASSUME IInv, Visit, visited' \in DOMAIN worker_order, monitor' = "sweeping",
         lock # "main", lock' = "monitor", table_size' = Len(worker_order),
         UNCHANGED <<task_vars, worker_order, generation, stale, main, accepted,
                     connection, thread_vars>>
  PROVE  IInv'
<1> USE SchedulerAssumption, ThreadedAssumption
<1>1. TypeOK /\ MonitorInv /\ MainInv /\ Distinct
  BY DEF IInv
<1>2. /\ worker_order \in Seq(Workers) /\ found \in Seq(Workers)
      /\ Len(worker_order) \in Nat /\ DOMAIN worker_order = 1 .. Len(worker_order)
  BY <1>1, SMT DEF TypeOK, SchedulerTypeOK
<1>3. PICK w \in Workers : w = worker_order[visited']
  BY <1>2, SMT
<1>4. \/ worker_status' = worker_status /\ found' = found
      \/ /\ worker_status' = [x \in Workers |-> IF x = w THEN "FAILED" ELSE worker_status[x]]
         /\ found' = Append(found, w)
  BY <1>3 DEF Visit, update_status
<1>5. /\ found' \in Seq(Workers) /\ Found \subseteq Found'
      /\ \A x \in Found' : x \in Found \/ worker_status'[x] = "FAILED"
      /\ \A x \in Workers : \/ worker_status'[x] = worker_status[x]
                            \/ worker_status'[x] = "FAILED" /\ x \in Found'
      /\ \A x \in Workers : worker_status[x] = "FAILED" => worker_status'[x] = "FAILED"
      /\ worker_status' \in [Workers -> WorkerStatus \cup {"ABSENT"}]
  <2>1. CASE worker_status' = worker_status /\ found' = found
    BY <1>1, <1>2, <2>1 DEF Found, TypeOK, SchedulerTypeOK
  <2>2. CASE /\ worker_status' = [x \in Workers |-> IF x = w THEN "FAILED" ELSE worker_status[x]]
             /\ found' = Append(found, w)
    <3>1. /\ found' \in Seq(Workers) /\ Len(found) \in Nat
          /\ DOMAIN found = 1 .. Len(found) /\ DOMAIN found' = 1 .. Len(found) + 1
          /\ \A i \in 1 .. Len(found) : found'[i] = found[i]
          /\ found'[Len(found) + 1] = w
      BY <1>2, <2>2, AppendElements, SMT
    <3>2. \A i \in DOMAIN found' : i \in DOMAIN found \/ i = Len(found) + 1
      BY <3>1, SMT
    <3>3. Found \subseteq Found' /\ w \in Found' /\ \A x \in Found' : x \in Found \/ x = w
      BY <3>1, <3>2, SMT DEF Found
    <3>4. QED
      BY <1>1, <2>2, <3>1, <3>3 DEF TypeOK, SchedulerTypeOK, WorkerStatus
  <2>3. QED
    BY <1>4, <2>1, <2>2
<1>6. visited' \in 1 .. Len(worker_order) /\ visited' \in 0 .. EXPECTED_WORKERS
  BY <1>1, <1>2, SMT DEF MainInv, TypeOK
<1>7. TypeOK'
  BY <1>1, <1>2, <1>5, <1>6 DEF TypeOK, SchedulerTypeOK, task_vars, thread_vars
<1>8. MainInv' /\ DrainIsComplete' /\ Fresh' = Fresh
  BY <1>5, SweepKept DEF task_vars
<1>9. ASSUME NEW t \in Tasks
      PROVE  TaskInv(t)' /\ ThreadInv(t)' /\ Covered(t)'
  <2>1. TaskInv(t) /\ ThreadInv(t) /\ Covered(t)
    BY DEF IInv
  <2>2. TaskInv(t)'
    BY <2>1 DEF TaskInv, task_vars, thread_vars
  <2>3. ThreadInv(t)'
    BY <1>5, <2>1
       DEF ThreadInv, TakenAway, is_current_attempt, task_vars, thread_vars
  <2>4. Covered(t)'
    BY <1>5, <2>1 DEF Covered, TaskInv, task_vars
  <2>5. QED
    BY <2>2, <2>3, <2>4
<1>10. Distinct'
  BY <1>1 DEF Distinct, Peer, task_vars, thread_vars
<1>11. MonitorInv'
  <2>1. ~Fresh => \A x \in Found' : worker_status'[x] = "FAILED"
    <3>1. \A x \in Found : x \in Workers
      BY <1>2, SMT DEF Found
    <3>2. QED
      BY <1>1, <1>5, <3>1 DEF MonitorInv
  <2>2. QED
    BY <1>2, <1>6, <1>8, <2>1, SMT DEF MonitorInv
<1>12. QED
  BY <1>7, <1>8, <1>9, <1>10, <1>11 DEF IInv

(* The monitor gives up the lock: nothing it marked is left over, or no    *)
(* task was ever assigned.                                                 *)
LEMMA MonitorRestsStep ==
  ASSUME IInv, lock = "monitor", Fresh \/ found = <<>>,
         monitor' \in {"dead", "waiting"}, visited' = 0, found' = <<>>, table_size' = 0,
         lock' = "free",
         UNCHANGED <<task_vars, worker_vars, main, accepted, connection, thread_vars>>
  PROVE  IInv'
<1> USE SchedulerAssumption, ThreadedAssumption
<1>1. TypeOK /\ MonitorInv /\ MainInv /\ Distinct
  BY DEF IInv
<1>2. TypeOK'
  BY <1>1, SMT DEF TypeOK, SchedulerTypeOK, task_vars, worker_vars, thread_vars
<1>3. MainInv' /\ DrainIsComplete' /\ Fresh' = Fresh
  BY SweepKept DEF task_vars, worker_vars
<1>4. ASSUME NEW t \in Tasks
      PROVE  TaskInv(t)' /\ ThreadInv(t)' /\ Covered(t)'
  <2>1. TaskInv(t) /\ ThreadInv(t) /\ Covered(t)
    BY DEF IInv
  <2>2. TaskInv(t)'
    BY <2>1 DEF TaskInv, task_vars, thread_vars
  <2>3. ThreadInv(t)'
    BY <2>1
       DEF ThreadInv, TakenAway, is_current_attempt, task_vars, thread_vars, worker_vars
  <2>4. status[t] \in InFlight => worker_status[assigned_worker_id[t]] = "BUSY"
    <3>1. CASE Fresh
      BY <2>1, <3>1 DEF Fresh, TaskInv, InFlight
    <3>2. CASE found = <<>>
      BY <2>1, <3>2, SMT DEF Covered, Found
    <3>3. QED
      BY <3>1, <3>2
  <2>5. Covered(t)'
    BY <2>4 DEF Covered, task_vars, worker_vars
  <2>6. QED
    BY <2>2, <2>3, <2>5
<1>5. Distinct'
  BY <1>1 DEF Distinct, Peer, task_vars, thread_vars
<1>6. MonitorInv'
  BY SMT DEF MonitorInv, Found
<1>7. QED
  BY <1>2, <1>3, <1>4, <1>5, <1>6 DEF IInv

LEMMA SweepStep ==
  ASSUME IInv, SweepBegins \/ SweepGoesOn
  PROVE  IInv'
<1> USE SchedulerAssumption, ThreadedAssumption
<1>1. TypeOK /\ MonitorInv /\ MainInv
  BY DEF IInv
<1>2. /\ UNCHANGED <<task_vars, worker_order, generation, stale, main, accepted,
                     connection, thread_vars>>
  BY DEF SweepBegins, SweepGoesOn
<1>3. /\ worker_order \in Seq(Workers) /\ Len(worker_order) \in Nat
      /\ DOMAIN worker_order = 1 .. Len(worker_order) /\ table_size \in Nat
  BY <1>1, SMT DEF TypeOK, SchedulerTypeOK
<1>4. CASE SweepBegins
  <2>1. 1 \in DOMAIN worker_order
    BY <1>3, <1>4, SMT DEF SweepBegins
  <2>2. QED
    BY <1>2, <1>4, <2>1, VisitStep DEF SweepBegins
<1>5. CASE SweepGoesOn
  <2>1. monitor = "sweeping" /\ lock = "monitor" /\ visited \in 1 .. Len(worker_order)
    BY <1>1, <1>5 DEF SweepGoesOn, MonitorInv
  <2>2. CASE Len(worker_order) # table_size
    <3>1. Fresh
      BY <1>1, <2>1, <2>2 DEF MonitorInv
    <3>2. MonitorDies
      BY <1>5, <2>2 DEF SweepGoesOn
    <3>3. QED
      BY <1>2, <2>1, <3>1, <3>2, MonitorRestsStep DEF MonitorDies, worker_vars
  <2>3. CASE Len(worker_order) = table_size /\ visited < table_size
    <3>1. /\ visited' = visited + 1 /\ Visit
          /\ UNCHANGED <<monitor, table_size, lock>>
      BY <1>5, <2>3 DEF SweepGoesOn
    <3>2. visited' \in DOMAIN worker_order
      BY <1>3, <2>1, <2>3, <3>1, SMT
    <3>3. QED
      BY <1>2, <2>1, <2>3, <3>1, <3>2, VisitStep
  <2>4. CASE Len(worker_order) = table_size /\ ~(visited < table_size)
    <3>1. /\ IF found = <<>> THEN MonitorWaits ELSE BeginRequeue
          /\ UNCHANGED worker_status
      BY <1>5, <2>4 DEF SweepGoesOn
    <3>2. CASE found = <<>>
      BY <1>2, <2>1, <3>1, <3>2, MonitorRestsStep DEF MonitorWaits, worker_vars
    <3>3. CASE found # <<>>
      <4>1. /\ monitor' = "requeueing" /\ visited' = 0 /\ table_size' = Len(task_order)
            /\ UNCHANGED <<found, lock, worker_status>>
        BY <3>1, <3>3 DEF BeginRequeue
      <4>2. Len(task_order) \in Nat
        BY <1>1, SMT DEF TypeOK, SchedulerTypeOK
      <4>3. TypeOK'
        BY <1>1, <1>2, <4>1, <4>2, SMT DEF TypeOK, SchedulerTypeOK, task_vars, thread_vars
      <4>4. MainInv' /\ DrainIsComplete' /\ Fresh' = Fresh
        BY <1>2, <2>1, <4>1, SweepKept DEF task_vars
      <4>5. Found' = Found
        BY <4>1 DEF Found
      <4>6. ASSUME NEW t \in Tasks
            PROVE  TaskInv(t)' /\ ThreadInv(t)' /\ Covered(t)'
        <5>1. TaskInv(t) /\ ThreadInv(t) /\ Covered(t)
          BY DEF IInv
        <5>2. TaskInv(t)' /\ ThreadInv(t)'
          BY <1>2, <4>1, <5>1
             DEF TaskInv, ThreadInv, TakenAway, is_current_attempt, task_vars, thread_vars
        <5>3. Covered(t)'
          BY <1>2, <4>1, <4>5, <5>1 DEF Covered, task_vars
        <5>4. QED
          BY <5>2, <5>3
      <4>7. Distinct'
        BY <1>2 DEF IInv, Distinct, Peer, task_vars, thread_vars
      <4>8. MonitorInv'
        BY <1>1, <1>2, <2>1, <3>3, <4>1, <4>4, <4>5 DEF MonitorInv, task_vars
      <4>9. QED
        BY <4>3, <4>4, <4>6, <4>7, <4>8 DEF IInv
    <3>4. QED
      BY <3>2, <3>3
  <2>5. QED
    BY <2>2, <2>3, <2>4
<1>6. QED
  BY <1>4, <1>5

(* The tasks of the first marked worker are requeued. *)
LEMMA RequeueStep ==
  ASSUME IInv, RequeueEnds
  PROVE  IInv'
<1> USE SchedulerAssumption, ThreadedAssumption
<1>1. TypeOK /\ MonitorInv /\ MainInv /\ Distinct
  BY DEF IInv
<1>2. monitor = "requeueing" /\ lock = "monitor" /\ found # <<>> /\ found \in Seq(Workers)
  BY <1>1 DEF RequeueEnds, MonitorInv, TypeOK
<1>3. CASE table_size \notin {0, Len(task_order)}
  <2>1. Fresh
    BY <1>1, <1>2, <1>3 DEF MonitorInv
  <2>2. MonitorDies /\ UNCHANGED <<task_vars, worker_order, generation, stale, main, accepted,
                                   connection, thread_vars>>
    BY <1>3 DEF RequeueEnds
  <2>3. QED
    BY <1>2, <2>1, <2>2, MonitorRestsStep DEF MonitorDies, worker_vars
<1>4. CASE table_size \in {0, Len(task_order)}
  <2>1. PICK h \in Workers : h = Head(found)
    BY <1>2, TailElements
  <2>2. /\ \A t \in Tasks : InFlightOn(t, {h}) =>
             status'[t] = Requeued(t) /\ assigned_worker_id'[t] = None
        /\ \A t \in Tasks : ~InFlightOn(t, {h}) =>
             status'[t] = status[t] /\ assigned_worker_id'[t] = assigned_worker_id[t]
        /\ status' = [t \in Tasks |-> status'[t]]
        /\ assigned_worker_id' = [t \in Tasks |-> assigned_worker_id'[t]]
        /\ UNCHANGED <<task_order, attempt>>
    BY <1>4, <2>1 DEF RequeueEnds, requeue_tasks_for_workers
  <2>3. UNCHANGED <<worker_order, worker_status, generation, stale, main, accepted,
                    connection, thread_vars>>
    BY <1>4 DEF RequeueEnds
  <2>4. \/ Len(found) = 1 /\ MonitorWaits
        \/ /\ Len(found) # 1 /\ found' = Tail(found) /\ table_size' = Len(task_order)
           /\ UNCHANGED <<monitor, visited, lock>>
    BY <1>4 DEF RequeueEnds
  <2>5. \A t \in Tasks : /\ Requeued(t) \in {"PENDING", "FAILED"}
                         /\ Requeued(t) = "PENDING" => attempt[t] < MAX_TASK_ATTEMPTS
    BY <1>1, SMT DEF Requeued, TypeOK, SchedulerTypeOK
  <2>6. /\ found' \in Seq(Workers) /\ Found' \subseteq Found
        /\ \A x \in Found : x = h \/ x \in Found'
    <3>1. /\ Len(found) \in Nat /\ Len(found) >= 1 /\ DOMAIN found = 1 .. Len(found)
          /\ h = found[1]
          /\ Tail(found) \in Seq(Workers) /\ DOMAIN Tail(found) = 1 .. Len(found) - 1
          /\ \A i \in 1 .. Len(found) - 1 : Tail(found)[i] = found[i + 1]
      BY <1>2, <2>1, TailElements
    <3>2. CASE Len(found) = 1
      <4>1. found' = <<>> /\ Found' = {}
        BY <2>4, <3>2, SMT DEF MonitorWaits, Found
      <4>2. Found = {h}
        BY <3>1, <3>2, SMT DEF Found
      <4>3. QED
        BY <4>1, <4>2, SMT
    <3>3. CASE Len(found) # 1
      <4>1. found' = Tail(found)
        BY <2>4, <3>3
      <4>2. ASSUME NEW i \in DOMAIN found, i # 1
            PROVE  i - 1 \in DOMAIN found' /\ found'[i - 1] = found[i]
        BY <3>1, <4>1, <4>2, SMT
      <4>3. ASSUME NEW i \in DOMAIN found'
            PROVE  i + 1 \in DOMAIN found /\ found'[i] = found[i + 1]
        BY <3>1, <4>1, <4>3, SMT
      <4>4. Found' \subseteq Found
        BY <4>3 DEF Found
      <4>5. \A x \in Found : x = h \/ x \in Found'
        BY <3>1, <4>2, SMT DEF Found
      <4>6. QED
        BY <3>1, <4>1, <4>4, <4>5
    <3>4. QED
      BY <3>2, <3>3
  <2>7. TypeOK'
    <3>1. /\ status' \in [Tasks -> TaskStatus \cup {"ABSENT"}]
          /\ assigned_worker_id' \in [Tasks -> Workers \cup {None}]
      <4>1. \A t \in Tasks : /\ status'[t] \in TaskStatus \cup {"ABSENT"}
                             /\ assigned_worker_id'[t] \in Workers \cup {None}
        BY <1>1, <2>2, <2>5 DEF TypeOK, SchedulerTypeOK, TaskStatus
      <4>2. QED
        BY <2>2, <4>1
    <3>2. Len(task_order) \in Nat
      BY <1>1, SMT DEF TypeOK, SchedulerTypeOK
    <3>3. /\ monitor' \in {"waiting", "requeueing"} /\ visited' = 0 /\ table_size' \in Nat
          /\ lock' \in {"free", "monitor"}
      BY <1>1, <1>2, <2>4, <3>2, SMT DEF MonitorWaits, MonitorInv
    <3>4. QED
      BY <1>1, <2>2, <2>3, <2>6, <3>1, <3>3, SMT DEF TypeOK, SchedulerTypeOK, thread_vars
  <2>8. MainInv' /\ DrainIsComplete' /\ Fresh' = Fresh
    <3>1. lock' # "main"
      BY <1>2, <2>4 DEF MonitorWaits
    <3>2. \A t \in Tasks : \/ status'[t] = status[t]
                           \/ status[t] \in InFlight /\ status'[t] \in {"PENDING", "FAILED"}
      BY <2>2, <2>5 DEF InFlightOn
    <3>3. QED
      BY <1>2, <2>2, <2>3, <3>1, <3>2, SweepKept
  <2>9. ASSUME NEW t \in Tasks
        PROVE  TaskInv(t)' /\ ThreadInv(t)' /\ Covered(t)'
    <3>1. TaskInv(t) /\ ThreadInv(t) /\ Covered(t)
      BY DEF IInv
    <3>2. CASE InFlightOn(t, {h})
      <4>1. /\ status'[t] \in {"PENDING", "FAILED"} /\ assigned_worker_id'[t] = None
            /\ status'[t] = "PENDING" => attempt'[t] < MAX_TASK_ATTEMPTS
            /\ attempt'[t] # 0
        BY <2>2, <2>5, <3>1, <3>2 DEF InFlightOn, TaskInv, InFlight
      <4>2. worker_status[h] = "FAILED"
        <5>1. ~Fresh
          BY <2>2, <4>1 DEF Fresh
        <5>2. h \in Found
          <6>1. /\ Len(found) \in Nat /\ Len(found) >= 1
                /\ DOMAIN found = 1 .. Len(found) /\ h = found[1]
            BY <1>2, <2>1, TailElements
          <6>2. 1 \in DOMAIN found
            BY <6>1, SMT
          <6>3. QED
            BY <6>1, <6>2 DEF Found
        <5>3. QED
          BY <1>1, <5>1, <5>2 DEF MonitorInv
      <4>3. thread[t] \in {"captured", "waiting"} => captured[t].worker = h
        BY <3>1, <3>2 DEF ThreadInv, InFlightOn, TakenAway, is_current_attempt, InFlight
      <4>4. TaskInv(t)' /\ Covered(t)'
        BY <4>1 DEF TaskInv, Covered, InFlight
      <4>5. ThreadInv(t)'
        BY <2>3, <3>1, <4>1, <4>2, <4>3 DEF ThreadInv, TakenAway, InFlight, thread_vars
      <4>6. QED
        BY <4>4, <4>5
    <3>3. CASE ~InFlightOn(t, {h})
      <4>1. status'[t] = status[t] /\ assigned_worker_id'[t] = assigned_worker_id[t]
        BY <2>2, <3>3
      <4>2. TaskInv(t)'
        BY <2>2, <2>3, <3>1, <4>1 DEF TaskInv, thread_vars
      <4>3. ThreadInv(t)'
        BY <2>2, <2>3, <3>1, <4>1
           DEF ThreadInv, TakenAway, is_current_attempt, thread_vars
      <4>4. Covered(t)'
        BY <2>3, <2>6, <3>1, <3>3, <4>1 DEF Covered, InFlightOn
      <4>5. QED
        BY <4>2, <4>3, <4>4
    <3>4. QED
      BY <3>2, <3>3
  <2>10. Distinct'
    <3>1. \A t \in Tasks : Peer(t)' \in {Peer(t), None}
      BY <2>2, <2>3 DEF Peer, thread_vars
    <3>2. QED
      BY <1>1, <2>3, <3>1 DEF Distinct, thread_vars
  <2>11. MonitorInv'
    <3>1. CASE Len(found) = 1
      BY <2>4, <3>1, SMT DEF MonitorWaits, MonitorInv, Found
    <3>2. CASE Len(found) # 1
      <4>1. found' # <<>>
        <5>1. PICK n : n = Len(found)
          OBVIOUS
        <5>2. n \in Nat /\ n >= 1 /\ DOMAIN found' = 1 .. n - 1
          BY <1>2, <2>4, <3>2, <5>1, TailElements
        <5>3. 1 \in 1 .. n - 1
          BY <3>2, <5>1, <5>2, SMT
        <5>4. QED
          BY <5>2, <5>3, SMT
      <4>2. QED
        BY <1>1, <1>2, <2>2, <2>3, <2>4, <2>6, <2>8, <3>2, <4>1 DEF MonitorInv
    <3>3. QED
      BY <3>1, <3>2
  <2>12. QED
    BY <2>7, <2>8, <2>9, <2>10, <2>11 DEF IInv
<1>5. QED
  BY <1>3, <1>4

-----------------------------------------------------------------------------
(* The steps together. *)

LEMMA InitIInv == Init => IInv
<1> SUFFICES ASSUME Init
             PROVE  IInv
  OBVIOUS
<1> USE SchedulerAssumption, ThreadedAssumption
<1>1. /\ \A t \in Tasks : /\ status[t] = "ABSENT" /\ attempt[t] = 0 /\ thread[t] = "none"
                          /\ assigned_worker_id[t] = None
      /\ task_order = <<>> /\ worker_order = <<>> /\ found = <<>> /\ Len(worker_order) = 0
  BY DEF Init, SchedulerInit
<1>2. TypeOK
  <2>1. SchedulerTypeOK
    BY SMT DEF Init, SchedulerInit, SchedulerTypeOK
  <2>2. Nothing \in Captures
    BY SMT DEF Nothing, Captures
  <2>3. QED
    BY <2>1, <2>2, SMT DEF Init, TypeOK
<1>3. \A t \in Tasks : TaskInv(t) /\ ThreadInv(t) /\ Covered(t)
  BY <1>1 DEF TaskInv, ThreadInv, Covered, InFlight
<1>4. Distinct
  BY <1>1 DEF Distinct
<1>5. Fresh /\ Found = {}
  BY <1>1, SMT DEF Fresh, Found
<1>6. MonitorInv /\ MainInv /\ DrainIsComplete
  BY <1>1, <1>5, SMT DEF Init, MonitorInv, MainInv, Early, DrainIsComplete
<1>7. QED
  BY <1>2, <1>3, <1>4, <1>6 DEF IInv

LEMMA NextIInv == IInv /\ [Next]_vars => IInv'
<1> SUFFICES ASSUME IInv, [Next]_vars
             PROVE  IInv'
  OBVIOUS
<1>1. CASE \E t \in Tasks : Submits(t)
  BY <1>1, SubmitsStep
<1>2. CASE \E t \in Tasks, w \in Workers : Assigns(t, w)
  BY <1>2, AssignsStep
<1>3. CASE \E w \in Workers : Registers(w)
  BY <1>3, RegistersStep
<1>4. CASE \/ BeginsRound \/ EndsRound \/ Joins \/ Stops \/ RegistrationLost
           \/ \E w \in Workers : \/ Refuses(w) \/ RecordsHeartbeat(w)
                                 \/ FallsSilent(w) \/ WorkerLost(w)
  <2>1. UNCHANGED <<task_vars, thread_vars, worker_order, worker_status, generation,
                    monitor_vars, accepted>>
    BY <1>4 DEF BeginsRound, EndsRound, Joins, Stops, RegistrationLost, Refuses,
                RecordsHeartbeat, FallsSilent, WorkerLost, worker_vars
  <2>2. QED
    BY <1>4, <2>1, AsideStep
<1>5. CASE \E t \in Tasks : Dispatch(t)
  BY <1>5, ReadsAssignmentStep, StartsTaskStep, GetsAnswerStep, FindsLostStep DEF Dispatch
<1>6. CASE SweepBegins \/ SweepGoesOn
  BY <1>6, SweepStep
<1>7. CASE RequeueEnds
  BY <1>7, RequeueStep
<1>8. CASE UNCHANGED vars
  <2>1. /\ UNCHANGED <<task_vars, thread_vars, worker_order, worker_status, generation, stale,
                       monitor_vars, main, accepted, connection, lock>>
    BY <1>8 DEF vars, worker_vars
  <2>2. /\ \A t \in Tasks : TaskInv(t)' /\ ThreadInv(t)' /\ Covered(t)'
        /\ Distinct' /\ Fresh' = Fresh /\ Found' = Found
    BY <2>1, AsideKept
  <2>3. TypeOK'
    BY <2>1 DEF IInv, TypeOK, SchedulerTypeOK, task_vars, thread_vars, monitor_vars
  <2>4. MonitorInv'
    BY <2>1, <2>2 DEF IInv, MonitorInv, task_vars, monitor_vars
  <2>5. MainInv'
    BY <2>1, <2>2 DEF IInv, MainInv, task_vars, thread_vars
  <2>6. DrainIsComplete'
    BY <2>1 DEF IInv, DrainIsComplete, task_vars
  <2>7. QED
    BY <2>2, <2>3, <2>4, <2>5, <2>6 DEF IInv
<1>9. QED
  BY <1>1, <1>2, <1>3, <1>4, <1>5, <1>6, <1>7, <1>8 DEF Next, Main

-----------------------------------------------------------------------------
(* The theorems. *)

(* The inductive invariant holds of every execution of the threaded master; *)
(* it contains the type invariant.                                          *)
THEOREM ThreadedInvariant == Spec => []IInv
BY InitIInv, NextIInv, PTL DEF Spec

(* No two dispatch threads ever wait for an answer on the same connection. *)
THEOREM OneReaderPerConnectionHolds == Spec => []OneReaderPerConnection
<1>1. IInv => OneReaderPerConnection
  <2> SUFFICES ASSUME IInv, NEW t \in Tasks, NEW u \in Tasks, t # u,
                      thread[t] = "waiting", thread[u] = "waiting",
                      captured[t].worker = captured[u].worker
               PROVE  FALSE
    BY DEF OneReaderPerConnection
  <2>1. captured[t].worker = None
    BY DEF IInv, Distinct, Peer
  <2>2. captured[t].worker \in Workers
    BY DEF IInv, ThreadInv
  <2>3. QED
    BY <2>1, <2>2, SchedulerAssumption
<1>2. QED
  BY <1>1, ThreadedInvariant, PTL

(* Whenever the monitor does not hold _state_lock, the worker of every task *)
(* in flight is BUSY: none is left with a failed worker.                    *)
THEOREM FailedWorkerHasNoTaskHolds == Spec => []FailedWorkerHasNoTask
<1>1. IInv => FailedWorkerHasNoTask
  BY SMT DEF IInv, MonitorInv, Covered, Found, FailedWorkerHasNoTask
<1>2. QED
  BY <1>1, ThreadedInvariant, PTL

(* When drain_pending_tasks returns, every task is over, or waits while no *)
(* worker is left that could take it.                                      *)
THEOREM DrainIsCompleteHolds == Spec => []DrainIsComplete
<1>1. IInv => DrainIsComplete
  BY DEF IInv
<1>2. QED
  BY <1>1, ThreadedInvariant, PTL

(* The step that ends the failure monitor is never taken once a task was   *)
(* assigned.                                                               *)
THEOREM MonitorSurvivesDrainHolds == Spec => MonitorSurvivesDrain
<1> DEFINE Survives == \/ monitor = "dead" \/ monitor' # "dead"
                       \/ \A t \in Tasks : attempt[t] = 0
<1>1. IInv /\ [Next]_vars => [Survives]_vars
  <2> SUFFICES ASSUME IInv, Next, monitor # "dead", monitor' = "dead"
               PROVE  Fresh
    BY DEF Fresh
  <2>1. SweepGoesOn \/ RequeueEnds
    <3>1. CASE Main
      BY <3>1 DEF Main, Submits, BeginsRound, EndsRound, Joins, Stops, Assigns, monitor_vars
    <3>2. CASE RegistrationLost \/ \E w \in Workers :
                 \/ Registers(w) \/ Refuses(w)
                 \/ RecordsHeartbeat(w) \/ FallsSilent(w) \/ WorkerLost(w)
      BY <3>2 DEF RegistrationLost, Registers, Refuses, RecordsHeartbeat, FallsSilent,
                  WorkerLost, monitor_vars
    <3>3. CASE \E t \in Tasks : Dispatch(t)
      BY <3>3 DEF Dispatch, ReadsAssignment, StartsTask, GetsAnswer, FindsLost, monitor_vars
    <3>4. CASE SweepBegins
      BY <3>4 DEF SweepBegins
    <3>5. QED
      BY <3>1, <3>2, <3>3, <3>4 DEF Next
  <2>2. CASE SweepGoesOn
    <3>1. monitor = "sweeping" /\ Len(worker_order) # table_size
      BY <2>2 DEF SweepGoesOn, MonitorWaits, BeginRequeue
    <3>2. QED
      BY <3>1 DEF IInv, MonitorInv
  <2>3. CASE RequeueEnds
    <3>1. monitor = "requeueing" /\ table_size # Len(task_order)
      BY <2>3 DEF RequeueEnds, MonitorWaits
    <3>2. QED
      BY <3>1 DEF IInv, MonitorInv
  <2>4. QED
    BY <2>1, <2>2, <2>3
<1>2. QED
  BY <1>1, ThreadedInvariant, PTL DEF Spec, MonitorSurvivesDrain

-----------------------------------------------------------------------------
(* The life cycle of every task. *)

(* A step that leaves a task alone. *)
LEMMA RefineStutter ==
  ASSUME NEW t \in Tasks, status'[t] = status[t], attempt'[t] = attempt[t]
  PROVE  Lifecycle!Stutter(t)
BY DEF Lifecycle!Stutter, Lifecycle!KeepAttempt, Lifecycle!KeepResponse

(* A requeue: a retry, or the end of the last attempt. *)
LEMMA RefineRequeue ==
  ASSUME IInv, NEW W \in SUBSET Workers, requeue_tasks_for_workers(W), NEW t \in Tasks
  PROVE  Lifecycle!Step(t) \/ Lifecycle!Stutter(t)
<1> USE SchedulerAssumption
<1>1. attempt[t] \in 0 .. MAX_TASK_ATTEMPTS /\ attempt'[t] = attempt[t]
  BY DEF IInv, TypeOK, SchedulerTypeOK, requeue_tasks_for_workers
<1>2. CASE ~InFlightOn(t, W)
  <2>1. status'[t] = status[t]
    BY <1>2 DEF requeue_tasks_for_workers
  <2>2. QED
    BY <1>1, <2>1, RefineStutter
<1>3. CASE InFlightOn(t, W)
  <2>1. status[t] \in {"ASSIGNED", "RUNNING"} /\ status'[t] = Requeued(t)
    BY <1>3 DEF requeue_tasks_for_workers, InFlightOn, InFlight
  <2>2. CASE attempt[t] >= MAX_TASK_ATTEMPTS
    <3>1. Lifecycle!GiveUp(t)
      BY <1>1, <2>1, <2>2, SMT DEF Lifecycle!GiveUp, Lifecycle!Move, Lifecycle!KeepAttempt,
                              Lifecycle!KeepResponse, Requeued
    <3>2. QED
      BY <3>1 DEF Lifecycle!Step
  <2>3. CASE ~(attempt[t] >= MAX_TASK_ATTEMPTS)
    <3>1. Lifecycle!Retry(t)
      BY <1>1, <2>1, <2>3, SMT DEF Lifecycle!Retry, Lifecycle!Move, Lifecycle!KeepAttempt,
                              Lifecycle!KeepResponse, Requeued
    <3>2. QED
      BY <3>1 DEF Lifecycle!Step
  <2>4. QED
    BY <2>2, <2>3
<1>4. QED
  BY <1>2, <1>3

(* The steps of main. *)
LEMMA RefineMain ==
  ASSUME IInv, Main, NEW u \in Tasks
  PROVE  Lifecycle!Step(u) \/ Lifecycle!Stutter(u)
<1> USE DEF Lifecycle!KeepAttempt, Lifecycle!KeepResponse
<1>1. status \in [Tasks -> TaskStatus \cup {"ABSENT"}] /\ attempt \in [Tasks -> 0 .. MAX_TASK_ATTEMPTS]
  BY DEF IInv, TypeOK, SchedulerTypeOK
<1>2. ASSUME NEW t \in Tasks, Submits(t)
      PROVE  Lifecycle!Step(u) \/ Lifecycle!Stutter(u)
  <2>1. /\ status[t] = "ABSENT" /\ status' = [status EXCEPT ![t] = "PENDING"] /\ attempt' = attempt
    BY <1>2 DEF Submits, submit_task
  <2>2. CASE u = t
    <3>1. Lifecycle!Submit(u)
      BY <1>1, <2>1, <2>2 DEF Lifecycle!Submit, Lifecycle!Move
    <3>2. QED
      BY <3>1 DEF Lifecycle!Step
  <2>3. CASE u # t
    BY <1>1, <2>1, <2>3, RefineStutter
  <2>4. QED
    BY <2>2, <2>3
<1>3. ASSUME NEW t \in Tasks, NEW w \in Workers, Assigns(t, w)
      PROVE  Lifecycle!Step(u) \/ Lifecycle!Stutter(u)
  <2>1. /\ status[t] = "PENDING" /\ status' = [status EXCEPT ![t] = "ASSIGNED"]
        /\ attempt' = [attempt EXCEPT ![t] = @ + 1]
    BY <1>3 DEF Assigns, assign_next_pending_task, OldestPending, assign_task
  <2>2. attempt[t] < MAX_TASK_ATTEMPTS
    BY <2>1 DEF IInv, TaskInv
  <2>3. CASE u = t
    <3>1. Lifecycle!Assign(u)
      BY <1>1, <2>1, <2>2, <2>3 DEF Lifecycle!Assign, Lifecycle!Move
    <3>2. QED
      BY <3>1 DEF Lifecycle!Step
  <2>4. CASE u # t
    BY <1>1, <2>1, <2>4, RefineStutter
  <2>5. QED
    BY <2>3, <2>4
<1>4. CASE BeginsRound \/ EndsRound \/ Joins \/ Stops
  BY <1>4, RefineStutter DEF BeginsRound, EndsRound, Joins, Stops, task_vars
<1>5. QED
  BY <1>2, <1>3, <1>4 DEF Main

(* The steps of a dispatch thread. *)
LEMMA RefineDispatch ==
  ASSUME IInv, NEW t \in Tasks, Dispatch(t), NEW u \in Tasks
  PROVE  Lifecycle!Step(u) \/ Lifecycle!Stutter(u)
<1> USE DEF Lifecycle!KeepAttempt, Lifecycle!KeepResponse
<1>1. status \in [Tasks -> TaskStatus \cup {"ABSENT"}]
  BY DEF IInv, TypeOK, SchedulerTypeOK
<1>2. CASE ReadsAssignment(t)
  BY <1>2, RefineStutter DEF ReadsAssignment, task_vars
<1>3. CASE StartsTask(t)
  <2>1. CASE status[t] # "ASSIGNED"
    BY <1>3, <2>1, RefineStutter DEF StartsTask, task_vars
  <2>2. CASE status[t] = "ASSIGNED"
    <3>1. status' = [status EXCEPT ![t] = "RUNNING"] /\ attempt' = attempt
      BY <1>3, <2>2 DEF StartsTask, start_task
    <3>2. CASE u = t
      <4>1. Lifecycle!Start(u)
        BY <1>1, <2>2, <3>1, <3>2 DEF Lifecycle!Start, Lifecycle!Move
      <4>2. QED
        BY <4>1 DEF Lifecycle!Step
    <3>3. CASE u # t
      BY <1>1, <3>1, <3>3, RefineStutter
    <3>4. QED
      BY <3>2, <3>3
  <2>3. QED
    BY <2>1, <2>2
<1>4. ASSUME NEW success \in BOOLEAN, GetsAnswer(t, success)
      PROVE  Lifecycle!Step(u) \/ Lifecycle!Stutter(u)
  <2>1. CASE ~is_current_attempt(t)
    BY <1>4, <2>1, RefineStutter DEF GetsAnswer, task_vars
  <2>2. CASE is_current_attempt(t)
    <3>1. status[t] = "RUNNING"
      BY <1>4, <2>2, OwnerOrTakenAway DEF GetsAnswer
    <3>2. complete_task(t) \/ fail_task(t)
      BY <1>4, <2>2 DEF GetsAnswer
    <3>3. PICK s \in {"COMPLETED", "FAILED"} :
            status' = [status EXCEPT ![t] = s] /\ attempt' = attempt
      BY <3>2 DEF complete_task, fail_task
    <3>4. CASE u = t
      <4>1. Lifecycle!Finish(u)
        BY <1>1, <3>1, <3>3, <3>4 DEF Lifecycle!Finish, Lifecycle!Move
      <4>2. QED
        BY <4>1 DEF Lifecycle!Step
    <3>5. CASE u # t
      BY <1>1, <3>3, <3>5, RefineStutter
    <3>6. QED
      BY <3>4, <3>5
  <2>3. QED
    BY <2>1, <2>2
<1>5. CASE FindsLost(t)
  <2>1. CASE ~is_current_attempt(t)
    BY <1>5, <2>1, RefineStutter DEF FindsLost, task_vars
  <2>2. CASE is_current_attempt(t)
    <3>1. captured[t].worker \in Workers
      BY <1>5, OwnerOrTakenAway DEF FindsLost
    <3>2. requeue_tasks_for_workers({captured[t].worker})
      BY <1>5, <2>2 DEF FindsLost, FailAndRequeue
    <3>3. {captured[t].worker} \in SUBSET Workers
      BY <3>1
    <3>4. QED
      BY <3>2, <3>3, RefineRequeue
  <2>3. QED
    BY <2>1, <2>2
<1>6. QED
  BY <1>2, <1>3, <1>4, <1>5 DEF Dispatch

LEMMA RefineNext ==
  ASSUME IInv, Next
  PROVE  Lifecycle!Next
<1> SUFFICES ASSUME NEW u \in Tasks
             PROVE  Lifecycle!Step(u) \/ Lifecycle!Stutter(u)
  BY DEF Lifecycle!Next
<1>1. CASE Main
  BY <1>1, RefineMain
<1>2. CASE \E t \in Tasks : Dispatch(t)
  BY <1>2, RefineDispatch
<1>3. CASE RequeueEnds
  <2>1. CASE UNCHANGED task_vars
    BY <2>1, RefineStutter DEF task_vars
  <2>2. CASE requeue_tasks_for_workers({Head(found)})
    <3>1. found \in Seq(Workers) /\ found # <<>>
      BY <1>3 DEF IInv, TypeOK, MonitorInv, RequeueEnds
    <3>2. {Head(found)} \in SUBSET Workers
      BY <3>1, TailElements
    <3>3. QED
      BY <2>2, <3>2, RefineRequeue
  <2>3. QED
    BY <1>3, <2>1, <2>2 DEF RequeueEnds
<1>4. CASE \/ RegistrationLost \/ SweepBegins \/ SweepGoesOn
           \/ \E w \in Workers : \/ Registers(w) \/ Refuses(w)
                                 \/ RecordsHeartbeat(w) \/ FallsSilent(w) \/ WorkerLost(w)
  <2>1. UNCHANGED task_vars
    BY <1>4 DEF RegistrationLost, SweepBegins, SweepGoesOn, Registers, Refuses,
                RecordsHeartbeat, FallsSilent, WorkerLost
  <2>2. QED
    BY <2>1, RefineStutter DEF task_vars
<1>5. QED
  BY <1>1, <1>2, <1>3, <1>4 DEF Next

(* The threaded master implements the life cycle: whatever its threads, its *)
(* monitor and its workers do, a task makes only the transitions of         *)
(* TaskLifecycle, so it is retried within its budget and ends once.         *)
THEOREM ThreadedRefinement == Spec => ImplementsLifecycle
<1>1. Init => Lifecycle!Init
  BY DEF Init, SchedulerInit, Lifecycle!Init
<1>2. IInv /\ [Next]_vars => [Lifecycle!Next]_(Lifecycle!vars)
  <2>1. ASSUME IInv, Next PROVE Lifecycle!Next
    BY <2>1, RefineNext
  <2>2. UNCHANGED vars => UNCHANGED Lifecycle!vars
    BY DEF vars, task_vars, Lifecycle!vars
  <2>3. QED
    BY <2>1, <2>2
<1>3. QED
  BY <1>1, <1>2, ThreadedInvariant, PTL DEF Spec, ImplementsLifecycle, Lifecycle!Spec

=============================================================================
