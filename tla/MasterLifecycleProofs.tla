------------------------ MODULE MasterLifecycleProofs ------------------------
(***************************************************************************)
(* Proofs about start_master and stop_master, the failure monitor's        *)
(* fallback drain and a job in drain_tasks_for, for every number of tasks, *)
(* workers, attempts, dispatcher loops and restarts.                       *)
(***************************************************************************)
EXTENDS MasterLifecycle, FiniteSetTheorems, TLAPS

(* Most leaves are first-order: they are Zenon's unless they name a prover. *)
USE Zenon

-----------------------------------------------------------------------------
(* The inductive invariant, first what holds whoever calls. *)

(* Each task and each worker is listed once. *)
OrderInv ==
  /\ \A i, j \in DOMAIN task_order : task_order[i] = task_order[j] => i = j
  /\ \A i \in DOMAIN task_order : status[task_order[i]] # "ABSENT"
  /\ \A i, j \in DOMAIN worker_order : worker_order[i] = worker_order[j] => i = j
  /\ \A i \in DOMAIN worker_order : worker_status[worker_order[i]] # "ABSENT"

(* The attempt of a task fits its status. *)
StatusInv ==
  \A t \in Tasks :
    /\ status[t] = "ABSENT" => attempt[t] = 0
    /\ status[t] = "PENDING" => attempt[t] < MAX_TASK_ATTEMPTS
    /\ status[t] \in InFlight \cup Terminal => attempt[t] > 0

(* A task in flight has a BUSY worker, for itself. *)
WorkerInv ==
  /\ \A t \in Tasks : status[t] \in InFlight =>
       /\ assigned_worker_id[t] \in Workers
       /\ worker_status[assigned_worker_id[t]] = "BUSY"
  /\ \A t, u \in Tasks :
       status[t] \in InFlight /\ status[u] \in InFlight
       /\ assigned_worker_id[t] = assigned_worker_id[u] => t = u

(* An attempt that nobody made has no dispatch yet. *)
SpawnInv ==
  \A a \in Attempts :
    /\ co[a].pc # "none" => a[2] <= attempt[a[1]]
    /\ co[a].pc = "none" <=> co[a].by = "none"

(* A dispatch that awaits its reply read an attempt no other one did.  It  *)
(* is the last attempt until the next assignment; until then the task runs *)
(* on its worker or was taken from it.                                     *)
AwaitInv ==
  /\ \A a \in Attempts : co[a].pc = "awaiting" =>
       /\ co[a].worker \in Workers
       /\ a[2] <= co[a].attempt
       /\ co[a].attempt <= attempt[a[1]]
       /\ co[a].attempt = attempt[a[1]] =>
            \/ status[a[1]] = "RUNNING" /\ assigned_worker_id[a[1]] = co[a].worker
            \/ status[a[1]] \in {"PENDING", "FAILED"} /\ assigned_worker_id[a[1]] = None
  /\ \A a, b \in Attempts :
       co[a].pc = "awaiting" /\ co[b].pc = "awaiting"
       /\ a[1] = b[1] /\ co[a].attempt = co[b].attempt => a = b

(* The job has a dispatch only while it drains, and of its own tasks. *)
JobInv ==
  /\ task_ids = {} => job = "none"
  /\ \A a \in Attempts : co[a].by = "job" => a[1] \in task_ids
  /\ \A a \in Attempts : Live(a) /\ co[a].by = "job" => job = "draining"

(* A dispatch of the job that is over has returned a success, or its task  *)
(* was taken from it or has failed, or the job has raised.                 *)
ReportInv ==
  /\ job # "raised" => \A a \in Attempts :
       co[a].pc = "done" /\ co[a].by = "job" /\ a[2] = attempt[a[1]] =>
         \/ status[a[1]] \in {"PENDING", "FAILED"}
         \/ status[a[1]] = "COMPLETED" /\ a[1] \in responses
  /\ job = "returned" => \A t \in task_ids : status[t] \in Terminal

TaskInv == TypeOK /\ OrderInv /\ StatusInv /\ WorkerInv /\ SpawnInv /\ AwaitInv
             /\ JobInv /\ ReportInv

(* What holds if nobody calls wait_for_tasks while the master stops. *)

(* The loop that is not over is the one the variable refers to. *)
LoopInv ==
  /\ \A l \in Loops :
       /\ loop[l] \in {"running", "due", "stopping"} => _dispatcher_task = l
       /\ loop[l] = "running" => main \in {"up", "server"}
       /\ loop[l] \in {"due", "stopping"} => main = "dispatcher"
  /\ main = "dispatcher" =>
       /\ awaited_loop \in Loops
       /\ _dispatcher_task = awaited_loop
       /\ loop[awaited_loop] \in {"due", "stopping", "returned", "early"}

(* No dispatcher has returned ahead of the coroutines of its last tick. *)
NoneEarly == \A l \in Loops : loop[l] # "early"

(* Without a dispatcher there is no dispatch of it, but for those that     *)
(* stop_dispatcher awaits.                                                 *)
DispatchInv ==
  \A a \in Attempts : Live(a) /\ co[a].by = "loop" =>
    /\ co[a].pc = "spawned" /\ NoneEarly => is_dispatcher_running
    /\ \/ main \in {"up", "server"} /\ is_dispatcher_running
       \/ main = "dispatcher"
       \/ main = "dispatches" /\ a \in awaited

(* The monitor lives until stop_master awaits it, its dispatches while it  *)
(* drains.                                                                 *)
MonitorInv ==
  /\ monitor \in {"idle", "due", "ticked", "draining"} =>
       main \in {"up", "server", "dispatcher", "dispatches", "monitor"}
  /\ \A a \in Attempts : Live(a) /\ co[a].by = "monitor" => monitor = "draining"

(* Once stop_master has returned, the connections and the registry are     *)
(* empty; only a dispatch of a job, or an abandoned one, may record a      *)
(* response after that.                                                    *)
DownInv ==
  main = "down" =>
    /\ \A w \in Workers : link[w] = "none"
    /\ waiting = {}
    /\ \A t \in recorded :
         \E a \in Attempts : a[1] = t /\ co[a].by \in {"job", "orphan"}

(* Unless there was a job or an early return, nothing is abandoned, and    *)
(* while the monitor falls back each new dispatch finds its own attempt.   *)
RecoveryInv ==
  task_ids = {} /\ NoneEarly =>
    /\ \A a \in Attempts : co[a].by \notin {"job", "orphan"}
    /\ monitor \in {"ticked", "draining"} => \A a \in Attempts :
         co[a].pc = "spawned" =>
           status[a[1]] = "ASSIGNED" /\ a[2] = attempt[a[1]]

StopInv == LoopInv /\ DispatchInv /\ MonitorInv /\ DownInv /\ RecoveryInv

-----------------------------------------------------------------------------
(* What a round of drain_tasks_for assigns. *)

(* More elements of S come before a later position than before an earlier  *)
(* one that has one.                                                       *)
LEMMA AheadGrows ==
  ASSUME NEW s, NEW S, NEW i \in Nat, NEW j \in Nat, 1 <= i, i < j, s[i] \in S
  PROVE  Ahead(s, S, i) # Ahead(s, S, j)
<1> DEFINE A == {k \in 1 .. i - 1 : s[k] \in S}
           B == {k \in 1 .. j - 1 : s[k] \in S}
<1>1. IsFiniteSet(1 .. j - 1)
  BY FS_Interval, SMT
<1>2. B \subseteq 1 .. j - 1
  OBVIOUS
<1>3. IsFiniteSet(B)
  BY <1>1, <1>2, FS_Subset
<1>4. A \subseteq B /\ A # B
  <2>1. A \subseteq B
    BY SMT
  <2>2. i \in B /\ i \notin A
    BY SMT
  <2>3. QED
    BY <2>1, <2>2
<1>5. Cardinality(A) # Cardinality(B)
  <2> HIDE DEF A, B
  <2>1. A \in SUBSET B
    BY <1>4
  <2>2. QED
    BY <1>3, <1>4, <2>1, FS_Subset
<1>6. QED
  BY <1>5 DEF Ahead

(* Positions of S with as many elements of S before them are the same. *)
LEMMA AheadInjective ==
  ASSUME NEW s, NEW S, NEW i \in Nat, NEW j \in Nat, 1 <= i, 1 <= j,
         s[i] \in S, s[j] \in S, Ahead(s, S, i) = Ahead(s, S, j)
  PROVE  i = j
<1>1. ~(i < j)
  BY AheadGrows
<1>2. ~(j < i)
  BY AheadGrows
<1>3. QED
  BY <1>1, <1>2, SMT

(* A batch pairs PENDING tasks of the job with IDLE workers, one to one. *)
LEMMA BatchPairs ==
  ASSUME NEW ids, task_order \in Seq(Tasks), worker_order \in Seq(Workers),
         NEW p \in Batch(ids)
  PROVE  /\ p[1] \in ids /\ status[p[1]] = "PENDING" /\ p[1] \in Tasks
         /\ p[2] \in Workers /\ worker_status[p[2]] = "IDLE"
         /\ p = <<p[1], p[2]>>
<1> DEFINE pending == {t \in ids : status[t] = "PENDING"}
           idle == {w \in Workers : worker_status[w] = "IDLE"}
<1>1. p \in pending \X idle
  BY DEF Batch
<1>2. PICK i \in DOMAIN task_order : task_order[i] = p[1]
  BY DEF Batch
<1>3. p[1] \in pending /\ p[2] \in idle /\ p = <<p[1], p[2]>>
  <2> HIDE DEF pending, idle
  <2> QED
    BY <1>1, SMT
<1>4. task_order[i] \in Tasks
  BY SMT
<1>5. QED
  BY <1>2, <1>3, <1>4

LEMMA BatchInjective ==
  ASSUME NEW ids, task_order \in Seq(Tasks), worker_order \in Seq(Workers), OrderInv,
         NEW p \in Batch(ids), NEW q \in Batch(ids)
  PROVE  p[1] = q[1] <=> p[2] = q[2]
<1> DEFINE pending == {t \in ids : status[t] = "PENDING"}
           idle == {w \in Workers : worker_status[w] = "IDLE"}
<1>1. PICK i \in DOMAIN task_order, j \in DOMAIN worker_order :
        task_order[i] = p[1] /\ worker_order[j] = p[2]
        /\ Ahead(task_order, pending, i) = Ahead(worker_order, idle, j)
  BY DEF Batch
<1>2. PICK k \in DOMAIN task_order, l \in DOMAIN worker_order :
        task_order[k] = q[1] /\ worker_order[l] = q[2]
        /\ Ahead(task_order, pending, k) = Ahead(worker_order, idle, l)
  BY DEF Batch
<1>3. p[1] \in pending /\ q[1] \in pending /\ p[2] \in idle /\ q[2] \in idle
  BY DEF Batch
<1>4. /\ i \in Nat /\ k \in Nat /\ j \in Nat /\ l \in Nat
      /\ 1 <= i /\ 1 <= k /\ 1 <= j /\ 1 <= l
  BY SMT
<1> HIDE DEF pending, idle
<1>5. ASSUME p[1] = q[1] PROVE p[2] = q[2]
  <2>1. i = k
    BY <1>1, <1>2, <1>5, SMT DEF OrderInv
  <2>2. j = l
    BY <1>1, <1>2, <1>3, <1>4, <2>1, AheadInjective
  <2>3. QED
    BY <1>1, <1>2, <2>2
<1>6. ASSUME p[2] = q[2] PROVE p[1] = q[1]
  <2>1. j = l
    BY <1>1, <1>2, <1>6, SMT DEF OrderInv
  <2>2. i = k
    BY <1>1, <1>2, <1>3, <1>4, <2>1, AheadInjective, SMT
  <2>3. QED
    BY <1>1, <1>2, <2>2
<1>7. QED
  BY <1>5, <1>6

-----------------------------------------------------------------------------
(* What the steps do to tasks, workers and dispatches. *)

LEMMA AttemptPair ==
  ASSUME NEW a \in Attempts
  PROVE  /\ a[1] \in Tasks /\ a[2] \in 1 .. MAX_TASK_ATTEMPTS /\ a[2] \in Nat
         /\ a = <<a[1], a[2]>>
BY SchedulerAssumption, SMT DEF Attempts

LEMMA SameAttempt ==
  ASSUME NEW a \in Attempts, NEW b \in Attempts, a[1] = b[1], a[2] = b[2]
  PROVE  a = b
BY AttemptPair

(* The tasks of G are assigned, each to an IDLE worker of its own, and     *)
(* their dispatches are spawned.                                           *)
Assigning(G, by) ==
  /\ G \subseteq Tasks
  /\ \A t \in G : /\ status[t] = "PENDING"
                  /\ assigned_worker_id'[t] \in Workers
                  /\ worker_status[assigned_worker_id'[t]] = "IDLE"
                  /\ worker_status'[assigned_worker_id'[t]] = "BUSY"
  /\ \A t, u \in G : assigned_worker_id'[t] = assigned_worker_id'[u] => t = u
  /\ status' = [t \in Tasks |-> IF t \in G THEN "ASSIGNED" ELSE status[t]]
  /\ attempt' = [t \in Tasks |-> IF t \in G THEN attempt[t] + 1 ELSE attempt[t]]
  /\ assigned_worker_id' \in [Tasks -> Workers \cup {None}]
  /\ \A t \in Tasks \ G : assigned_worker_id'[t] = assigned_worker_id[t]
  /\ worker_status' \in [Workers -> WorkerStatus \cup {"ABSENT"}]
  /\ \A w \in Workers : \/ worker_status'[w] = worker_status[w]
                        \/ worker_status[w] = "IDLE" /\ worker_status'[w] = "BUSY"
  /\ co' = [a \in Attempts |->
               IF a[1] \in G /\ a[2] = attempt[a[1]] + 1 THEN Spawned(by) ELSE co[a]]
  /\ UNCHANGED <<task_order, worker_order, generation, stale>>

LEMMA BatchAssigns ==
  ASSUME TypeOK, OrderInv, NEW ids \in SUBSET Tasks, NEW by, AssignBatch(ids, by)
  PROVE  \E G \in SUBSET ids : Assigning(G, by)
<1> DEFINE batch == Batch(ids)
           Given(t) == \E w \in Workers : <<t, w>> \in batch
           Taken(w) == \E t \in Tasks : <<t, w>> \in batch
           G == {t \in ids : Given(t)}
<1>1. /\ status' = [t \in Tasks |-> IF Given(t) THEN "ASSIGNED" ELSE status[t]]
      /\ attempt' = [t \in Tasks |-> IF Given(t) THEN attempt[t] + 1 ELSE attempt[t]]
      /\ assigned_worker_id' = [t \in Tasks |->
           IF Given(t) THEN CHOOSE w \in Workers : <<t, w>> \in batch
                       ELSE assigned_worker_id[t]]
      /\ worker_status' = [w \in Workers |-> IF Taken(w) THEN "BUSY" ELSE worker_status[w]]
      /\ co' = [a \in Attempts |->
           IF Given(a[1]) /\ a[2] = attempt[a[1]] + 1 THEN Spawned(by) ELSE co[a]]
      /\ UNCHANGED <<task_order, worker_order, generation, stale>>
  BY Zenon DEF AssignBatch
<1>2. task_order \in Seq(Tasks) /\ worker_order \in Seq(Workers)
  BY DEF TypeOK, SchedulerTypeOK
<1>3. ASSUME NEW t, NEW w, <<t, w>> \in batch
      PROVE  t \in ids /\ status[t] = "PENDING" /\ w \in Workers /\ worker_status[w] = "IDLE"
  BY <1>2, <1>3, BatchPairs, SMT
<1>4. ASSUME NEW t, NEW u, NEW w, NEW x, <<t, w>> \in batch, <<u, x>> \in batch
      PROVE  t = u <=> w = x
  BY <1>2, <1>4, BatchInjective, SMT
<1> HIDE DEF batch
<1>5. \A t : Given(t) => t \in G /\ status[t] = "PENDING"
  BY <1>3
<1>6. \A t \in Tasks : Given(t) =>
        assigned_worker_id'[t] \in Workers /\ <<t, assigned_worker_id'[t]>> \in batch
  BY <1>1
<1>7. \A t \in G :
        /\ status[t] = "PENDING"
        /\ assigned_worker_id'[t] \in Workers
        /\ worker_status[assigned_worker_id'[t]] = "IDLE"
        /\ worker_status'[assigned_worker_id'[t]] = "BUSY"
  BY <1>1, <1>3, <1>6
<1>8. \A t, u \in G : assigned_worker_id'[t] = assigned_worker_id'[u] => t = u
  <2> SUFFICES ASSUME NEW t \in G, NEW u \in G,
                      assigned_worker_id'[t] = assigned_worker_id'[u]
               PROVE  t = u
    OBVIOUS
  <2>1. /\ <<t, assigned_worker_id'[t]>> \in batch
        /\ <<u, assigned_worker_id'[u]>> \in batch
    BY <1>6
  <2>2. QED
    BY <1>4, <2>1
<1>9. /\ status' = [t \in Tasks |-> IF t \in G THEN "ASSIGNED" ELSE status[t]]
      /\ attempt' = [t \in Tasks |-> IF t \in G THEN attempt[t] + 1 ELSE attempt[t]]
  BY <1>1, <1>5
<1>10. co' = [a \in Attempts |->
               IF a[1] \in G /\ a[2] = attempt[a[1]] + 1 THEN Spawned(by) ELSE co[a]]
  BY <1>1, <1>5
<1>11. /\ assigned_worker_id' \in [Tasks -> Workers \cup {None}]
       /\ \A t \in Tasks \ G : assigned_worker_id'[t] = assigned_worker_id[t]
  BY <1>1, <1>5, <1>6 DEF TypeOK, SchedulerTypeOK
<1>12. /\ worker_status' \in [Workers -> WorkerStatus \cup {"ABSENT"}]
       /\ \A w \in Workers : \/ worker_status'[w] = worker_status[w]
                             \/ worker_status[w] = "IDLE" /\ worker_status'[w] = "BUSY"
  BY <1>1, <1>3 DEF TypeOK, SchedulerTypeOK, WorkerStatus
<1>13. G \subseteq Tasks /\ G \in SUBSET ids
  OBVIOUS
<1> HIDE DEF G
<1>14. Assigning(G, by)
  BY <1>1, <1>7, <1>8, <1>9, <1>10, <1>11, <1>12, <1>13, Zenon DEF Assigning
<1>15. QED
  BY <1>13, <1>14

LEMMA RoundAssigns ==
  ASSUME TypeOK, OrderInv, NEW ids \in SUBSET Tasks, NEW by, DrainRound(ids, by)
  PROVE  \E G \in SUBSET ids : Assigning(G, by)
BY BatchAssigns DEF DrainRound

(* A tick of a dispatcher, the one after it was told to stop included. *)
Ticking(l) == DispatcherTicks(l) \/ DispatcherLastTick(l)

LEMMA TickAssigns ==
  ASSUME TypeOK, OrderInv, NEW l \in Loops, Ticking(l)
  PROVE  \E G \in SUBSET Tasks : Assigning(G, "loop")
<1>1. AssignBatch(Tasks, "loop") /\ Tasks \in SUBSET Tasks
  BY DEF Ticking, DispatcherTicks, DispatcherLastTick
<1>2. QED
  BY <1>1, BatchAssigns

(* The dispatch coroutines and what is known of them. *)
Dispatches ==
  [Attempts -> [pc : {"none", "spawned", "awaiting", "done"},
                worker : Workers \cup {None},
                attempt : 0 .. MAX_TASK_ATTEMPTS,
                by : {"none", "loop", "monitor", "job", "orphan"}]]

LEMMA TaskTypes ==
  ASSUME TypeOK
  PROVE  /\ SchedulerTypeOK
         /\ co \in Dispatches
         /\ \A t \in Tasks : attempt[t] \in Nat /\ status[t] \in TaskStatus \cup {"ABSENT"}
         /\ \A a \in Attempts : co[a].attempt \in Nat
BY SchedulerAssumption, SMT DEF TypeOK, SchedulerTypeOK, Dispatches

LEMMA AssigningTypes ==
  ASSUME TypeOK, StatusInv, NEW G, NEW by \in {"loop", "monitor", "job"}, Assigning(G, by)
  PROVE  SchedulerTypeOK' /\ co' \in Dispatches
<1>1. attempt' \in [Tasks -> 0 .. MAX_TASK_ATTEMPTS]
  BY SchedulerAssumption, SMT DEF TypeOK, SchedulerTypeOK, StatusInv, Assigning
<1>2. status' \in [Tasks -> TaskStatus \cup {"ABSENT"}]
  BY SMT DEF TypeOK, SchedulerTypeOK, Assigning, TaskStatus
<1>3. SchedulerTypeOK'
  BY <1>1, <1>2 DEF TypeOK, SchedulerTypeOK, Assigning
<1>4. [pc |-> "spawned", worker |-> None, attempt |-> 0, by |-> by]
               \in [pc : {"none", "spawned", "awaiting", "done"},
                      worker : Workers \cup {None},
                      attempt : 0 .. MAX_TASK_ATTEMPTS,
                      by : {"none", "loop", "monitor", "job", "orphan"}]
  BY SchedulerAssumption, SMT
<1>5. co' \in Dispatches
  BY <1>4 DEF TypeOK, Assigning, Dispatches, Spawned
<1>6. QED
  BY <1>3, <1>5

LEMMA AssigningOrder ==
  ASSUME TypeOK, OrderInv, NEW G, NEW by, Assigning(G, by)
  PROVE  OrderInv'
<1>1. \A t \in Tasks : status'[t] = "ABSENT" => status[t] = "ABSENT"
  BY DEF Assigning
<1>2. \A w \in Workers : worker_status'[w] = "ABSENT" => worker_status[w] = "ABSENT"
  BY DEF Assigning
<1>3. UNCHANGED <<task_order, worker_order>>
  BY DEF Assigning
<1>4. /\ \A i \in DOMAIN task_order : task_order[i] \in Tasks
      /\ \A i \in DOMAIN worker_order : worker_order[i] \in Workers
  BY SMT DEF TypeOK, SchedulerTypeOK
<1>5. QED
  BY <1>1, <1>2, <1>3, <1>4 DEF OrderInv

LEMMA AssigningStatus ==
  ASSUME TypeOK, StatusInv, NEW G, NEW by, Assigning(G, by)
  PROVE  StatusInv'
<1> SUFFICES ASSUME NEW t \in Tasks
             PROVE  /\ status'[t] = "ABSENT" => attempt'[t] = 0
                    /\ status'[t] = "PENDING" => attempt'[t] < MAX_TASK_ATTEMPTS
                    /\ status'[t] \in InFlight \cup Terminal => attempt'[t] > 0
  BY DEF StatusInv
<1>1. CASE t \in G
  BY <1>1, TaskTypes, SMT DEF Assigning
<1>2. CASE t \notin G
  BY <1>2 DEF StatusInv, Assigning
<1>3. QED
  BY <1>1, <1>2

LEMMA AssigningWorkers ==
  ASSUME TypeOK, WorkerInv, NEW G, NEW by, Assigning(G, by)
  PROVE  WorkerInv'
<1>1. \A t \in Tasks \ G :
        /\ status'[t] = status[t]
        /\ assigned_worker_id'[t] = assigned_worker_id[t]
  BY DEF Assigning
<1>2. ASSUME NEW t \in Tasks, status'[t] \in InFlight
      PROVE  assigned_worker_id'[t] \in Workers /\ worker_status'[assigned_worker_id'[t]] = "BUSY"
  <2>1. CASE t \in G
    BY <2>1 DEF Assigning
  <2>2. CASE t \notin G
    BY <1>1, <1>2, <2>2, SMT DEF Assigning, WorkerInv
  <2>3. QED
    BY <2>1, <2>2
<1>3. ASSUME NEW t \in Tasks, NEW u \in Tasks, status'[t] \in InFlight, status'[u] \in InFlight,
             assigned_worker_id'[t] = assigned_worker_id'[u]
      PROVE  t = u
  <2>1. CASE t \in G /\ u \in G
    BY <1>3, <2>1, SMT DEF Assigning
  <2>2. CASE t \notin G /\ u \notin G
    BY <1>1, <1>3, <2>2 DEF WorkerInv
  <2>3. CASE t \in G /\ u \notin G
    BY <1>1, <1>3, <2>3, SMT DEF Assigning, WorkerInv
  <2>4. CASE t \notin G /\ u \in G
    BY <1>1, <1>3, <2>4, SMT DEF Assigning, WorkerInv
  <2>5. QED
    BY <2>1, <2>2, <2>3, <2>4
<1>4. QED
  BY <1>2, <1>3 DEF WorkerInv

LEMMA AssigningDispatches ==
  ASSUME TypeOK, SpawnInv, AwaitInv, NEW G, NEW by \in {"loop", "monitor", "job"},
         Assigning(G, by)
  PROVE  SpawnInv' /\ AwaitInv'
<1>1. \A a \in Attempts :
        \/ a[1] \in G /\ a[2] = attempt[a[1]] + 1 /\ co'[a] = Spawned(by)
        \/ co'[a] = co[a]
  BY DEF Assigning
<1>2. Spawned(by).pc = "spawned" /\ Spawned(by).by = by
  BY DEF Spawned
<1>3. \A a \in Attempts : co'[a].pc \in {"awaiting", "none"} => co'[a] = co[a]
  BY <1>1, <1>2
<1>4. \A t \in Tasks :
        /\ attempt[t] <= attempt'[t]
        /\ t \in G => attempt'[t] = attempt[t] + 1
        /\ t \notin G => /\ attempt'[t] = attempt[t]
                         /\ status'[t] = status[t]
                         /\ assigned_worker_id'[t] = assigned_worker_id[t]
        /\ attempt[t] \in Nat /\ attempt'[t] \in Nat
  BY TaskTypes, SMT DEF Assigning
<1>5. SpawnInv'
  <2> SUFFICES ASSUME NEW a \in Attempts
               PROVE  /\ co'[a].pc # "none" => a[2] <= attempt'[a[1]]
                      /\ co'[a].pc = "none" <=> co'[a].by = "none"
    BY DEF SpawnInv
  <2>1. CASE co'[a] = co[a]
    BY <1>4, <2>1, AttemptPair, SMT DEF SpawnInv
  <2>2. CASE a[1] \in G /\ a[2] = attempt[a[1]] + 1 /\ co'[a] = Spawned(by)
    <3>1. a[2] = attempt'[a[1]] /\ a[2] <= a[2]
      BY <1>4, <2>2, AttemptPair, SMT
    <3>2. QED
      BY <1>2, <2>2, <3>1
  <2>3. QED
    BY <1>1, <2>1, <2>2
<1>6. AwaitInv'
  <2>1. ASSUME NEW a \in Attempts, co'[a].pc = "awaiting"
        PROVE  /\ co'[a].worker \in Workers
               /\ a[2] <= co'[a].attempt
               /\ co'[a].attempt <= attempt'[a[1]]
               /\ co'[a].attempt = attempt'[a[1]] =>
                    \/ status'[a[1]] = "RUNNING" /\ assigned_worker_id'[a[1]] = co'[a].worker
                    \/ status'[a[1]] \in {"PENDING", "FAILED"} /\ assigned_worker_id'[a[1]] = None
    <3>1. co'[a] = co[a] /\ co[a].attempt \in Nat /\ a[1] \in Tasks
      BY <1>3, <2>1, TaskTypes, AttemptPair
    <3>2. /\ co[a].worker \in Workers
          /\ a[2] <= co[a].attempt
          /\ co[a].attempt <= attempt[a[1]]
      BY <2>1, <3>1 DEF AwaitInv
    <3>3. co[a].attempt <= attempt'[a[1]]
      BY <1>4, <3>1, <3>2, SMT
    <3>4. ASSUME co[a].attempt = attempt'[a[1]]
          PROVE  a[1] \notin G /\ co[a].attempt = attempt[a[1]]
      <4>1. ~(attempt[a[1]] + 1 <= attempt[a[1]])
        BY <1>4, <3>1, SMT
      <4>2. QED
        BY <1>4, <3>1, <3>2, <3>4, <4>1, Zenon
    <3>5. QED
      BY <1>4, <2>1, <3>1, <3>2, <3>3, <3>4, Zenon DEF AwaitInv
  <2>2. ASSUME NEW a \in Attempts, NEW b \in Attempts,
               co'[a].pc = "awaiting", co'[b].pc = "awaiting",
               a[1] = b[1], co'[a].attempt = co'[b].attempt
        PROVE  a = b
    BY <1>3, <2>2, SMT DEF AwaitInv
  <2>3. QED
    BY <2>1, <2>2 DEF AwaitInv
<1>7. QED
  BY <1>5, <1>6

(* No dispatch is spawned, and one that awaits its reply did before. *)
Settles ==
  \A a \in Attempts :
    /\ co'[a].pc = "none" <=> co[a].pc = "none"
    /\ co'[a].by = "none" <=> co[a].by = "none"
    /\ co'[a].pc = "awaiting" =>
         /\ co[a].pc = "awaiting"
         /\ co'[a].worker = co[a].worker
         /\ co'[a].attempt = co[a].attempt

LEMMA SettlesSpawn ==
  ASSUME SpawnInv, Settles, attempt' = attempt
  PROVE  SpawnInv'
BY DEF SpawnInv, Settles

LEMMA EndsSettles ==
  ASSUME TypeOK, SpawnInv, NEW a \in Attempts, Live(a), Ends(a)
  PROVE  /\ Settles
         /\ co' \in Dispatches
         /\ co'[a].pc = "done"
         /\ co'[a].by = co[a].by
         /\ \A b \in Attempts : b # a => co'[b] = co[b]
<1>1. co' = [co EXCEPT ![a] = [pc |-> "done", worker |-> None, attempt |-> 0, by |-> co[a].by]]
  BY DEF Ends, Ended
<1>2. co \in Dispatches
  BY TaskTypes
<1>3. co[a].by \in {"none", "loop", "monitor", "job", "orphan"}
  BY <1>2 DEF Dispatches
<1>4. [pc |-> "done", worker |-> None, attempt |-> 0, by |-> co[a].by]
        \in [pc : {"none", "spawned", "awaiting", "done"},
             worker : Workers \cup {None},
             attempt : 0 .. MAX_TASK_ATTEMPTS,
             by : {"none", "loop", "monitor", "job", "orphan"}]
  BY <1>3, SchedulerAssumption, SMT
<1>5. co' \in Dispatches
  BY <1>1, <1>2, <1>4 DEF Dispatches
<1>6. /\ co'[a].pc = "done"
      /\ co'[a].by = co[a].by
      /\ \A b \in Attempts : b # a => co'[b] = co[b]
  BY <1>1, <1>2 DEF Dispatches
<1>7. Settles
  BY <1>6 DEF Settles, Live
<1>8. QED
  BY <1>5, <1>6, <1>7

LEMMA RaisesSettles ==
  ASSUME TypeOK, SpawnInv, NEW a \in Attempts, DispatchRaises(a)
  PROVE  Settles /\ co' \in Dispatches
<1>1. co' = [b \in Attempts |-> IF b = a THEN Ended(a)
                                ELSE IF b \in Orphans(a)
                                     THEN [co[b] EXCEPT !.by = "orphan"] ELSE co[b]]
  BY DEF DispatchRaises
<1>2. co \in Dispatches
  BY TaskTypes
<1>3. co[a].by \in {"none", "loop", "monitor", "job", "orphan"}
  BY <1>2 DEF Dispatches
<1>4. Ended(a) \in [pc : {"none", "spawned", "awaiting", "done"},
             worker : Workers \cup {None},
             attempt : 0 .. MAX_TASK_ATTEMPTS,
             by : {"none", "loop", "monitor", "job", "orphan"}]
  BY <1>3, SchedulerAssumption, SMT DEF Ended
<1>5. \A b \in Attempts : [co[b] EXCEPT !.by = "orphan"]
                            \in [pc : {"none", "spawned", "awaiting", "done"},
                                 worker : Workers \cup {None},
                                 attempt : 0 .. MAX_TASK_ATTEMPTS,
                                 by : {"none", "loop", "monitor", "job", "orphan"}]
  BY <1>2 DEF Dispatches
<1>6. co' \in Dispatches
  BY <1>1, <1>2, <1>4, <1>5 DEF Dispatches
<1>7. ASSUME NEW b \in Attempts
      PROVE  /\ co'[b].pc = "none" <=> co[b].pc = "none"
             /\ co'[b].by = "none" <=> co[b].by = "none"
             /\ co'[b].pc = "awaiting" =>
                  /\ co[b].pc = "awaiting"
                  /\ co'[b].worker = co[b].worker
                  /\ co'[b].attempt = co[b].attempt
  <2>1. CASE b = a
    <3>1. co'[b].pc = "done" /\ co'[b].by = co[b].by
      BY <1>1, <2>1 DEF Ended
    <3>2. co[b].pc # "none"
      BY <2>1 DEF DispatchRaises
    <3>3. QED
      BY <3>1, <3>2
  <2>2. CASE b # a /\ b \in Orphans(a)
    <3>1. co'[b] = [co[b] EXCEPT !.by = "orphan"]
      BY <1>1, <2>2
    <3>2. co'[b].pc = co[b].pc /\ co'[b].worker = co[b].worker
          /\ co'[b].attempt = co[b].attempt /\ co'[b].by = "orphan"
      BY <1>2, <3>1, SMT DEF Dispatches
    <3>3. co[b].by # "none"
      BY <2>2 DEF Orphans
    <3>4. QED
      BY <3>2, <3>3
  <2>3. CASE b # a /\ b \notin Orphans(a)
    BY <1>1, <2>3
  <2>4. QED
    BY <2>1, <2>2, <2>3
<1>8. QED
  BY <1>6, <1>7 DEF Settles

(* Workers are marked FAILED and their tasks requeued. *)
LEMMA RequeueTasks ==
  ASSUME TypeOK, OrderInv, StatusInv, WorkerInv, NEW W \in SUBSET Workers, FailAndRequeue(W)
  PROVE  SchedulerTypeOK' /\ OrderInv' /\ StatusInv' /\ WorkerInv'
<1>1. /\ status' = [t \in Tasks |-> IF InFlightOn(t, W) THEN Requeued(t) ELSE status[t]]
      /\ assigned_worker_id' = [t \in Tasks |->
           IF InFlightOn(t, W) THEN None ELSE assigned_worker_id[t]]
      /\ worker_status' = [w \in Workers |-> IF w \in W THEN "FAILED" ELSE worker_status[w]]
      /\ UNCHANGED <<task_order, attempt, worker_order, generation, stale>>
  BY DEF FailAndRequeue, update_status, requeue_tasks_for_workers
<1>2. \A t \in Tasks : /\ Requeued(t) \in {"PENDING", "FAILED"}
                       /\ Requeued(t) = "PENDING" => attempt[t] < MAX_TASK_ATTEMPTS
  <2>1. \A t \in Tasks : attempt[t] \in Nat
    BY TaskTypes
  <2>2. ASSUME NEW t \in Tasks, Requeued(t) = "PENDING"
        PROVE  attempt[t] < MAX_TASK_ATTEMPTS
    <3>1. ~(attempt[t] >= MAX_TASK_ATTEMPTS)
      BY <2>2, Zenon DEF Requeued
    <3>2. QED
      BY <2>1, <3>1, SchedulerAssumption, SMT
  <2>3. \A t \in Tasks : Requeued(t) \in {"PENDING", "FAILED"}
    BY Zenon DEF Requeued
  <2>4. QED
    BY <2>2, <2>3
<1>3. SchedulerTypeOK'
  <2>1. status' \in [Tasks -> TaskStatus \cup {"ABSENT"}]
    BY <1>1, <1>2 DEF TypeOK, SchedulerTypeOK, TaskStatus
  <2>2. assigned_worker_id' \in [Tasks -> Workers \cup {None}]
    BY <1>1 DEF TypeOK, SchedulerTypeOK
  <2>3. worker_status' \in [Workers -> WorkerStatus \cup {"ABSENT"}]
    BY <1>1 DEF TypeOK, SchedulerTypeOK, WorkerStatus
  <2>4. QED
    BY <1>1, <2>1, <2>2, <2>3 DEF TypeOK, SchedulerTypeOK
<1>4. OrderInv'
  <2>1. \A t \in Tasks : status'[t] = "ABSENT" => status[t] = "ABSENT"
    BY <1>1, <1>2
  <2>2. \A w \in Workers : worker_status'[w] = "ABSENT" => worker_status[w] = "ABSENT"
    BY <1>1
  <2>3. /\ \A i \in DOMAIN task_order : task_order[i] \in Tasks
        /\ \A i \in DOMAIN worker_order : worker_order[i] \in Workers
    BY SMT DEF TypeOK, SchedulerTypeOK
  <2>4. QED
    BY <1>1, <2>1, <2>2, <2>3 DEF OrderInv
<1>5. StatusInv'
  <2> SUFFICES ASSUME NEW t \in Tasks
               PROVE  /\ status'[t] = "ABSENT" => attempt[t] = 0
                      /\ status'[t] = "PENDING" => attempt[t] < MAX_TASK_ATTEMPTS
                      /\ status'[t] \in InFlight \cup Terminal => attempt[t] > 0
    BY <1>1 DEF StatusInv
  <2>1. CASE InFlightOn(t, W)
    <3>1. attempt[t] > 0
      BY <2>1 DEF StatusInv, InFlightOn
    <3>2. QED
      BY <1>1, <1>2, <2>1, <3>1
  <2>2. CASE ~InFlightOn(t, W)
    BY <1>1, <2>2 DEF StatusInv
  <2>3. QED
    BY <2>1, <2>2
<1>6. WorkerInv'
  <2>1. \A t \in Tasks : status'[t] \in InFlight =>
          /\ ~InFlightOn(t, W)
          /\ status'[t] = status[t]
          /\ assigned_worker_id'[t] = assigned_worker_id[t]
    BY <1>1, <1>2 DEF InFlight
  <2>2. \A t \in Tasks : status'[t] \in InFlight => assigned_worker_id[t] \notin W
    BY <2>1 DEF InFlightOn
  <2>3. QED
    BY <1>1, <2>1, <2>2 DEF WorkerInv
<1>7. QED
  BY <1>3, <1>4, <1>5, <1>6

LEMMA RequeueAwait ==
  ASSUME TypeOK, AwaitInv, Settles, NEW W \in SUBSET Workers, FailAndRequeue(W)
  PROVE  AwaitInv'
<1>1. \A t \in Tasks :
        \/ status'[t] = status[t] /\ assigned_worker_id'[t] = assigned_worker_id[t]
        \/ status'[t] \in {"PENDING", "FAILED"} /\ assigned_worker_id'[t] = None
  BY DEF FailAndRequeue, requeue_tasks_for_workers, Requeued
<1>2. attempt' = attempt
  BY DEF FailAndRequeue, requeue_tasks_for_workers
<1>3. QED
  BY <1>1, <1>2, AttemptPair, SMT DEF AwaitInv, Settles

(* The tasks are left alone. *)
LEMMA SettlesAwait ==
  ASSUME AwaitInv, Settles, UNCHANGED <<status, assigned_worker_id, attempt>>
  PROVE  AwaitInv'
BY SMT DEF AwaitInv, Settles

(* The task of a dispatch that is current runs on its worker. *)
LEMMA CurrentRuns ==
  ASSUME TypeOK, AwaitInv, NEW a \in Attempts, co[a].pc = "awaiting", is_current_attempt(a)
  PROVE  /\ status[a[1]] = "RUNNING"
         /\ co[a].worker \in Workers
         /\ assigned_worker_id[a[1]] = co[a].worker
         /\ attempt[a[1]] = co[a].attempt
BY SchedulerAssumption DEF AwaitInv, is_current_attempt

(* A task that runs is over, and its worker is IDLE again. *)
LEMMA FinishTasks ==
  ASSUME TypeOK, OrderInv, StatusInv, WorkerInv, NEW t \in Tasks, status[t] = "RUNNING",
         complete_task(t) \/ fail_task(t)
  PROVE  SchedulerTypeOK' /\ OrderInv' /\ StatusInv' /\ WorkerInv'
<1>1. PICK s \in Terminal : status' = [status EXCEPT ![t] = s]
  BY DEF complete_task, fail_task, Terminal
<1>2. /\ worker_status' = release_worker(assigned_worker_id[t])
      /\ UNCHANGED <<task_order, assigned_worker_id, attempt, worker_order, generation, stale>>
  BY DEF complete_task, fail_task
<1>3. assigned_worker_id[t] \in Workers /\ worker_status[assigned_worker_id[t]] = "BUSY"
  BY DEF WorkerInv, InFlight
<1>4. worker_status' = [worker_status EXCEPT ![assigned_worker_id[t]] = "IDLE"]
  BY <1>2, <1>3, SchedulerAssumption DEF release_worker
<1>5. SchedulerTypeOK'
  BY <1>1, <1>2, <1>3, <1>4, SMT
     DEF TypeOK, SchedulerTypeOK, TaskStatus, WorkerStatus, Terminal
<1>6. \A u \in Tasks : status'[u] = IF u = t THEN s ELSE status[u]
  BY <1>1 DEF TypeOK, SchedulerTypeOK
<1>7. \A w \in Workers : worker_status'[w] = IF w = assigned_worker_id[t] THEN "IDLE" ELSE worker_status[w]
  BY <1>4 DEF TypeOK, SchedulerTypeOK
<1>8. OrderInv'
  <2>1. /\ \A i \in DOMAIN task_order : task_order[i] \in Tasks
        /\ \A i \in DOMAIN worker_order : worker_order[i] \in Workers
    BY SMT DEF TypeOK, SchedulerTypeOK
  <2>2. QED
    BY <1>2, <1>6, <1>7, <2>1, SMT DEF OrderInv, Terminal
<1>9. StatusInv'
  <2>1. attempt[t] > 0
    BY DEF StatusInv, InFlight
  <2>2. QED
    BY <1>2, <1>6, <2>1 DEF StatusInv, Terminal
<1>10. WorkerInv'
  <2>1. \A u \in Tasks : status'[u] \in InFlight => u # t /\ status'[u] = status[u]
    BY <1>6 DEF InFlight, Terminal
  <2>2. \A u \in Tasks : status'[u] \in InFlight => assigned_worker_id[u] # assigned_worker_id[t]
    BY <2>1 DEF WorkerInv, InFlight
  <2>3. QED
    BY <1>2, <1>7, <2>1, <2>2 DEF WorkerInv
<1>11. QED
  BY <1>5, <1>8, <1>9, <1>10

LEMMA FinishAwait ==
  ASSUME TypeOK, AwaitInv, Settles, NEW a \in Attempts, co[a].pc = "awaiting",
         is_current_attempt(a), co'[a].pc = "done",
         complete_task(a[1]) \/ fail_task(a[1])
  PROVE  AwaitInv'
<1>1. UNCHANGED <<assigned_worker_id, attempt>>
  BY DEF complete_task, fail_task
<1>2. \A t \in Tasks : t # a[1] => status'[t] = status[t]
  BY SMT DEF complete_task, fail_task, TypeOK, SchedulerTypeOK
<1>3. \A b \in Attempts : co'[b].pc = "awaiting" /\ co'[b].attempt = attempt[b[1]] => b[1] # a[1]
  BY CurrentRuns, SMT DEF AwaitInv, Settles
<1>4. QED
  BY <1>1, <1>2, <1>3, AttemptPair, SMT DEF AwaitInv, Settles

(* The dispatch starts its task and awaits the reply. *)
LEMMA SendsKeep ==
  ASSUME TypeOK, OrderInv, StatusInv, WorkerInv, SpawnInv, AwaitInv,
         NEW a \in Attempts, DispatchSends(a)
  PROVE  /\ SchedulerTypeOK' /\ co' \in Dispatches
         /\ OrderInv' /\ StatusInv' /\ WorkerInv' /\ SpawnInv' /\ AwaitInv'
<1> DEFINE t == a[1]
<1>1. /\ status[t] = "ASSIGNED"
      /\ status' = [status EXCEPT ![t] = "RUNNING"]
      /\ UNCHANGED <<task_order, assigned_worker_id, attempt, worker_vars>>
      /\ co[a].pc = "spawned"
      /\ co' = [co EXCEPT ![a].pc = "awaiting",
                          ![a].worker = assigned_worker_id[t],
                          ![a].attempt = attempt[t]]
  BY DEF DispatchSends, start_task
<1>2. t \in Tasks /\ assigned_worker_id[t] \in Workers /\ attempt[t] \in 0 .. MAX_TASK_ATTEMPTS
  BY <1>1, AttemptPair DEF WorkerInv, InFlight, TypeOK, SchedulerTypeOK
<1>3. \A u \in Tasks : status'[u] = IF u = t THEN "RUNNING" ELSE status[u]
  BY <1>1 DEF TypeOK, SchedulerTypeOK
<1>4. co \in Dispatches
  BY TaskTypes
<1>5. co' \in Dispatches
  <2>1. [[[co[a] EXCEPT !.pc = "awaiting"] EXCEPT !.worker = assigned_worker_id[t]]
                        EXCEPT !.attempt = attempt[t]]
          \in [pc : {"none", "spawned", "awaiting", "done"},
               worker : Workers \cup {None},
               attempt : 0 .. MAX_TASK_ATTEMPTS,
               by : {"none", "loop", "monitor", "job", "orphan"}]
    BY <1>2, <1>4 DEF Dispatches
  <2>2. co' = [co EXCEPT ![a] = [[[co[a] EXCEPT !.pc = "awaiting"]
                                         EXCEPT !.worker = assigned_worker_id[t]]
                                         EXCEPT !.attempt = attempt[t]]]
    BY <1>1, <1>4 DEF Dispatches
  <2>3. QED
    BY <1>4, <2>1, <2>2 DEF Dispatches
<1>6. /\ co'[a].pc = "awaiting"
      /\ co'[a].worker = assigned_worker_id[t]
      /\ co'[a].attempt = attempt[t]
      /\ co'[a].by = co[a].by
      /\ \A b \in Attempts : b # a => co'[b] = co[b]
  BY <1>1, <1>4 DEF Dispatches
<1>7. SchedulerTypeOK'
  BY <1>1, <1>2 DEF TypeOK, SchedulerTypeOK, TaskStatus, worker_vars
<1>8. OrderInv' /\ StatusInv' /\ WorkerInv'
  <2>1. \A i \in DOMAIN task_order : task_order[i] \in Tasks
    BY SMT DEF TypeOK, SchedulerTypeOK
  <2>2. OrderInv'
    BY <1>1, <1>3, <2>1, SMT DEF OrderInv, worker_vars
  <2>3. StatusInv'
    BY <1>1, <1>2, <1>3, SMT DEF StatusInv, InFlight
  <2>4. WorkerInv'
    BY <1>1, <1>2, <1>3, SMT DEF WorkerInv, InFlight, worker_vars
  <2>5. QED
    BY <2>2, <2>3, <2>4
<1>9. SpawnInv'
  BY <1>1, <1>6, ZenonT(60) DEF SpawnInv
<1>10. AwaitInv'
  <2>1. \A b \in Attempts : co[b].pc = "awaiting" /\ b[1] = t => co[b].attempt # attempt[t]
    BY <1>1 DEF AwaitInv
  <2>2. a[2] <= attempt[t] /\ attempt[t] <= attempt[t]
    BY <1>1, <1>2, SMT DEF SpawnInv
  <2>3. ASSUME NEW b \in Attempts, co'[b].pc = "awaiting"
        PROVE  /\ co'[b].worker \in Workers
               /\ b[2] <= co'[b].attempt
               /\ co'[b].attempt <= attempt[b[1]]
               /\ co'[b].attempt = attempt[b[1]] =>
                    \/ status'[b[1]] = "RUNNING" /\ assigned_worker_id[b[1]] = co'[b].worker
                    \/ status'[b[1]] \in {"PENDING", "FAILED"} /\ assigned_worker_id[b[1]] = None
    <3>1. CASE b = a
      BY <1>2, <1>3, <1>6, <2>2, <3>1
    <3>2. CASE b # a
      BY <1>3, <1>6, <2>1, <2>3, <3>2, AttemptPair, SMT DEF AwaitInv
    <3>3. QED
      BY <3>1, <3>2
  <2>4. ASSUME NEW b \in Attempts, NEW c \in Attempts, co'[b].pc = "awaiting",
               co'[c].pc = "awaiting", b[1] = c[1], co'[b].attempt = co'[c].attempt
        PROVE  b = c
    BY <1>6, <2>1, <2>4, SMT DEF AwaitInv
  <2>5. QED
    BY <1>1, <2>3, <2>4, ZenonT(60) DEF AwaitInv
<1>11. QED
  BY <1>5, <1>7, <1>8, <1>9, <1>10

LEMMA SubmitKeeps ==
  ASSUME TypeOK, OrderInv, StatusInv, WorkerInv, AwaitInv, NEW t \in Tasks, submit_task(t),
         UNCHANGED <<worker_vars, co>>
  PROVE  SchedulerTypeOK' /\ OrderInv' /\ StatusInv' /\ WorkerInv' /\ AwaitInv'
<1>1. /\ status[t] = "ABSENT"
      /\ task_order' = Append(task_order, t)
      /\ status' = [status EXCEPT ![t] = "PENDING"]
      /\ UNCHANGED <<assigned_worker_id, attempt, worker_order, worker_status, generation, stale>>
  BY DEF submit_task, worker_vars
<1>2. \A u \in Tasks : status'[u] = IF u = t THEN "PENDING" ELSE status[u]
  BY <1>1 DEF TypeOK, SchedulerTypeOK
<1>3. task_order \in Seq(Tasks) /\ worker_order \in Seq(Workers)
  BY DEF TypeOK, SchedulerTypeOK
<1>4. SchedulerTypeOK'
  <2>1. task_order' \in Seq(Tasks)
    BY <1>1, <1>3, SMT
  <2>2. status' \in [Tasks -> TaskStatus \cup {"ABSENT"}]
    BY <1>1 DEF TypeOK, SchedulerTypeOK, TaskStatus
  <2>3. QED
    BY <1>1, <2>1, <2>2 DEF TypeOK, SchedulerTypeOK
<1>5. OrderInv'
  <2>1. /\ \A i \in DOMAIN task_order : task_order[i] \in Tasks /\ task_order[i] # t
        /\ \A i \in DOMAIN worker_order : worker_order[i] \in Workers
    BY <1>1, <1>3, SMT DEF OrderInv
  <2>2. \A i \in DOMAIN task_order' :
          \/ i \in DOMAIN task_order /\ task_order'[i] = task_order[i]
          \/ i = Len(task_order) + 1 /\ task_order'[i] = t
    BY <1>1, <1>3, SMT
  <2>3. \A i, j \in DOMAIN task_order' : task_order'[i] = task_order'[j] => i = j
    BY <2>1, <2>2 DEF OrderInv
  <2>4. \A i \in DOMAIN task_order' : status'[task_order'[i]] # "ABSENT"
    BY <1>2, <2>1, <2>2 DEF OrderInv
  <2>5. QED
    BY <1>1, <2>1, <2>3, <2>4 DEF OrderInv
<1>6. StatusInv'
  <2>1. attempt[t] = 0 /\ 0 < MAX_TASK_ATTEMPTS
    BY <1>1, SchedulerAssumption, SMT DEF StatusInv
  <2>2. QED
    BY <1>1, <1>2, <2>1, SMT DEF StatusInv, InFlight, Terminal
<1>7. WorkerInv'
  BY <1>1, <1>2, SMT DEF WorkerInv, InFlight
<1>8. AwaitInv'
  <2>1. \A a \in Attempts : co[a].pc = "awaiting" /\ co[a].attempt = attempt[a[1]] => a[1] # t
    BY <1>1 DEF AwaitInv
  <2>2. co' = co
    OBVIOUS
  <2>3. QED
    BY <1>1, <1>2, <2>1, <2>2, AttemptPair, SMT DEF AwaitInv
<1>9. QED
  BY <1>4, <1>5, <1>6, <1>7, <1>8

LEMMA RegisterKeeps ==
  ASSUME TypeOK, OrderInv, WorkerInv, NEW w \in Workers, register_worker(w), UNCHANGED task_vars
  PROVE  SchedulerTypeOK' /\ OrderInv' /\ WorkerInv'
<1>1. /\ CanRegister(w)
      /\ worker_order' = IF worker_status[w] = "ABSENT"
                         THEN Append(worker_order, w) ELSE worker_order
      /\ worker_status' = [worker_status EXCEPT ![w] = "IDLE"]
      /\ generation' = [generation EXCEPT ![w] = @ + 1]
      /\ stale' = [stale EXCEPT ![w] = FALSE]
      /\ UNCHANGED <<task_order, status, assigned_worker_id, attempt>>
  BY DEF register_worker, task_vars
<1>2. \A x \in Workers : worker_status'[x] = IF x = w THEN "IDLE" ELSE worker_status[x]
  BY <1>1 DEF TypeOK, SchedulerTypeOK
<1>3. task_order \in Seq(Tasks) /\ worker_order \in Seq(Workers)
  BY DEF TypeOK, SchedulerTypeOK
<1>4. SchedulerTypeOK'
  <2>1. worker_order' \in Seq(Workers)
    BY <1>1, <1>3, SMT
  <2>2. worker_status' \in [Workers -> WorkerStatus \cup {"ABSENT"}]
    BY <1>1 DEF TypeOK, SchedulerTypeOK, WorkerStatus
  <2>3. generation' \in [Workers -> Nat]
    BY <1>1, SMT DEF TypeOK, SchedulerTypeOK
  <2>4. stale' \in [Workers -> BOOLEAN]
    BY <1>1 DEF TypeOK, SchedulerTypeOK
  <2>5. QED
    BY <1>1, <2>1, <2>2, <2>3, <2>4, SMT DEF TypeOK, SchedulerTypeOK
<1>5. OrderInv'
  <2>1. CASE worker_status[w] = "ABSENT"
    <3>1. \A i \in DOMAIN worker_order : worker_order[i] \in Workers /\ worker_order[i] # w
      BY <1>3, <2>1, SMT DEF OrderInv
    <3>2. \A i \in DOMAIN worker_order' :
            \/ i \in DOMAIN worker_order /\ worker_order'[i] = worker_order[i]
            \/ i = Len(worker_order) + 1 /\ worker_order'[i] = w
      BY <1>1, <1>3, <2>1, SMT
    <3>3. \A i, j \in DOMAIN worker_order' : worker_order'[i] = worker_order'[j] => i = j
      BY <3>1, <3>2 DEF OrderInv
    <3>4. \A i \in DOMAIN worker_order' : worker_status'[worker_order'[i]] # "ABSENT"
      BY <1>2, <3>1, <3>2 DEF OrderInv
    <3>5. QED
      BY <1>1, <3>3, <3>4 DEF OrderInv
  <2>2. CASE worker_status[w] # "ABSENT"
    <3>1. worker_order' = worker_order
      BY <1>1, <2>2
    <3>2. \A i \in DOMAIN worker_order : worker_order[i] \in Workers
      BY <1>3, SMT
    <3>3. QED
      BY <1>1, <1>2, <3>1, <3>2, SMT DEF OrderInv
  <2>3. QED
    BY <2>1, <2>2
<1>6. WorkerInv'
  <2>1. worker_status[w] # "BUSY"
    BY <1>1 DEF CanRegister, REPLACEABLE_WORKER_STATUSES
  <2>2. QED
    BY <1>1, <1>2, <2>1 DEF WorkerInv
<1>7. QED
  BY <1>4, <1>5, <1>6

-----------------------------------------------------------------------------
(* Tasks, workers and dispatches, step by step. *)

Core == OrderInv /\ StatusInv /\ WorkerInv /\ SpawnInv /\ AwaitInv

CoreNext == SchedulerTypeOK' /\ co' \in Dispatches /\ Core'

LEMMA CoreAside ==
  ASSUME TypeOK, Core, UNCHANGED <<table_vars, co>>
  PROVE  CoreNext
<1>1. UNCHANGED <<task_order, status, assigned_worker_id, attempt,
                  worker_order, worker_status, generation, stale, co>>
  BY DEF table_vars, task_vars, worker_vars
<1>2. SchedulerTypeOK' /\ co' \in Dispatches
  BY <1>1, TaskTypes DEF SchedulerTypeOK
<1>3. OrderInv' /\ StatusInv' /\ WorkerInv'
  BY <1>1 DEF Core, OrderInv, StatusInv, WorkerInv
<1>4. SpawnInv' /\ AwaitInv'
  BY <1>1, SMT DEF Core, SpawnInv, AwaitInv
<1>5. QED
  BY <1>2, <1>3, <1>4 DEF CoreNext, Core

LEMMA CoreAssigning ==
  ASSUME TypeOK, Core, NEW G, NEW by \in {"loop", "monitor", "job"}, Assigning(G, by)
  PROVE  CoreNext
BY AssigningTypes, AssigningOrder, AssigningStatus, AssigningWorkers, AssigningDispatches
   DEF Core, CoreNext

LEMMA CoreSettles ==
  ASSUME TypeOK, Core, UNCHANGED table_vars, Settles, co' \in Dispatches
  PROVE  CoreNext
<1>1. UNCHANGED <<task_order, status, assigned_worker_id, attempt,
                  worker_order, worker_status, generation, stale>>
  BY DEF table_vars, task_vars, worker_vars
<1>2. SchedulerTypeOK'
  BY <1>1, TaskTypes DEF SchedulerTypeOK
<1>3. OrderInv' /\ StatusInv' /\ WorkerInv'
  BY <1>1 DEF Core, OrderInv, StatusInv, WorkerInv
<1>4. SpawnInv' /\ AwaitInv'
  BY <1>1, SettlesSpawn, SettlesAwait DEF Core
<1>5. QED
  BY <1>2, <1>3, <1>4 DEF CoreNext, Core

LEMMA CoreRequeue ==
  ASSUME TypeOK, Core, NEW W \in SUBSET Workers, FailAndRequeue(W), Settles,
         co' \in Dispatches
  PROVE  CoreNext
<1>1. attempt' = attempt
  BY DEF FailAndRequeue, requeue_tasks_for_workers
<1>2. QED
  BY <1>1, RequeueTasks, RequeueAwait, SettlesSpawn DEF Core, CoreNext

LEMMA CoreAnswered ==
  ASSUME TypeOK, Core, NEW a \in Attempts, DispatchIsAnswered(a)
  PROVE  CoreNext
<1>1. /\ co[a].pc = "awaiting" /\ is_current_attempt(a) /\ Ends(a)
      /\ complete_task(a[1]) \/ fail_task(a[1])
  BY DEF DispatchIsAnswered
<1>2. Settles /\ co' \in Dispatches /\ co'[a].pc = "done"
  BY <1>1, EndsSettles DEF Core, Live
<1>3. status[a[1]] = "RUNNING" /\ a[1] \in Tasks
  BY <1>1, CurrentRuns, AttemptPair DEF Core
<1>4. SchedulerTypeOK' /\ OrderInv' /\ StatusInv' /\ WorkerInv'
  BY <1>1, <1>3, FinishTasks DEF Core
<1>5. AwaitInv'
  BY <1>1, <1>2, FinishAwait DEF Core
<1>6. attempt' = attempt
  BY <1>1 DEF complete_task, fail_task
<1>7. SpawnInv'
  BY <1>2, <1>6, SettlesSpawn DEF Core
<1>8. QED
  BY <1>2, <1>4, <1>5, <1>7 DEF CoreNext, Core

LEMMA CoreDispatch ==
  ASSUME TypeOK, Core, NEW a \in Attempts, Dispatch(a)
  PROVE  CoreNext
<1>1. CASE DispatchRaises(a)
  <2>1. UNCHANGED table_vars
    BY <1>1 DEF DispatchRaises, table_vars
  <2>2. Settles /\ co' \in Dispatches
    BY <1>1, RaisesSettles DEF Core
  <2>3. QED
    BY <2>1, <2>2, CoreSettles
<1>2. CASE DispatchSends(a)
  BY <1>2, SendsKeep DEF Core, CoreNext
<1>3. CASE DispatchHasNoLink(a)
  <2>1. co[a].pc = "spawned" /\ status[a[1]] = "ASSIGNED"
        /\ FailAndRequeue({assigned_worker_id[a[1]]}) /\ Ends(a)
    BY <1>3 DEF DispatchHasNoLink, WorkerUnreachable
  <2>2. {assigned_worker_id[a[1]]} \in SUBSET Workers
    BY <2>1, AttemptPair DEF Core, WorkerInv, InFlight
  <2>3. Settles /\ co' \in Dispatches
    BY <2>1, EndsSettles DEF Core, Live
  <2>4. QED
    BY <2>1, <2>2, <2>3, CoreRequeue
<1>4. CASE DispatchIsStale(a)
  <2>1. UNCHANGED table_vars /\ co[a].pc = "awaiting" /\ Ends(a)
    BY <1>4 DEF DispatchIsStale, table_vars
  <2>2. Settles /\ co' \in Dispatches
    BY <2>1, EndsSettles DEF Core, Live
  <2>3. QED
    BY <2>1, <2>2, CoreSettles
<1>5. CASE DispatchIsLost(a)
  <2>1. co[a].pc = "awaiting" /\ FailAndRequeue({co[a].worker}) /\ Ends(a)
    BY <1>5 DEF DispatchIsLost, WorkerUnreachable
  <2>2. {co[a].worker} \in SUBSET Workers
    BY <2>1 DEF Core, AwaitInv
  <2>3. Settles /\ co' \in Dispatches
    BY <2>1, EndsSettles DEF Core, Live
  <2>4. QED
    BY <2>1, <2>2, <2>3, CoreRequeue
<1>6. CASE DispatchIsAnswered(a)
  BY <1>6, CoreAnswered
<1>7. QED
  BY <1>1, <1>2, <1>3, <1>4, <1>5, <1>6 DEF Dispatch

LEMMA CoreMonitor ==
  ASSUME TypeOK, Core, Monitor
  PROVE  CoreNext
<1>1. CASE MonitorTicks
  <2>1. FailAndRequeue(StaleWorkers) /\ co' = co
    BY <1>1 DEF MonitorTicks, call_vars
  <2>2. StaleWorkers \in SUBSET Workers
    BY DEF StaleWorkers
  <2>3. Settles /\ co' \in Dispatches
    BY <2>1, TaskTypes DEF Settles
  <2>4. QED
    BY <2>1, <2>2, <2>3, CoreRequeue
<1>2. CASE MonitorAssigns
  <2>1. DrainRound(Tasks, "monitor") /\ Tasks \in SUBSET Tasks
    BY <1>2 DEF MonitorAssigns
  <2>2. PICK G \in SUBSET Tasks : Assigning(G, "monitor")
    BY <2>1, RoundAssigns DEF Core
  <2>3. QED
    BY <2>2, CoreAssigning
<1>3. CASE MonitorDrained
  BY <1>3, CoreAside DEF MonitorDrained, call_vars
<1>4. CASE MonitorReturns
  BY <1>4, CoreAside DEF MonitorReturns, call_vars
<1>5. QED
  BY <1>1, <1>2, <1>3, <1>4 DEF Monitor

LEMMA CoreJob ==
  ASSUME TypeOK, Core, Job
  PROVE  CoreNext
<1>1. CASE JobAssigns
  <2>1. DrainRound(task_ids, "job") /\ task_ids \in SUBSET Tasks
    BY <1>1 DEF JobAssigns, TypeOK
  <2>2. PICK G \in SUBSET task_ids : Assigning(G, "job")
    BY <2>1, RoundAssigns DEF Core
  <2>3. QED
    BY <2>2, CoreAssigning
<1>2. CASE JobWaits
  BY <1>2, CoreAside DEF JobWaits
<1>3. CASE JobEnds
  BY <1>3, CoreAside DEF JobEnds
<1>4. ASSUME NEW t \in Tasks, JobSubmits(t) PROVE CoreNext
  <2>1. submit_task(t) /\ UNCHANGED <<worker_vars, co>>
    BY <1>4 DEF JobSubmits
  <2>2. SchedulerTypeOK' /\ OrderInv' /\ StatusInv' /\ WorkerInv' /\ AwaitInv'
    BY <2>1, SubmitKeeps DEF Core
  <2>3. co' = co /\ attempt' = attempt
    BY <2>1 DEF submit_task
  <2>4. SpawnInv' /\ co' \in Dispatches
    BY <2>3, TaskTypes DEF SpawnInv, Core
  <2>5. QED
    BY <2>2, <2>4 DEF CoreNext, Core
<1>5. QED
  BY <1>1, <1>2, <1>3, <1>4 DEF Job, drain_tasks_for_continues

LEMMA CoreWorkers ==
  ASSUME TypeOK, Core, NEW w \in Workers,
         WorkerConnects(w) \/ WorkerIsLost(w) \/ HandlerReturns(w) \/ HeartbeatsStop(w)
  PROVE  CoreNext
<1>1. CASE WorkerConnects(w)
  <2>1. register_worker(w) /\ UNCHANGED task_vars /\ co' = co
    BY <1>1 DEF WorkerConnects, call_vars
  <2>2. SchedulerTypeOK' /\ OrderInv' /\ WorkerInv'
    BY <2>1, RegisterKeeps DEF Core
  <2>3. UNCHANGED <<status, assigned_worker_id, attempt, co>>
    BY <2>1 DEF task_vars
  <2>4. StatusInv' /\ SpawnInv' /\ AwaitInv' /\ co' \in Dispatches
    BY <2>3, TaskTypes DEF Core, StatusInv, SpawnInv, AwaitInv
  <2>5. QED
    BY <2>2, <2>4 DEF CoreNext, Core
<1>2. CASE WorkerIsLost(w)
  BY <1>2, CoreAside DEF WorkerIsLost, call_vars
<1>3. CASE HandlerReturns(w)
  BY <1>3, CoreAside DEF HandlerReturns, call_vars
<1>4. CASE HeartbeatsStop(w)
  <2>1. /\ stale' = [stale EXCEPT ![w] = TRUE]
        /\ UNCHANGED <<task_order, status, assigned_worker_id, attempt,
                       worker_order, worker_status, generation, co>>
    BY <1>4 DEF HeartbeatsStop, HeartbeatExpires, task_vars, call_vars
  <2>2. SchedulerTypeOK' /\ co' \in Dispatches
    BY <2>1, TaskTypes DEF SchedulerTypeOK
  <2>3. OrderInv' /\ StatusInv' /\ WorkerInv'
    BY <2>1 DEF Core, OrderInv, StatusInv, WorkerInv
  <2>4. SpawnInv' /\ AwaitInv'
    BY <2>1 DEF Core, SpawnInv, AwaitInv
  <2>5. QED
    BY <2>2, <2>3, <2>4 DEF CoreNext, Core
<1>5. QED
  BY <1>1, <1>2, <1>3, <1>4

LEMMA CoreCalls ==
  ASSUME TypeOK, Core, NEW t \in Tasks, Call(t) \/ CallTimesOut(t)
  PROVE  CoreNext
<1>1. CASE Call(t) /\ submit_task(t)
  <2>1. UNCHANGED <<worker_vars, co>>
    BY <1>1 DEF Call
  <2>2. SchedulerTypeOK' /\ OrderInv' /\ StatusInv' /\ WorkerInv' /\ AwaitInv'
    BY <1>1, <2>1, SubmitKeeps DEF Core
  <2>3. co' = co /\ attempt' = attempt
    BY <1>1, <2>1 DEF submit_task
  <2>4. SpawnInv' /\ co' \in Dispatches
    BY <2>3, TaskTypes DEF SpawnInv, Core
  <2>5. QED
    BY <2>2, <2>4 DEF CoreNext, Core
<1>2. CASE Call(t) /\ ~submit_task(t)
  BY <1>2, CoreAside DEF Call, table_vars
<1>3. CASE CallTimesOut(t)
  BY <1>3, CoreAside DEF CallTimesOut
<1>4. QED
  BY <1>1, <1>2, <1>3

(* start_master and stop_master change neither tasks nor dispatches. *)
MainSteps ==
  start_master \/ ServerStarted \/ stop_master \/ WaitsForServer \/ stop_master_continues

LEMMA MainAside ==
  ASSUME MainSteps
  PROVE  UNCHANGED <<table_vars, co, job_vars>>
<1>1. CASE start_master \/ ServerStarted \/ WaitsForServer
  BY <1>1 DEF start_master, ServerStarted, WaitsForServer, call_vars
<1>2. CASE stop_master \/ ServerClosed
  BY <1>2 DEF stop_master, ServerClosed, StopDispatcher, call_vars
<1>3. CASE DispatcherStopped \/ DispatchesEnded
  BY <1>3 DEF DispatcherStopped, DispatchesEnded, call_vars
<1>4. CASE MonitorStopped \/ MonitorHadRaised
  BY <1>4 DEF MonitorStopped, MonitorHadRaised, call_vars
<1>5. ASSUME NEW w \in Workers, LinkCloses(w) \/ LinkCloseRaises(w)
      PROVE  UNCHANGED <<table_vars, co, job_vars>>
  BY <1>5 DEF LinkCloses, LinkCloseRaises, call_vars
<1>6. CASE LinksClosed \/ Stopped
  BY <1>6 DEF LinksClosed, Stopped, call_vars
<1>7. QED
  BY <1>1, <1>2, <1>3, <1>4, <1>5, <1>6 DEF MainSteps, stop_master_continues

LEMMA CoreDispatcher ==
  ASSUME TypeOK, Core, Dispatcher
  PROVE  CoreNext
<1>1. PICK l \in Loops : Ticking(l) \/ DispatcherReturns(l)
  BY DEF Dispatcher, Ticking
<1>2. CASE Ticking(l)
  BY <1>2, TickAssigns, CoreAssigning DEF Core
<1>3. CASE DispatcherReturns(l)
  BY <1>3, CoreAside DEF DispatcherReturns, call_vars
<1>4. QED
  BY <1>1, <1>2, <1>3

LEMMA CoreStep ==
  ASSUME TypeOK, Core, Next
  PROVE  CoreNext
<1>1. CASE MainSteps
  BY <1>1, MainAside, CoreAside
<1>2. QED
  BY <1>1, CoreMonitor, CoreJob, CoreDispatcher, CoreDispatch, CoreWorkers, CoreCalls
     DEF Next, Others, MainSteps

-----------------------------------------------------------------------------
(* Types. *)

(* The variables beside the tables and the dispatches. *)
MainTypes ==
  /\ main \in {"down", "aborted", "starting", "up"} \cup Stopping
  /\ cycle \in Nat
  /\ awaited_loop \in Loops \cup {None}
  /\ awaited \subseteq Attempts
  /\ link \in [Workers -> {"none", "open", "lost", "closing"}]
  /\ to_close \subseteq Workers

LoopTypes ==
  /\ loop \in [Loops -> {"none", "running", "due", "stopping", "returned", "early"}]
  /\ _dispatcher_task \in Loops \cup {None}

MonitorTypes ==
  /\ monitor \in {"none", "idle", "due", "ticked", "draining", "returned", "raised"}
  /\ monitor_stop \in BOOLEAN

CallTypes ==
  /\ waiting \subseteq Tasks
  /\ recorded \subseteq Tasks
  /\ job \in {"none", "submitting", "draining", "returned", "gave_up", "raised"}
  /\ task_ids \subseteq Tasks
  /\ responses \subseteq task_ids

LEMMA TypeParts ==
  TypeOK <=> /\ SchedulerTypeOK /\ co \in Dispatches
             /\ MainTypes /\ LoopTypes /\ MonitorTypes /\ CallTypes
BY DEF TypeOK, Dispatches, MainTypes, LoopTypes, MonitorTypes, CallTypes

LEMMA MainTypesStep ==
  ASSUME TypeOK, Next
  PROVE  MainTypes'
<1> USE DEF Stopping
<1>1. MainTypes
  BY TypeParts
<1>2. ASSUME UNCHANGED <<stop_vars, link>> PROVE MainTypes'
  BY <1>1, <1>2 DEF MainTypes, stop_vars, await_vars
<1>3. CASE Monitor
  BY <1>2, <1>3 DEF Monitor, MonitorTicks, MonitorAssigns, MonitorDrained, MonitorReturns
<1>4. CASE Job
  BY <1>2, <1>4 DEF Job, drain_tasks_for_continues, JobAssigns, JobWaits, JobEnds, JobSubmits
<1>5. CASE Dispatcher
  BY <1>2, <1>5 DEF Dispatcher, DispatcherTicks, DispatcherLastTick, DispatcherReturns
<1>6. ASSUME NEW a \in Attempts, Dispatch(a) PROVE MainTypes'
  BY <1>2, <1>6 DEF Dispatch, DispatchRaises, DispatchSends, DispatchHasNoLink, DispatchIsStale,
                    DispatchIsLost, DispatchIsAnswered, WorkerUnreachable
<1>7. ASSUME NEW t \in Tasks, Call(t) \/ CallTimesOut(t) PROVE MainTypes'
  BY <1>2, <1>7 DEF Call, CallTimesOut
<1>8. ASSUME NEW w \in Workers,
             WorkerConnects(w) \/ WorkerIsLost(w) \/ HandlerReturns(w) \/ HeartbeatsStop(w)
      PROVE MainTypes'
  <2>1. UNCHANGED <<main, cycle, awaited_loop, awaited, to_close>>
    BY <1>8 DEF WorkerConnects, WorkerIsLost, HandlerReturns, HeartbeatsStop, stop_vars, await_vars
  <2>2. link' = link \/ \E s \in {"open", "lost", "none"} : link' = [link EXCEPT ![w] = s]
    BY <1>8 DEF WorkerConnects, WorkerIsLost, HandlerReturns, HeartbeatsStop
  <2>3. link' \in [Workers -> {"none", "open", "lost", "closing"}]
    BY <1>1, <2>2 DEF MainTypes
  <2>4. QED
    BY <1>1, <2>1, <2>3 DEF MainTypes
<1>9. CASE start_master \/ ServerStarted \/ WaitsForServer
  BY <1>1, <1>9, SMT DEF start_master, ServerStarted, WaitsForServer, MainTypes, await_vars
<1>10. CASE stop_master \/ ServerClosed
  <2>1. UNCHANGED <<cycle, awaited, link, to_close>>
    BY <1>10 DEF stop_master, ServerClosed, StopDispatcher
  <2>2. main' \in {"dispatcher", "monitor"}
    BY <1>10 DEF stop_master, ServerClosed, StopDispatcher, StopMonitor
  <2>3. awaited_loop' = awaited_loop \/ (is_dispatcher_running /\ awaited_loop' = _dispatcher_task)
    BY <1>10 DEF stop_master, ServerClosed, StopDispatcher
  <2>4. awaited_loop' \in Loops \cup {None}
    BY <1>1, <2>3 DEF MainTypes, TypeOK
  <2>5. QED
    BY <1>1, <2>1, <2>2, <2>4 DEF MainTypes
<1>11. CASE DispatcherStopped \/ DispatchesEnded
  <2>1. UNCHANGED <<cycle, link, to_close>>
    BY <1>11 DEF DispatcherStopped, DispatchesEnded
  <2>2. main' \in {"dispatches", "monitor"}
    BY <1>11 DEF DispatcherStopped, DispatchesEnded, StopMonitor
  <2>3. awaited_loop' \in Loops \cup {None}
    BY <1>1, <1>11 DEF DispatcherStopped, DispatchesEnded, MainTypes
  <2>4. awaited' \subseteq Attempts
    BY <1>11 DEF DispatcherStopped, DispatchesEnded, Gathered, _dispatch_tasks
  <2>5. QED
    BY <1>1, <2>1, <2>2, <2>3, <2>4 DEF MainTypes
<1>12. CASE MonitorStopped \/ MonitorHadRaised
  BY <1>1, <1>12 DEF MonitorStopped, MonitorHadRaised, MainTypes, await_vars
<1>13. ASSUME NEW w \in Workers, LinkCloses(w) \/ LinkCloseRaises(w) PROVE MainTypes'
  <2>1. UNCHANGED <<cycle, awaited_loop, awaited>>
    BY <1>13 DEF LinkCloses, LinkCloseRaises, await_vars
  <2>2. main' = main \/ main' = "aborted"
    BY <1>13 DEF LinkCloses, LinkCloseRaises
  <2>3. to_close' \subseteq Workers
    BY <1>1, <1>13 DEF LinkCloses, LinkCloseRaises, MainTypes
  <2>4. link' = link \/ \E s \in {"closing", link[w]} : link' = [link EXCEPT ![w] = s]
    BY <1>13 DEF LinkCloses, LinkCloseRaises
  <2>5. link' \in [Workers -> {"none", "open", "lost", "closing"}]
    BY <1>1, <2>4 DEF MainTypes
  <2>6. QED
    BY <1>1, <2>1, <2>2, <2>3, <2>5 DEF MainTypes
<1>14. CASE LinksClosed \/ Stopped
  BY <1>1, <1>14 DEF LinksClosed, Stopped, MainTypes, await_vars
<1>15. QED
  BY <1>3, <1>4, <1>5, <1>6, <1>7, <1>8, <1>9, <1>10, <1>11, <1>12, <1>13, <1>14
    , SMT DEF Next, Others, stop_master_continues

(* Who changes the dispatcher loops. *)
LEMMA LoopsAside ==
  ASSUME Next
  PROVE  \/ UNCHANGED loop_vars
         \/ stop_master \/ ServerClosed \/ DispatcherStopped
         \/ \E l \in Loops : DispatcherLastTick(l) \/ DispatcherReturns(l)
         \/ \E t \in Tasks : Call(t)
<1>1. CASE Monitor
  BY <1>1 DEF Monitor, MonitorTicks, MonitorAssigns, MonitorDrained, MonitorReturns
<1>2. CASE Job
  BY <1>2 DEF Job, drain_tasks_for_continues, JobAssigns, JobWaits, JobEnds, JobSubmits
<1>3. CASE Dispatcher
  BY <1>3 DEF Dispatcher, DispatcherTicks
<1>4. ASSUME NEW a \in Attempts, Dispatch(a) PROVE UNCHANGED loop_vars
  BY <1>4 DEF Dispatch, DispatchRaises, DispatchSends, DispatchHasNoLink, DispatchIsStale,
              DispatchIsLost, DispatchIsAnswered, WorkerUnreachable
<1>5. ASSUME NEW t \in Tasks, CallTimesOut(t) PROVE UNCHANGED loop_vars
  BY <1>5 DEF CallTimesOut
<1>6. ASSUME NEW w \in Workers,
             WorkerConnects(w) \/ WorkerIsLost(w) \/ HandlerReturns(w) \/ HeartbeatsStop(w)
      PROVE UNCHANGED loop_vars
  BY <1>6 DEF WorkerConnects, WorkerIsLost, HandlerReturns, HeartbeatsStop
<1>7. CASE start_master \/ ServerStarted \/ WaitsForServer
  BY <1>7 DEF start_master, ServerStarted, WaitsForServer
<1>8. CASE DispatchesEnded \/ MonitorStopped \/ MonitorHadRaised
  BY <1>8 DEF DispatchesEnded, MonitorStopped, MonitorHadRaised
<1>9. ASSUME NEW w \in Workers, LinkCloses(w) \/ LinkCloseRaises(w) PROVE UNCHANGED loop_vars
  BY <1>9 DEF LinkCloses, LinkCloseRaises
<1>10. CASE LinksClosed \/ Stopped
  BY <1>10 DEF LinksClosed, Stopped
<1>11. QED
  BY <1>1, <1>2, <1>3, <1>4, <1>5, <1>6, <1>7, <1>8, <1>9, <1>10
    , SMT DEF Next, Others, stop_master_continues

LEMMA LoopTypesStep ==
  ASSUME TypeOK, Next
  PROVE  LoopTypes'
<1>1. LoopTypes
  BY TypeParts
<1>2. CASE UNCHANGED loop_vars
  BY <1>1, <1>2 DEF LoopTypes, loop_vars
<1>3. CASE stop_master \/ ServerClosed
  <2>1. _dispatcher_task' = _dispatcher_task
    BY <1>3 DEF stop_master, ServerClosed, StopDispatcher
  <2>2. loop' = loop \/ \E s \in {"stopping", "due"} :
                           loop' = [loop EXCEPT ![_dispatcher_task] = s]
    BY <1>3 DEF stop_master, ServerClosed, StopDispatcher
  <2>3. QED
    BY <1>1, <2>1, <2>2 DEF LoopTypes
<1>4. CASE DispatcherStopped
  BY <1>1, <1>4 DEF DispatcherStopped, LoopTypes
<1>5. ASSUME NEW l \in Loops, DispatcherLastTick(l) \/ DispatcherReturns(l) PROVE LoopTypes'
  BY <1>1, <1>5 DEF DispatcherLastTick, DispatcherReturns, LoopTypes
<1>6. ASSUME NEW t \in Tasks, Call(t) PROVE LoopTypes'
  <2>1. ensure_dispatcher_running
    BY <1>6 DEF Call
  <2>2. CASE UNCHANGED loop_vars
    BY <1>2, <2>2
  <2>3. ASSUME NEW l \in Loops, loop' = [loop EXCEPT ![l] = "running"], _dispatcher_task' = l
        PROVE  LoopTypes'
    BY <1>1, <2>3 DEF LoopTypes
  <2>4. QED
    BY <2>1, <2>2, <2>3 DEF ensure_dispatcher_running
<1>7. QED
  BY <1>2, <1>3, <1>4, <1>5, <1>6, LoopsAside

(* The monitor is told to stop. *)
Told ==
  /\ monitor' = monitor \/ (monitor = "idle" /\ monitor' = "due")
  /\ monitor_stop' = TRUE

(* Who changes the failure monitor. *)
LEMMA MonitorAside ==
  ASSUME Next
  PROVE  \/ UNCHANGED monitor_vars
         \/ Monitor
         \/ ServerStarted
         \/ Told
         \/ \E a \in Attempts : DispatchRaises(a)
<1>1. CASE Job
  BY <1>1 DEF Job, drain_tasks_for_continues, JobAssigns, JobWaits, JobEnds, JobSubmits
<1>2. CASE Dispatcher
  BY <1>2 DEF Dispatcher, DispatcherTicks, DispatcherLastTick, DispatcherReturns
<1>3. ASSUME NEW a \in Attempts, Dispatch(a) PROVE UNCHANGED monitor_vars \/ DispatchRaises(a)
  BY <1>3 DEF Dispatch, DispatchSends, DispatchHasNoLink, DispatchIsStale,
              DispatchIsLost, DispatchIsAnswered, WorkerUnreachable
<1>4. ASSUME NEW t \in Tasks, Call(t) \/ CallTimesOut(t) PROVE UNCHANGED monitor_vars
  BY <1>4 DEF Call, CallTimesOut
<1>5. ASSUME NEW w \in Workers,
             WorkerConnects(w) \/ WorkerIsLost(w) \/ HandlerReturns(w) \/ HeartbeatsStop(w)
      PROVE UNCHANGED monitor_vars
  BY <1>5 DEF WorkerConnects, WorkerIsLost, HandlerReturns, HeartbeatsStop
<1>6. CASE start_master \/ WaitsForServer
  BY <1>6 DEF start_master, WaitsForServer
<1>7. ASSUME stop_master \/ ServerClosed \/ DispatcherStopped \/ DispatchesEnded
      PROVE  UNCHANGED monitor_vars \/ Told
  BY <1>7 DEF stop_master, ServerClosed, StopDispatcher, DispatcherStopped, DispatchesEnded,
              StopMonitor, Told
<1>8. CASE MonitorStopped \/ MonitorHadRaised
  BY <1>8 DEF MonitorStopped, MonitorHadRaised
<1>9. ASSUME NEW w \in Workers, LinkCloses(w) \/ LinkCloseRaises(w) PROVE UNCHANGED monitor_vars
  BY <1>9 DEF LinkCloses, LinkCloseRaises
<1>10. CASE LinksClosed \/ Stopped
  BY <1>10 DEF LinksClosed, Stopped
<1>11. QED
  BY <1>1, <1>2, <1>3, <1>4, <1>5, <1>6, <1>7, <1>8, <1>9, <1>10
    , ZenonT(60) DEF Next, Others, stop_master_continues, monitor_vars

LEMMA MonitorTypesStep ==
  ASSUME TypeOK, Next
  PROVE  MonitorTypes'
<1>1. MonitorTypes
  BY TypeParts
<1>2. CASE UNCHANGED monitor_vars
  BY <1>1, <1>2 DEF MonitorTypes, monitor_vars
<1>3. CASE Monitor
  BY <1>1, <1>3 DEF Monitor, MonitorTicks, MonitorAssigns, MonitorDrained, MonitorReturns, MonitorTypes
<1>4. CASE ServerStarted
  BY <1>4 DEF ServerStarted, MonitorTypes
<1>5. CASE Told
  BY <1>1, <1>5 DEF Told, MonitorTypes
<1>6. ASSUME NEW a \in Attempts, DispatchRaises(a) PROVE MonitorTypes'
  BY <1>1, <1>6 DEF DispatchRaises, MonitorTypes
<1>7. QED
  BY <1>2, <1>3, <1>4, <1>5, <1>6, MonitorAside

(* Who changes the registry and the job. *)
LEMMA CallsAside ==
  ASSUME Next
  PROVE  \/ UNCHANGED <<registry, job_vars>>
         \/ Job
         \/ Stopped
         \/ \E a \in Attempts : Dispatch(a)
         \/ \E t \in Tasks : Call(t) \/ CallTimesOut(t)
<1>1. CASE Monitor
  BY <1>1 DEF Monitor, MonitorTicks, MonitorAssigns, MonitorDrained, MonitorReturns, call_vars
<1>2. CASE Dispatcher
  BY <1>2 DEF Dispatcher, DispatcherTicks, DispatcherLastTick, DispatcherReturns, call_vars
<1>3. ASSUME NEW w \in Workers,
             WorkerConnects(w) \/ WorkerIsLost(w) \/ HandlerReturns(w) \/ HeartbeatsStop(w)
      PROVE UNCHANGED <<registry, job_vars>>
  BY <1>3 DEF WorkerConnects, WorkerIsLost, HandlerReturns, HeartbeatsStop, call_vars
<1>4. CASE start_master \/ ServerStarted \/ WaitsForServer
  BY <1>4 DEF start_master, ServerStarted, WaitsForServer, call_vars
<1>5. CASE stop_master \/ ServerClosed \/ DispatcherStopped \/ DispatchesEnded
  BY <1>5 DEF stop_master, ServerClosed, StopDispatcher, DispatcherStopped, DispatchesEnded, call_vars
<1>6. CASE MonitorStopped \/ MonitorHadRaised
  BY <1>6 DEF MonitorStopped, MonitorHadRaised, call_vars
<1>7. ASSUME NEW w \in Workers, LinkCloses(w) \/ LinkCloseRaises(w)
      PROVE UNCHANGED <<registry, job_vars>>
  BY <1>7 DEF LinkCloses, LinkCloseRaises, call_vars
<1>8. CASE LinksClosed
  BY <1>8 DEF LinksClosed, call_vars
<1>9. QED
  BY <1>1, <1>2, <1>3, <1>4, <1>5, <1>6, <1>7, <1>8 DEF Next, Others, stop_master_continues

-----------------------------------------------------------------------------
(* Who gathers a dispatch. *)

(* No dispatch comes to life, and one that changes hands is an orphan. *)
HandsKept ==
  \A b \in Attempts :
    /\ co'[b].pc \in {"spawned", "awaiting"} => Live(b)
    /\ co'[b].pc = "spawned" => co[b].pc = "spawned"
    /\ co'[b].by = co[b].by \/ co'[b].by = "orphan"
    /\ co[b].by = "orphan" => co'[b].by = "orphan"

LEMMA EndsHands ==
  ASSUME TypeOK, SpawnInv, NEW a \in Attempts, Live(a), Ends(a)
  PROVE  HandsKept /\ \A b \in Attempts : co'[b].by = co[b].by
<1>1. /\ co'[a].pc = "done"
      /\ co'[a].by = co[a].by
      /\ \A b \in Attempts : b # a => co'[b] = co[b]
  BY EndsSettles
<1>2. QED
  BY <1>1 DEF HandsKept, Live

LEMMA RaisesHands ==
  ASSUME TypeOK, NEW a \in Attempts, DispatchRaises(a)
  PROVE  /\ HandsKept
         /\ \A b \in Attempts :
              \/ co'[b].by = co[b].by /\ (co'[b].pc \in {"spawned", "awaiting"} =>
                                            co[b].by # co[a].by \/ co[a].by \notin {"job", "monitor"})
              \/ co[b].by = co[a].by /\ co[a].by \in {"job", "monitor"} /\ co'[b].by = "orphan"
<1>1. co' = [b \in Attempts |-> IF b = a THEN Ended(a)
                                ELSE IF b \in Orphans(a)
                                     THEN [co[b] EXCEPT !.by = "orphan"] ELSE co[b]]
  BY DEF DispatchRaises
<1>2. co \in Dispatches
  BY TaskTypes
<1>3. co'[a].pc = "done" /\ co'[a].by = co[a].by
  BY <1>1 DEF Ended
<1>4. ASSUME NEW b \in Attempts, b # a, b \in Orphans(a)
      PROVE  co'[b].pc = co[b].pc /\ co'[b].by = "orphan" /\ Live(b) /\ co[b].by = co[a].by
             /\ co[a].by \in {"job", "monitor"}
  <2>1. co'[b] = [co[b] EXCEPT !.by = "orphan"]
    BY <1>1, <1>4
  <2>2. co'[b].pc = co[b].pc /\ co'[b].by = "orphan"
    BY <1>2, <2>1 DEF Dispatches
  <2>3. QED
    BY <1>4, <2>2 DEF Orphans
<1>5. ASSUME NEW b \in Attempts, b # a, b \notin Orphans(a)
      PROVE  /\ co'[b] = co[b]
             /\ ~Live(b) \/ co[b].by # co[a].by \/ co[a].by \notin {"job", "monitor"}
  BY <1>1, <1>5 DEF Orphans
<1>6. HandsKept
  BY <1>3, <1>4, <1>5 DEF HandsKept, Live
<1>7. QED
  BY <1>3, <1>4, <1>5, <1>6 DEF Live

LEMMA SendsHands ==
  ASSUME TypeOK, NEW a \in Attempts, DispatchSends(a)
  PROVE  HandsKept /\ \A b \in Attempts : co'[b].by = co[b].by
<1>1. /\ co[a].pc = "spawned"
      /\ co' = [co EXCEPT ![a].pc = "awaiting",
                          ![a].worker = assigned_worker_id[a[1]],
                          ![a].attempt = attempt[a[1]]]
  BY DEF DispatchSends
<1>2. co \in Dispatches
  BY TaskTypes
<1>3. /\ co'[a].pc = "awaiting"
      /\ co'[a].by = co[a].by
      /\ \A b \in Attempts : b # a => co'[b] = co[b]
  BY <1>1, <1>2 DEF Dispatches
<1>4. QED
  BY <1>1, <1>3 DEF HandsKept, Live

LEMMA DispatchHands ==
  ASSUME TypeOK, SpawnInv, NEW a \in Attempts, Dispatch(a)
  PROVE  HandsKept /\ (DispatchRaises(a) \/ \A b \in Attempts : co'[b].by = co[b].by)
<1>1. CASE DispatchRaises(a)
  BY <1>1, RaisesHands
<1>2. CASE DispatchSends(a)
  BY <1>2, SendsHands
<1>3. CASE DispatchHasNoLink(a) \/ DispatchIsStale(a) \/ DispatchIsLost(a) \/ DispatchIsAnswered(a)
  <2>1. Live(a) /\ Ends(a)
    BY <1>3 DEF DispatchHasNoLink, DispatchIsStale, DispatchIsLost, DispatchIsAnswered,
                WorkerUnreachable, Live
  <2>2. QED
    BY <2>1, EndsHands
<1>4. QED
  BY <1>1, <1>2, <1>3 DEF Dispatch

LEMMA AssigningHands ==
  ASSUME TypeOK, SpawnInv, NEW G, NEW by, Assigning(G, by)
  PROVE  \A b \in Attempts :
           \/ co'[b] = co[b]
           \/ co[b].pc = "none" /\ co[b].by = "none" /\ b[1] \in G
              /\ b[2] = attempt'[b[1]] /\ co'[b].pc = "spawned" /\ co'[b].by = by
<1> SUFFICES ASSUME NEW b \in Attempts, co'[b] # co[b]
             PROVE  co[b].pc = "none" /\ co[b].by = "none" /\ b[1] \in G
                    /\ b[2] = attempt'[b[1]] /\ co'[b].pc = "spawned" /\ co'[b].by = by
  OBVIOUS
<1>1. b[1] \in G /\ b[2] = attempt[b[1]] + 1 /\ co'[b] = Spawned(by)
  BY DEF Assigning
<1>2. co'[b].pc = "spawned" /\ co'[b].by = by
  BY <1>1, SMT DEF Spawned
<1>3. b[1] \in Tasks /\ attempt[b[1]] \in Nat /\ attempt'[b[1]] = attempt[b[1]] + 1
  BY <1>1, AttemptPair, TaskTypes DEF Assigning
<1>4. ~(b[2] <= attempt[b[1]])
  BY <1>1, <1>3, SMT
<1>5. QED
  BY <1>1, <1>2, <1>3, <1>4 DEF SpawnInv

(* Dispatches come to life in the rounds and the ticks, and nowhere else. *)
LEMMA HandsStep ==
  ASSUME TypeOK, Next
  PROVE  \/ co' = co
         \/ JobAssigns \/ MonitorAssigns
         \/ \E l \in Loops : Ticking(l)
         \/ \E a \in Attempts : Dispatch(a)
<1>1. CASE Monitor
  BY <1>1 DEF Monitor, MonitorTicks, MonitorDrained, MonitorReturns, call_vars
<1>2. CASE Job
  BY <1>2 DEF Job, drain_tasks_for_continues, JobWaits, JobEnds, JobSubmits
<1>3. CASE Dispatcher
  BY <1>3 DEF Dispatcher, Ticking, DispatcherReturns, call_vars
<1>4. ASSUME NEW w \in Workers,
             WorkerConnects(w) \/ WorkerIsLost(w) \/ HandlerReturns(w) \/ HeartbeatsStop(w)
      PROVE co' = co
  BY <1>4 DEF WorkerConnects, WorkerIsLost, HandlerReturns, HeartbeatsStop, call_vars
<1>5. ASSUME NEW t \in Tasks, Call(t) \/ CallTimesOut(t) PROVE co' = co
  BY <1>5 DEF Call, CallTimesOut
<1>6. ASSUME MainSteps PROVE co' = co
  BY <1>6, MainAside
<1>7. QED
  BY <1>1, <1>2, <1>3, <1>4, <1>5, <1>6, SMT DEF Next, Others, MainSteps

(* What they assign. *)
LEMMA EachAssigns ==
  ASSUME TypeOK, Core
  PROVE  /\ JobAssigns => \E G \in SUBSET Tasks : Assigning(G, "job")
         /\ MonitorAssigns => \E G \in SUBSET Tasks : Assigning(G, "monitor")
         /\ \A l \in Loops : Ticking(l) => \E G \in SUBSET Tasks : Assigning(G, "loop")
<1>1. ASSUME JobAssigns PROVE \E G \in SUBSET Tasks : Assigning(G, "job")
  <2>1. DrainRound(task_ids, "job") /\ task_ids \in SUBSET Tasks
    BY <1>1 DEF JobAssigns, TypeOK
  <2>2. PICK G \in SUBSET task_ids : Assigning(G, "job")
    BY <2>1, RoundAssigns DEF Core
  <2>3. QED
    BY <2>1, <2>2
<1>2. ASSUME MonitorAssigns PROVE \E G \in SUBSET Tasks : Assigning(G, "monitor")
  <2>1. DrainRound(Tasks, "monitor") /\ Tasks \in SUBSET Tasks
    BY <1>2 DEF MonitorAssigns
  <2>2. QED
    BY <2>1, RoundAssigns DEF Core
<1>3. ASSUME NEW l \in Loops, Ticking(l) PROVE \E G \in SUBSET Tasks : Assigning(G, "loop")
  BY <1>3, TickAssigns DEF Core
<1>4. QED
  BY <1>1, <1>2, <1>3

LEMMA HandsNext ==
  ASSUME TypeOK, Core, Next
  PROVE  \/ co' = co
         \/ JobAssigns /\ \E G \in SUBSET Tasks : Assigning(G, "job")
         \/ MonitorAssigns /\ \E G \in SUBSET Tasks : Assigning(G, "monitor")
         \/ \E l \in Loops : Ticking(l) /\ \E G \in SUBSET Tasks : Assigning(G, "loop")
         \/ \E a \in Attempts : Dispatch(a)
BY HandsStep, EachAssigns

-----------------------------------------------------------------------------
(* The job. *)

(* What a dispatch does to the job. *)
LEMMA DispatchJob ==
  ASSUME NEW a \in Attempts, Dispatch(a)
  PROVE  /\ task_ids' = task_ids
         /\ job' = job \/ (DispatchRaises(a) /\ co[a].by = "job" /\ job' = "raised")
         /\ responses' = responses \/ (co[a].by = "job" /\ responses' = responses \cup {a[1]})
         /\ main' = main
<1>1. CASE DispatchRaises(a)
  BY <1>1 DEF DispatchRaises, stop_vars
<1>2. CASE DispatchSends(a)
  BY <1>2 DEF DispatchSends, job_vars, stop_vars
<1>3. CASE DispatchHasNoLink(a) \/ DispatchIsLost(a)
  BY <1>3 DEF DispatchHasNoLink, DispatchIsLost, WorkerUnreachable, job_vars, stop_vars
<1>4. CASE DispatchIsStale(a)
  BY <1>4 DEF DispatchIsStale, Returns, stop_vars
<1>5. CASE DispatchIsAnswered(a)
  BY <1>5 DEF DispatchIsAnswered, Returns, stop_vars
<1>6. QED
  BY <1>1, <1>2, <1>3, <1>4, <1>5 DEF Dispatch

LEMMA CallTypesStep ==
  ASSUME TypeOK, JobInv, Next
  PROVE  CallTypes'
<1>1. CallTypes
  BY TypeParts
<1>2. CASE UNCHANGED <<registry, job_vars>>
  BY <1>1, <1>2 DEF CallTypes, registry, job_vars
<1>3. CASE Job
  <2>1. CASE JobAssigns \/ JobWaits \/ JobEnds
    BY <1>1, <2>1 DEF JobAssigns, JobWaits, JobEnds, CallTypes, registry
  <2>2. ASSUME NEW t \in Tasks, JobSubmits(t) PROVE CallTypes'
    BY <1>1, <2>2 DEF JobSubmits, CallTypes, registry
  <2>3. QED
    BY <1>3, <2>1, <2>2 DEF Job, drain_tasks_for_continues
<1>4. CASE Stopped
  BY <1>1, <1>4 DEF Stopped, clear_dispatch_registry, CallTypes, job_vars
<1>5. ASSUME NEW a \in Attempts, Dispatch(a) PROVE CallTypes'
  <2>1. a[1] \in Tasks
    BY AttemptPair
  <2>2. /\ waiting' = waiting \/ waiting' = waiting \ {a[1]}
        /\ recorded' = recorded \/ recorded' = recorded \cup {a[1]}
    BY <1>5 DEF Dispatch, DispatchRaises, DispatchSends, DispatchHasNoLink, DispatchIsStale,
                DispatchIsLost, DispatchIsAnswered, WorkerUnreachable, Records, registry
  <2>3. waiting' \subseteq Tasks /\ recorded' \subseteq Tasks
    BY <1>1, <2>1, <2>2 DEF CallTypes
  <2>4. /\ task_ids' = task_ids
        /\ job' = job \/ job' = "raised"
        /\ responses' = responses \/ (co[a].by = "job" /\ responses' = responses \cup {a[1]})
    BY <1>5, DispatchJob
  <2>5. responses' \subseteq task_ids
    BY <1>1, <2>4, SMT DEF CallTypes, JobInv
  <2>6. QED
    BY <1>1, <2>3, <2>4, <2>5 DEF CallTypes
<1>6. ASSUME NEW t \in Tasks, Call(t) \/ CallTimesOut(t) PROVE CallTypes'
  <2>1. UNCHANGED <<job, task_ids, responses, recorded>>
    BY <1>6 DEF Call, CallTimesOut, job_vars
  <2>2. waiting' \subseteq waiting \cup {t}
    BY <1>6 DEF Call, CallTimesOut
  <2>3. QED
    BY <1>1, <2>1, <2>2 DEF CallTypes
<1>7. QED
  BY <1>2, <1>3, <1>4, <1>5, <1>6, CallsAside

LEMMA TypeStep ==
  ASSUME TypeOK, Core, JobInv, Next
  PROVE  TypeOK'
<1>1. SchedulerTypeOK' /\ co' \in Dispatches
  BY CoreStep DEF CoreNext
<1>2. MainTypes' /\ LoopTypes' /\ MonitorTypes' /\ CallTypes'
  BY MainTypesStep, LoopTypesStep, MonitorTypesStep, CallTypesStep
<1>3. QED
  BY <1>1, <1>2 DEF TypeOK, Dispatches, MainTypes, LoopTypes, MonitorTypes, CallTypes

(* Who leaves the state in which the master is up. *)
LEMMA MainAlone ==
  ASSUME Next, ~MainSteps
  PROVE  main' = main
<1>1. CASE Monitor
  BY <1>1 DEF Monitor, MonitorTicks, MonitorAssigns, MonitorDrained, MonitorReturns, stop_vars
<1>2. CASE Job
  BY <1>2 DEF Job, drain_tasks_for_continues, JobAssigns, JobWaits, JobEnds, JobSubmits, stop_vars
<1>3. CASE Dispatcher
  BY <1>3 DEF Dispatcher, DispatcherTicks, DispatcherLastTick, DispatcherReturns, stop_vars
<1>4. ASSUME NEW a \in Attempts, Dispatch(a) PROVE main' = main
  BY <1>4, DispatchJob
<1>5. ASSUME NEW w \in Workers,
             WorkerConnects(w) \/ WorkerIsLost(w) \/ HandlerReturns(w) \/ HeartbeatsStop(w)
      PROVE main' = main
  BY <1>5 DEF WorkerConnects, WorkerIsLost, HandlerReturns, HeartbeatsStop, stop_vars
<1>6. ASSUME NEW t \in Tasks, Call(t) \/ CallTimesOut(t) PROVE main' = main
  BY <1>6 DEF Call, CallTimesOut, stop_vars
<1>7. QED
  BY <1>1, <1>2, <1>3, <1>4, <1>5, <1>6, SMT DEF Next, Others, MainSteps

(* Steps that neither are the job's nor end one of its dispatches. *)
LEMMA JobAlone ==
  ASSUME TypeOK, Next, ~Job, \A a \in Attempts : ~Dispatch(a)
  PROVE  UNCHANGED <<job, task_ids, responses>>
<1>1. ASSUME Stopped PROVE UNCHANGED <<job, task_ids, responses>>
  BY <1>1 DEF Stopped, job_vars
<1>2. ASSUME NEW t \in Tasks, Call(t) \/ CallTimesOut(t)
      PROVE  UNCHANGED <<job, task_ids, responses>>
  BY <1>2 DEF Call, CallTimesOut, job_vars
<1>3. QED
  BY <1>1, <1>2, CallsAside DEF job_vars

LEMMA JobStep ==
  ASSUME TypeOK, Core, JobInv, Next
  PROVE  JobInv'
<1>1. SpawnInv
  BY DEF Core
<1>2. /\ task_ids = {} => job = "none"
      /\ \A a \in Attempts : co[a].by = "job" => a[1] \in task_ids
      /\ \A a \in Attempts : Live(a) /\ co[a].by = "job" => job = "draining"
  BY DEF JobInv
<1>3. CASE Job
  <2>1. CASE JobAssigns
    <3>1. /\ job \in {"submitting", "draining"} /\ job' = "draining" /\ task_ids' = task_ids
          /\ DrainRound(task_ids, "job") /\ task_ids \in SUBSET Tasks
      BY <2>1 DEF JobAssigns, TypeOK
    <3>2. PICK G \in SUBSET task_ids : Assigning(G, "job")
      BY <3>1, RoundAssigns DEF Core
    <3>3. \A b \in Attempts : co'[b] = co[b] \/ b[1] \in G
      BY <1>1, <3>2, AssigningHands
    <3>4. QED
      BY <1>2, <3>1, <3>3 DEF JobInv
  <2>2. CASE JobWaits \/ JobEnds
    <3>1. /\ job \in {"submitting", "draining"} /\ job' \in {"draining", "returned", "gave_up"}
          /\ task_ids' = task_ids /\ co' = co
      BY <2>2 DEF JobWaits, JobEnds
    <3>2. \A a \in Attempts : Live(a) => co[a].by # "job"
      BY <2>2 DEF JobWaits, JobEnds, NothingToDrain, RoundIsOver
    <3>3. QED
      BY <1>2, <3>1, <3>2 DEF JobInv, Live
  <2>3. ASSUME NEW t \in Tasks, JobSubmits(t) PROVE JobInv'
    <3>1. /\ job \in {"none", "submitting"} /\ job' = "submitting"
          /\ task_ids' = task_ids \cup {t} /\ co' = co
      BY <2>3 DEF JobSubmits
    <3>2. QED
      BY <1>2, <3>1 DEF JobInv, Live
  <2>4. QED
    BY <1>3, <2>1, <2>2, <2>3 DEF Job, drain_tasks_for_continues
<1>4. ASSUME NEW a \in Attempts, Dispatch(a) PROVE JobInv'
  <2>1. /\ task_ids' = task_ids
        /\ job' = job \/ (DispatchRaises(a) /\ co[a].by = "job" /\ job' = "raised")
    BY <1>4, DispatchJob
  <2>2. \A b \in Attempts : /\ co'[b].pc \in {"spawned", "awaiting"} => Live(b)
                            /\ co'[b].by = "job" => co[b].by = "job"
    BY <1>1, <1>4, DispatchHands DEF HandsKept
  <2>3. CASE job' = job
    BY <1>2, <2>1, <2>2, <2>3 DEF JobInv, Live
  <2>4. CASE DispatchRaises(a) /\ co[a].by = "job" /\ job' = "raised"
    <3>1. \A b \in Attempts : co'[b].by = "job" => co'[b].pc \notin {"spawned", "awaiting"}
      BY <2>4, RaisesHands
    <3>2. QED
      BY <1>2, <2>1, <2>2, <2>4, <3>1 DEF JobInv, Live
  <2>5. QED
    BY <2>1, <2>3, <2>4
<1>5. CASE ~Job /\ \A a \in Attempts : ~Dispatch(a)
  <2>1. UNCHANGED <<job, task_ids, responses>>
    BY <1>5, JobAlone
  <2>2. \A b \in Attempts : co'[b] = co[b] \/ co'[b].by \in {"loop", "monitor"}
    <3>1. ASSUME MonitorAssigns PROVE \A b \in Attempts : co'[b] = co[b] \/ co'[b].by = "monitor"
      <4>1. DrainRound(Tasks, "monitor") /\ Tasks \in SUBSET Tasks
        BY <3>1 DEF MonitorAssigns
      <4>2. PICK G \in SUBSET Tasks : Assigning(G, "monitor")
        BY <4>1, RoundAssigns DEF Core
      <4>3. QED
        BY <1>1, <4>2, AssigningHands, SMT
    <3>2. ASSUME NEW l \in Loops, Ticking(l)
          PROVE  \A b \in Attempts : co'[b] = co[b] \/ co'[b].by = "loop"
      <4>1. PICK G \in SUBSET Tasks : Assigning(G, "loop")
        BY <3>2, TickAssigns DEF Core
      <4>2. QED
        BY <1>1, <4>1, AssigningHands, SMT
    <3>3. ~JobAssigns
      BY <1>5 DEF Job, drain_tasks_for_continues
    <3>4. QED
      BY <1>5, <3>1, <3>2, <3>3, HandsStep
  <2>3. QED
    BY <1>2, <2>1, <2>2 DEF JobInv, Live
<1>6. QED
  BY <1>3, <1>4, <1>5

(* Who changes the task table. *)
LEMMA TablesAside ==
  ASSUME Next
  PROVE  \/ UNCHANGED task_vars
         \/ MonitorTicks \/ MonitorAssigns \/ JobAssigns
         \/ \E l \in Loops : Ticking(l)
         \/ \E a \in Attempts : Dispatch(a)
         \/ \E t \in Tasks : submit_task(t)
<1>1. CASE Monitor
  BY <1>1 DEF Monitor, MonitorDrained, MonitorReturns, table_vars
<1>2. CASE Job
  BY <1>2 DEF Job, drain_tasks_for_continues, JobWaits, JobEnds, JobSubmits, table_vars
<1>3. CASE Dispatcher
  BY <1>3 DEF Dispatcher, Ticking, DispatcherReturns, table_vars
<1>4. ASSUME NEW w \in Workers,
             WorkerConnects(w) \/ WorkerIsLost(w) \/ HandlerReturns(w) \/ HeartbeatsStop(w)
      PROVE UNCHANGED task_vars
  BY <1>4 DEF WorkerConnects, WorkerIsLost, HandlerReturns, HeartbeatsStop, table_vars
<1>5. ASSUME NEW t \in Tasks, Call(t) \/ CallTimesOut(t) PROVE UNCHANGED task_vars \/ submit_task(t)
  BY <1>5 DEF Call, CallTimesOut, table_vars
<1>6. ASSUME MainSteps PROVE UNCHANGED task_vars
  BY <1>6, MainAside DEF table_vars
<1>7. QED
  BY <1>1, <1>2, <1>3, <1>4, <1>5, <1>6 DEF Next, Others, MainSteps

(* A task that is over stays so, and one that waits is not given out       *)
(* without a new attempt.                                                  *)
StatusMoves ==
  \A t \in Tasks :
    /\ attempt'[t] = attempt[t] \/ attempt'[t] = attempt[t] + 1
    /\ status[t] \in Terminal => status'[t] = status[t]
    /\ status[t] = "PENDING" => status'[t] = "PENDING" \/ attempt'[t] = attempt[t] + 1

LEMMA AssigningMoves ==
  ASSUME TypeOK, NEW G, NEW by, Assigning(G, by)
  PROVE  StatusMoves
BY DEF Assigning, StatusMoves, Terminal

LEMMA RequeueMoves ==
  ASSUME TypeOK, NEW W, FailAndRequeue(W)
  PROVE  StatusMoves
<1>1. /\ status' = [t \in Tasks |-> IF InFlightOn(t, W) THEN Requeued(t) ELSE status[t]]
      /\ attempt' = attempt
  BY DEF FailAndRequeue, requeue_tasks_for_workers
<1>2. \A t \in Tasks : InFlightOn(t, W) => status[t] \notin Terminal /\ status[t] # "PENDING"
  BY DEF InFlightOn, InFlight, Terminal
<1>3. QED
  BY <1>1, <1>2 DEF StatusMoves

LEMMA SubmitMoves ==
  ASSUME TypeOK, NEW t \in Tasks, submit_task(t)
  PROVE  StatusMoves
BY DEF submit_task, StatusMoves, TypeOK, SchedulerTypeOK, Terminal

LEMMA AsideMoves ==
  ASSUME UNCHANGED <<status, attempt>>
  PROVE  StatusMoves
BY DEF StatusMoves

LEMMA DispatchMoves ==
  ASSUME TypeOK, Core, NEW a \in Attempts, Dispatch(a)
  PROVE  StatusMoves
<1>1. CASE DispatchRaises(a) \/ DispatchIsStale(a)
  BY <1>1, AsideMoves DEF DispatchRaises, DispatchIsStale, table_vars, task_vars
<1>2. CASE DispatchSends(a)
  BY <1>2, AttemptPair, SMT
     DEF DispatchSends, start_task, StatusMoves, TypeOK, SchedulerTypeOK, Terminal
<1>3. CASE DispatchHasNoLink(a) \/ DispatchIsLost(a)
  <2>1. PICK W : FailAndRequeue(W)
    BY <1>3 DEF DispatchHasNoLink, DispatchIsLost, WorkerUnreachable
  <2>2. QED
    BY <2>1, RequeueMoves
<1>4. CASE DispatchIsAnswered(a)
  <2>1. status[a[1]] = "RUNNING"
    BY <1>4, CurrentRuns, SMT DEF DispatchIsAnswered, Core
  <2>2. /\ attempt' = attempt
        /\ \A t \in Tasks : t # a[1] => status'[t] = status[t]
    BY <1>4, ZenonT(60) DEF DispatchIsAnswered, complete_task, fail_task, TypeOK, SchedulerTypeOK
  <2>3. QED
    BY <2>1, <2>2 DEF StatusMoves, Terminal
<1>5. QED
  BY <1>1, <1>2, <1>3, <1>4 DEF Dispatch

LEMMA MovesStep ==
  ASSUME TypeOK, Core, Next
  PROVE  StatusMoves
<1>1. ASSUME UNCHANGED task_vars PROVE StatusMoves
  BY <1>1, AsideMoves DEF task_vars
<1>2. ASSUME MonitorTicks PROVE StatusMoves
  BY <1>2, RequeueMoves DEF MonitorTicks
<1>3. ASSUME JobAssigns \/ MonitorAssigns \/
             \E l \in Loops : Ticking(l)
      PROVE  StatusMoves
  <2>1. PICK G, by : Assigning(G, by)
    BY <1>3, EachAssigns
  <2>2. QED
    BY <2>1, AssigningMoves
<1>4. QED
  BY <1>1, <1>2, <1>3, DispatchMoves, SubmitMoves, TablesAside

(* What the task of a dispatch has become when the dispatch is over. *)
LEMMA EndReport ==
  ASSUME TypeOK, Core, NEW a \in Attempts, Dispatch(a),
         co[a].pc # "done", co'[a].pc = "done", co'[a].by = "job", a[2] = attempt'[a[1]],
         job' # "raised"
  PROVE  \/ status'[a[1]] \in {"PENDING", "FAILED"}
         \/ status'[a[1]] = "COMPLETED" /\ a[1] \in responses'
<1>1. a[1] \in Tasks /\ a[2] \in Nat
  BY AttemptPair
<1>2. co[a].by = "job"
  BY DispatchHands DEF HandsKept, Core
<1>3. CASE DispatchRaises(a)
  BY <1>2, <1>3 DEF DispatchRaises
<1>4. CASE DispatchSends(a)
  <2>1. co'[a].pc = "awaiting"
    BY <1>4, TaskTypes DEF DispatchSends, Dispatches
  <2>2. QED
    BY <2>1
<1>5. CASE DispatchHasNoLink(a)
  <2>1. status[a[1]] = "ASSIGNED" /\ FailAndRequeue({assigned_worker_id[a[1]]})
    BY <1>5 DEF DispatchHasNoLink, WorkerUnreachable
  <2>2. status'[a[1]] = Requeued(a[1])
    BY <1>1, <2>1 DEF FailAndRequeue, requeue_tasks_for_workers, InFlightOn, InFlight
  <2>3. QED
    BY <2>2 DEF Requeued
<1>6. CASE DispatchIsStale(a)
  <2>1. /\ co[a].pc = "awaiting" /\ ~is_current_attempt(a)
        /\ UNCHANGED <<status, assigned_worker_id, attempt>>
    BY <1>6 DEF DispatchIsStale, table_vars, task_vars
  <2>2. /\ a[2] <= co[a].attempt /\ co[a].attempt <= attempt[a[1]] /\ co[a].attempt \in Nat
        /\ a[2] = attempt[a[1]]
    BY <2>1, TaskTypes DEF Core, AwaitInv
  <2>3. co[a].attempt = attempt[a[1]]
    BY <1>1, <2>2, SMT
  <2>4. QED
    BY <2>1, <2>3 DEF Core, AwaitInv, is_current_attempt
<1>7. CASE DispatchIsLost(a)
  <2>1. co[a].pc = "awaiting" /\ is_current_attempt(a) /\ FailAndRequeue({co[a].worker})
    BY <1>7 DEF DispatchIsLost, WorkerUnreachable
  <2>2. status[a[1]] = "RUNNING" /\ assigned_worker_id[a[1]] = co[a].worker
    BY <2>1, CurrentRuns DEF Core
  <2>3. status'[a[1]] = Requeued(a[1])
    BY <1>1, <2>1, <2>2 DEF FailAndRequeue, requeue_tasks_for_workers, InFlightOn, InFlight
  <2>4. QED
    BY <2>3 DEF Requeued
<1>8. CASE DispatchIsAnswered(a)
  <2>1. \/ complete_task(a[1]) /\ Returns(a, TRUE)
        \/ fail_task(a[1]) /\ Returns(a, FALSE)
    BY <1>8 DEF DispatchIsAnswered
  <2>2. CASE complete_task(a[1]) /\ Returns(a, TRUE)
    <3>1. status'[a[1]] = "COMPLETED"
      BY <1>1, <2>2 DEF complete_task, TypeOK, SchedulerTypeOK
    <3>2. responses' = responses \cup {a[1]}
      BY <1>2, <2>2 DEF Returns
    <3>3. QED
      BY <3>1, <3>2
  <2>3. CASE fail_task(a[1]) /\ Returns(a, FALSE)
    BY <1>1, <2>3, SMT DEF fail_task, TypeOK, SchedulerTypeOK
  <2>4. QED
    BY <2>1, <2>2, <2>3
<1>9. QED
  BY <1>3, <1>4, <1>5, <1>6, <1>7, <1>8, SMT DEF Dispatch

(* A dispatch that is over was, or ends in this step. *)
LEMMA DoneBefore ==
  ASSUME TypeOK, Core, Next, NEW a \in Attempts, co'[a].pc = "done", co[a].pc # "done"
  PROVE  Dispatch(a)
<1>1. SpawnInv
  BY DEF Core
<1>2. ASSUME NEW G, NEW by, Assigning(G, by) PROVE FALSE
  BY <1>1, <1>2, AssigningHands
<1>3. co' # co
  OBVIOUS
<1>4. PICK b \in Attempts : Dispatch(b)
  BY <1>2, <1>3, HandsNext
<1>5. CASE DispatchRaises(b)
  <2>1. ASSUME b # a PROVE FALSE
    <3>1. co'[a] = co[a] \/ co'[a] = [co[a] EXCEPT !.by = "orphan"]
      BY <1>5, <2>1 DEF DispatchRaises
    <3>2. co'[a].pc = co[a].pc
      BY <3>1, TaskTypes, SMT DEF Dispatches
    <3>3. QED
      BY <3>2
  <2>2. QED
    BY <1>4, <2>1
<1>6. CASE DispatchSends(b)
  <2>1. co'[a].pc = "awaiting" \/ co'[a] = co[a]
    BY <1>6, TaskTypes, SMT DEF DispatchSends, Dispatches
  <2>2. QED
    BY <2>1
<1>7. CASE DispatchHasNoLink(b) \/ DispatchIsStale(b) \/ DispatchIsLost(b) \/ DispatchIsAnswered(b)
  <2>1. Live(b) /\ Ends(b)
    BY <1>7 DEF DispatchHasNoLink, DispatchIsStale, DispatchIsLost, DispatchIsAnswered,
                WorkerUnreachable, Live
  <2>2. \A c \in Attempts : c # b => co'[c] = co[c]
    BY <1>1, <2>1, EndsSettles
  <2>3. QED
    BY <1>4, <2>2
<1>8. QED
  BY <1>4, <1>5, <1>6, <1>7 DEF Dispatch

(* Nor does its gatherer change. *)
LEMMA DoneKept ==
  ASSUME TypeOK, Core, Next, NEW a \in Attempts, co[a].pc = "done", co'[a].by = "job"
  PROVE  co[a].by = "job"
<1>1. SpawnInv
  BY DEF Core
<1>2. ASSUME NEW G, NEW by, Assigning(G, by) PROVE co[a].by = "job"
  BY <1>1, <1>2, AssigningHands
<1>3. ASSUME NEW b \in Attempts, Dispatch(b) PROVE co[a].by = "job"
  BY <1>1, <1>3, DispatchHands DEF HandsKept
<1>4. QED
  BY <1>2, <1>3, HandsNext

(* The job: what it was told stays told, and it raises once. *)
LEMMA JobMoves ==
  ASSUME TypeOK, Next
  PROVE  /\ responses \subseteq responses'
         /\ job = "raised" => job' = "raised"
         /\ job' = "returned" => \/ job = "returned" /\ task_ids' = task_ids
                                 \/ JobEnds
<1>1. CASE Job
  <2>1. CASE JobAssigns \/ JobWaits \/ JobEnds
    BY <2>1 DEF JobAssigns, JobWaits, JobEnds
  <2>2. ASSUME NEW t \in Tasks, JobSubmits(t)
        PROVE  responses' = responses /\ job # "raised" /\ job' # "returned"
    BY <2>2 DEF JobSubmits
  <2>3. QED
    BY <1>1, <2>1, <2>2 DEF Job, drain_tasks_for_continues
<1>2. ASSUME NEW a \in Attempts, Dispatch(a)
      PROVE  /\ responses \subseteq responses' /\ task_ids' = task_ids
             /\ job' = job \/ job' = "raised"
  BY <1>2, DispatchJob
<1>3. CASE ~Job /\ \A a \in Attempts : ~Dispatch(a)
  BY <1>3, JobAlone
<1>4. QED
  BY <1>1, <1>2, <1>3

LEMMA ReportStep ==
  ASSUME TypeOK, Core, JobInv, ReportInv, Next
  PROVE  ReportInv'
<1>1. StatusMoves
  BY MovesStep
<1>2. ASSUME job' # "raised", NEW a \in Attempts, co'[a].pc = "done", co'[a].by = "job",
             a[2] = attempt'[a[1]]
      PROVE  \/ status'[a[1]] \in {"PENDING", "FAILED"}
             \/ status'[a[1]] = "COMPLETED" /\ a[1] \in responses'
  <2>1. CASE co[a].pc # "done"
    BY <1>2, <2>1, DoneBefore, EndReport
  <2>2. CASE co[a].pc = "done"
    <3>1. co[a].by = "job"
      BY <1>2, <2>2, DoneKept
    <3>2. a[1] \in Tasks /\ a[2] \in Nat /\ a[2] <= attempt[a[1]] /\ attempt[a[1]] \in Nat
      BY <2>2, AttemptPair, TaskTypes DEF Core, SpawnInv
    <3>3. attempt'[a[1]] = attempt[a[1]] /\ attempt'[a[1]] # attempt[a[1]] + 1
      BY <1>1, <1>2, <3>2, SMT DEF StatusMoves
    <3>4. \/ status[a[1]] \in {"PENDING", "FAILED"}
          \/ status[a[1]] = "COMPLETED" /\ a[1] \in responses
      BY <1>2, <2>2, <3>1, <3>3, JobMoves DEF ReportInv
    <3>5. QED
      BY <1>1, <3>2, <3>3, <3>4, JobMoves DEF StatusMoves, Terminal
  <2>3. QED
    BY <2>1, <2>2
<1>3. ASSUME job' = "returned", NEW t \in task_ids'
      PROVE  status'[t] \in Terminal
  <2>1. CASE job = "returned" /\ task_ids' = task_ids
    <3>1. t \in Tasks /\ status[t] \in Terminal
      BY <1>3, <2>1 DEF ReportInv, TypeOK
    <3>2. QED
      BY <1>1, <3>1 DEF StatusMoves
  <2>2. CASE JobEnds
    <3>1. Outstanding = {} /\ task_ids' = task_ids /\ status' = status
      BY <1>3, <2>2 DEF JobEnds, table_vars, task_vars
    <3>2. QED
      BY <1>3, <3>1 DEF Outstanding
  <2>3. QED
    BY <1>3, <2>1, <2>2, JobMoves
<1>4. QED
  BY <1>2, <1>3 DEF ReportInv

-----------------------------------------------------------------------------
(* What holds whoever calls. *)

LEMMA TaskInit ==
  ASSUME Init
  PROVE  TaskInv
<1>1. \A a \in Attempts : co[a].pc = "none" /\ co[a].by = "none"
  BY DEF Init, NotSpawned
<1>2. SchedulerTypeOK
  BY SchedulerAssumption, SMT
     DEF Init, SchedulerInit, SchedulerTypeOK, TaskStatus, WorkerStatus
<1>3. co \in Dispatches
  BY SchedulerAssumption, SMT DEF Init, NotSpawned, Dispatches
<1>4. MainTypes /\ LoopTypes /\ MonitorTypes /\ CallTypes
  BY DEF Init, MainTypes, LoopTypes, MonitorTypes, CallTypes
<1>5. TypeOK
  BY <1>2, <1>3, <1>4, TypeParts
<1>6. task_order = <<>> /\ worker_order = <<>>
  BY DEF Init, SchedulerInit
<1>7. OrderInv
  BY <1>6, SMT DEF OrderInv
<1>8. \A t \in Tasks : status[t] = "ABSENT" /\ attempt[t] = 0
  BY DEF Init, SchedulerInit
<1>9. StatusInv /\ WorkerInv
  BY <1>8 DEF StatusInv, WorkerInv, InFlight, Terminal
<1>10. SpawnInv /\ AwaitInv
  BY <1>1 DEF SpawnInv, AwaitInv
<1>11. JobInv /\ ReportInv
  BY <1>1 DEF Init, JobInv, ReportInv, Live
<1>12. QED
  BY <1>5, <1>7, <1>9, <1>10, <1>11 DEF TaskInv

LEMMA TaskStep ==
  ASSUME TaskInv, Next
  PROVE  TaskInv'
<1>1. TypeOK /\ Core /\ JobInv /\ ReportInv
  BY DEF TaskInv, Core
<1>2. TypeOK' /\ JobInv' /\ ReportInv'
  BY <1>1, TypeStep, JobStep, ReportStep
<1>3. Core'
  BY <1>1, CoreStep DEF CoreNext
<1>4. QED
  BY <1>2, <1>3 DEF TaskInv, Core

LEMMA TaskStutter ==
  ASSUME TaskInv, UNCHANGED vars
  PROVE  TaskInv'
<1> USE DEF vars, task_vars, worker_vars
<1>1. TypeOK'
  BY SMT DEF TaskInv, TypeOK, SchedulerTypeOK
<1>2. OrderInv' /\ StatusInv' /\ WorkerInv'
  BY DEF TaskInv, OrderInv, StatusInv, WorkerInv
<1>3. SpawnInv' /\ AwaitInv'
  BY DEF TaskInv, SpawnInv, AwaitInv
<1>4. JobInv' /\ ReportInv'
  BY DEF TaskInv, JobInv, ReportInv, Live
<1>5. QED
  BY <1>1, <1>2, <1>3, <1>4 DEF TaskInv

(* What the job reports follows from the invariant. *)
LEMMA TaskInvReports ==
  ASSUME TaskInv
  PROVE  DrainReports
<1> SUFFICES ASSUME job = "returned", NEW t \in task_ids
             PROVE  /\ status[t] \in Terminal
                    /\ status[t] = "COMPLETED" /\ co[<<t, attempt[t]>>].by = "job"
                         => t \in responses
  BY DEF DrainReports
<1> DEFINE a == <<t, attempt[t]>>
<1>1. TypeOK /\ SpawnInv /\ JobInv /\ ReportInv /\ StatusInv
  BY DEF TaskInv
<1>2. t \in Tasks /\ status[t] \in Terminal
  BY <1>1 DEF TypeOK, ReportInv
<1>3. ASSUME status[t] = "COMPLETED", co[a].by = "job"
      PROVE  t \in responses
  <2>1. attempt[t] > 0 /\ attempt[t] \in 0 .. MAX_TASK_ATTEMPTS
    BY <1>1, <1>2 DEF StatusInv, TypeOK, SchedulerTypeOK
  <2>2. a \in Attempts
    BY <1>2, <2>1, SchedulerAssumption, SMT DEF Attempts
  <2>3. a[1] = t /\ a[2] = attempt[t]
    OBVIOUS
  <2>4. ~Live(a) /\ co[a].pc # "none"
    BY <1>1, <1>3, <2>2 DEF JobInv, SpawnInv
  <2>5. co[a].pc = "done"
    BY <1>1, <2>2, <2>4, TaskTypes DEF Live, Dispatches
  <2>6. QED
    BY <1>1, <1>3, <2>2, <2>3, <2>5, SMT DEF ReportInv
<1>4. QED
  BY <1>2, <1>3

(* The variables of the master keep their types, whether or not callers    *)
(* come while it stops.                                                    *)
THEOREM TypeCorrect == Spec => []TypeOK
<1>1. Init => TaskInv
  BY TaskInit
<1>2. TaskInv /\ [Next]_vars => TaskInv'
  BY TaskStep, TaskStutter
<1>3. TaskInv => TypeOK
  BY DEF TaskInv
<1>4. QED
  BY <1>1, <1>2, <1>3, PTL DEF Spec

(* A drain_tasks_for that returns before its deadline leaves no task of    *)
(* its own open, and has the success of each one that its own last         *)
(* dispatch completed, whatever the dispatcher, the monitor, other callers *)
(* and a stop of the master did meanwhile.                                 *)
THEOREM DrainReportsHolds == Spec => []DrainReports
<1>1. Init => TaskInv
  BY TaskInit
<1>2. TaskInv /\ [Next]_vars => TaskInv'
  BY TaskStep, TaskStutter
<1>3. TaskInv => DrainReports
  BY TaskInvReports
<1>4. QED
  BY <1>1, <1>2, <1>3, PTL DEF Spec

-----------------------------------------------------------------------------
(* What holds if nobody calls wait_for_tasks while the master stops. *)

(* A loop is not None. *)
LEMMA LoopRuns ==
  ASSUME LoopInv, NEW l \in Loops, loop[l] \in {"running", "due", "stopping"}
  PROVE  is_dispatcher_running
BY LifecycleAssumption DEF LoopInv, is_dispatcher_running, Loops

(* Where the coroutine that starts and stops the master goes. *)
LEMMA MainMoves ==
  ASSUME Next
  PROVE  \/ UNCHANGED <<main, awaited_loop, awaited>>
         \/ UNCHANGED await_vars /\
            \/ main \in {"down", "aborted"} /\ main' = "starting"
            \/ main = "starting" /\ main' = "up"
            \/ main = "up" /\ main' = "server"
            \/ main = "monitor" /\ monitor \in {"raised", "returned"} /\ main' \in {"aborted", "closing"}
            \/ main = "closing" /\ main' \in {"aborted", "polling"}
            \/ main = "polling" /\ main' = "down"
         \/ (main \in {"up", "server"} /\ StopDispatcher)
         \/ DispatcherStopped \/ DispatchesEnded
<1>1. CASE Monitor
  BY <1>1 DEF Monitor, MonitorTicks, MonitorAssigns, MonitorDrained, MonitorReturns, stop_vars,
              await_vars
<1>2. CASE Job
  BY <1>2 DEF Job, drain_tasks_for_continues, JobAssigns, JobWaits, JobEnds, JobSubmits, stop_vars,
              await_vars
<1>3. CASE Dispatcher
  BY <1>3 DEF Dispatcher, DispatcherTicks, DispatcherLastTick, DispatcherReturns, stop_vars, await_vars
<1>4. ASSUME NEW a \in Attempts, Dispatch(a) PROVE UNCHANGED <<main, awaited_loop, awaited>>
  BY <1>4 DEF Dispatch, DispatchRaises, DispatchSends, DispatchHasNoLink, DispatchIsStale,
              DispatchIsLost, DispatchIsAnswered, WorkerUnreachable, stop_vars, await_vars
<1>5. ASSUME NEW w \in Workers,
             WorkerConnects(w) \/ WorkerIsLost(w) \/ HandlerReturns(w) \/ HeartbeatsStop(w)
      PROVE UNCHANGED <<main, awaited_loop, awaited>>
  BY <1>5 DEF WorkerConnects, WorkerIsLost, HandlerReturns, HeartbeatsStop, stop_vars, await_vars
<1>6. ASSUME NEW t \in Tasks, Call(t) \/ CallTimesOut(t)
      PROVE UNCHANGED <<main, awaited_loop, awaited>>
  BY <1>6 DEF Call, CallTimesOut, stop_vars, await_vars
<1>7. CASE start_master \/ ServerStarted \/ WaitsForServer
  BY <1>7 DEF start_master, ServerStarted, WaitsForServer
<1>8. CASE stop_master \/ ServerClosed
  BY <1>8 DEF stop_master, ServerClosed
<1>9. CASE MonitorStopped \/ MonitorHadRaised
  BY <1>9 DEF MonitorStopped, MonitorHadRaised, MonitorHasStopped
<1>10. ASSUME NEW w \in Workers, LinkCloses(w)
       PROVE UNCHANGED <<main, awaited_loop, awaited>>
  BY <1>10 DEF LinkCloses, await_vars
<1>11. ASSUME NEW w \in Workers, LinkCloseRaises(w)
       PROVE UNCHANGED await_vars /\ main = "closing" /\ main' = "aborted"
  BY <1>11 DEF LinkCloseRaises
<1>12. CASE LinksClosed \/ Stopped
  BY <1>12 DEF LinksClosed, Stopped
<1>13. QED
  BY <1>1, <1>2, <1>3, <1>4, <1>5, <1>6, <1>7, <1>8, <1>9, <1>10, <1>11, <1>12
    , SMT DEF Next, Others, stop_master_continues

(* What StopDispatcher does to the loops and to the main coroutine. *)
LEMMA StopDispatcherMoves ==
  ASSUME TypeOK, StopDispatcher
  PROVE  /\ _dispatcher_task' = _dispatcher_task /\ awaited' = awaited
         /\ co' = co
         /\ \/ /\ is_dispatcher_running /\ main' = "dispatcher"
               /\ awaited_loop' = _dispatcher_task /\ _dispatcher_task \in Loops
               /\ loop'[_dispatcher_task] \in {"due", "stopping"}
               /\ \A l \in Loops : l # _dispatcher_task => loop'[l] = loop[l]
            \/ /\ ~is_dispatcher_running /\ main' = "monitor"
               /\ loop' = loop
<1>1. /\ _dispatcher_task' = _dispatcher_task /\ awaited' = awaited
      /\ co' = co
  BY DEF StopDispatcher, call_vars
<1>2. CASE is_dispatcher_running
  <2>1. /\ \E s \in {"stopping", "due"} : loop' = [loop EXCEPT ![_dispatcher_task] = s]
        /\ main' = "dispatcher" /\ awaited_loop' = _dispatcher_task
    BY <1>2 DEF StopDispatcher
  <2>2. _dispatcher_task \in Loops /\ loop \in [Loops -> {"none", "running", "due", "stopping", "returned", "early"}]
    BY <1>2 DEF is_dispatcher_running, TypeOK
  <2>3. QED
    BY <1>1, <1>2, <2>1, <2>2
<1>3. CASE ~is_dispatcher_running
  BY <1>1, <1>3 DEF StopDispatcher, StopMonitor
<1>4. QED
  BY <1>2, <1>3

(* A caller finds a dispatcher or starts one. *)
LEMMA EnsureMoves ==
  ASSUME TypeOK, ensure_dispatcher_running
  PROVE  \/ is_dispatcher_running /\ UNCHANGED loop_vars
         \/ /\ ~is_dispatcher_running
            /\ \E l \in Loops : /\ loop[l] = "none" /\ loop'[l] = "running"
                                /\ _dispatcher_task' = l
                                /\ \A k \in Loops : k # l => loop'[k] = loop[k]
<1>1. CASE is_dispatcher_running
  BY <1>1 DEF ensure_dispatcher_running
<1>2. CASE ~is_dispatcher_running
  <2>1. PICK l \in Loops : /\ loop[l] = "none"
                           /\ loop' = [loop EXCEPT ![l] = "running"]
                           /\ _dispatcher_task' = l
    BY <1>2 DEF ensure_dispatcher_running
  <2>2. loop \in [Loops -> {"none", "running", "due", "stopping", "returned", "early"}]
    BY DEF TypeOK
  <2>3. QED
    BY <1>2, <2>1, <2>2
<1>3. QED
  BY <1>1, <1>2

(* Callers come while the master is up. *)
LEMMA CallMoves ==
  ASSUME LateCalls = FALSE, NEW t \in Tasks, Call(t)
  PROVE  /\ main = "up" /\ UNCHANGED <<main, awaited_loop, awaited, monitor, co>>
         /\ ensure_dispatcher_running
BY DEF Call, stop_vars, await_vars, monitor_vars

(* A dispatcher that is due makes a tick, and waits again or is over. *)
LEMMA LastTickMoves ==
  ASSUME TypeOK, LoopInv, NEW l \in Loops, DispatcherLastTick(l)
  PROVE  /\ loop[l] = "due" /\ _dispatcher_task = l /\ main = "dispatcher"
         /\ loop'[l] \in {"stopping", "early"}
         /\ \A k \in Loops : k # l => loop'[k] = loop[k]
         /\ UNCHANGED <<_dispatcher_task, main, awaited_loop, awaited>>
<1>1. /\ loop[l] = "due"
      /\ \E s \in {"stopping", "early"} : loop' = [loop EXCEPT ![l] = s]
      /\ UNCHANGED <<_dispatcher_task, main, awaited_loop, awaited>>
  BY DEF DispatcherLastTick, stop_vars, await_vars
<1>2. loop'[l] \in {"stopping", "early"} /\ \A k \in Loops : k # l => loop'[k] = loop[k]
  BY <1>1 DEF TypeOK
<1>3. QED
  BY <1>1, <1>2 DEF LoopInv

LEMMA LoopStep ==
  ASSUME LateCalls = FALSE, TypeOK, LoopInv, Next
  PROVE  LoopInv'
<1> DEFINE Loop(l) == /\ loop[l] \in {"running", "due", "stopping"} => _dispatcher_task = l
                      /\ loop[l] = "running" => main \in {"up", "server"}
                      /\ loop[l] \in {"due", "stopping"} => main = "dispatcher"
           Awaits == main = "dispatcher" =>
                       /\ awaited_loop \in Loops
                       /\ _dispatcher_task = awaited_loop
                       /\ loop[awaited_loop] \in {"due", "stopping", "returned", "early"}
<1>1. (\A l \in Loops : Loop(l)) /\ Awaits
  BY DEF LoopInv
<1>2. SUFFICES (\A l \in Loops : Loop(l)') /\ Awaits'
  BY DEF LoopInv
<1>3. CASE main \in {"up", "server"} /\ StopDispatcher
  BY <1>1, <1>3, StopDispatcherMoves, LoopRuns
<1>4. CASE DispatcherStopped
  <2>1. /\ main = "dispatcher" /\ loop[awaited_loop] \in {"returned", "early"} /\ loop' = loop
        /\ main' \in {"dispatches", "monitor"}
    BY <1>4 DEF DispatcherStopped, HasReturned, StopMonitor
  <2>2. QED
    BY <1>1, <2>1
<1>5. CASE DispatchesEnded
  <2>1. main = "dispatches" /\ main' = "monitor" /\ UNCHANGED <<loop, _dispatcher_task>>
    BY <1>5 DEF DispatchesEnded, StopMonitor, loop_vars
  <2>2. QED
    BY <1>1, <2>1
<1>6. ASSUME NEW l \in Loops, DispatcherReturns(l)
      PROVE  (\A k \in Loops : Loop(k)') /\ Awaits'
  <2>1. /\ loop[l] = "stopping" /\ loop' = [loop EXCEPT ![l] = "returned"]
        /\ UNCHANGED <<_dispatcher_task, main, awaited_loop>>
    BY <1>6 DEF DispatcherReturns, stop_vars, await_vars
  <2>2. loop'[l] = "returned" /\ \A k \in Loops : k # l => loop'[k] = loop[k]
    BY <2>1 DEF TypeOK
  <2>3. QED
    BY <1>1, <2>1, <2>2
<1>7. ASSUME NEW t \in Tasks, Call(t)
      PROVE  (\A k \in Loops : Loop(k)') /\ Awaits'
  <2>1. main = "up" /\ main' = "up" /\ ensure_dispatcher_running /\ awaited_loop' = awaited_loop
    BY <1>7, CallMoves
  <2>2. CASE UNCHANGED loop_vars
    BY <1>1, <2>1, <2>2 DEF loop_vars
  <2>3. CASE ~is_dispatcher_running /\ \E l \in Loops :
               /\ loop[l] = "none" /\ loop'[l] = "running" /\ _dispatcher_task' = l
               /\ \A k \in Loops : k # l => loop'[k] = loop[k]
    BY <1>1, <2>1, <2>3, LoopRuns
  <2>4. QED
    BY <2>1, <2>2, <2>3, EnsureMoves, SMT
<1>8. CASE UNCHANGED loop_vars
  <2>1. UNCHANGED <<loop, _dispatcher_task>>
    BY <1>8 DEF loop_vars
  <2>2. CASE UNCHANGED <<main, awaited_loop, awaited>>
    BY <1>1, <2>1, <2>2
  <2>3. QED
    BY <1>1, <1>3, <1>4, <1>5, <2>1, <2>2, MainMoves, SMT DEF await_vars
<1>9. ASSUME NEW l \in Loops, DispatcherLastTick(l)
      PROVE  (\A k \in Loops : Loop(k)') /\ Awaits'
  BY <1>1, <1>9, LastTickMoves
<1>10. QED
  BY <1>3, <1>4, <1>6, <1>7, <1>8, <1>9, LoopsAside, SMT DEF stop_master, ServerClosed

(* A loop that returned early stays so. *)
LEMMA EarlyStays ==
  ASSUME TypeOK, Next, NoneEarly'
  PROVE  NoneEarly
<1>1. SUFFICES ASSUME NEW k \in Loops, loop[k] = "early"
               PROVE  loop'[k] = "early"
  BY DEF NoneEarly
<1>2. CASE UNCHANGED loop_vars
  BY <1>1, <1>2 DEF loop_vars
<1>3. CASE stop_master \/ ServerClosed
  BY <1>1, <1>3, StopDispatcherMoves DEF stop_master, ServerClosed, is_dispatcher_running
<1>4. CASE DispatcherStopped
  BY <1>1, <1>4 DEF DispatcherStopped
<1>5. ASSUME NEW l \in Loops, DispatcherLastTick(l) \/ DispatcherReturns(l)
      PROVE  loop'[k] = "early"
  BY <1>1, <1>5 DEF DispatcherLastTick, DispatcherReturns, TypeOK
<1>6. ASSUME NEW t \in Tasks, Call(t) PROVE loop'[k] = "early"
  BY <1>1, <1>6, EnsureMoves DEF Call, loop_vars
<1>7. QED
  BY <1>2, <1>3, <1>4, <1>5, <1>6, LoopsAside

(* Dispatches end, or change hands, beside the loops. *)
LEMMA DispatchAside ==
  ASSUME NEW a \in Attempts, Dispatch(a)
  PROVE  UNCHANGED <<main, awaited, loop, _dispatcher_task, link, monitor_stop>>
BY DEF Dispatch, DispatchRaises, DispatchSends, DispatchHasNoLink, DispatchIsStale,
       DispatchIsLost, DispatchIsAnswered, WorkerUnreachable, stop_vars, await_vars, loop_vars,
       monitor_vars

LEMMA DispatchStep ==
  ASSUME LateCalls = FALSE, TypeOK, Core, LoopInv, DispatchInv, Next
  PROVE  DispatchInv'
<1> DEFINE Of(a) == /\ co[a].pc = "spawned" /\ NoneEarly => is_dispatcher_running
                    /\ \/ main \in {"up", "server"} /\ is_dispatcher_running
                       \/ main = "dispatcher"
                       \/ main = "dispatches" /\ a \in awaited
<1>1. \A a \in Attempts : Live(a) /\ co[a].by = "loop" => Of(a)
  BY DEF DispatchInv
<1>2. SUFFICES ASSUME NEW a \in Attempts, co'[a].pc \in {"spawned", "awaiting"}, co'[a].by = "loop"
               PROVE  Of(a)'
  BY DEF DispatchInv, Live
<1>3. ASSUME NEW G, NEW by, by # "loop", Assigning(G, by) PROVE co'[a] = co[a]
  BY <1>2, <1>3, AssigningHands, SMT DEF Core
<1>4. ASSUME NEW l \in Loops, DispatcherLastTick(l) PROVE Of(a)'
  <2>1. main' = "dispatcher" /\ _dispatcher_task' = l /\ loop'[l] \in {"stopping", "early"}
    BY <1>4, LastTickMoves
  <2>2. NoneEarly' => is_dispatcher_running'
    BY <2>1, LifecycleAssumption DEF NoneEarly, is_dispatcher_running, Loops
  <2>3. QED
    BY <2>1, <2>2
<1>5. CASE co'[a].pc = co[a].pc /\ co'[a].by = co[a].by
  <2>1. Live(a) /\ Of(a) /\ co[a].by = "loop"
    BY <1>1, <1>2, <1>5 DEF Live
  <2>2. CASE main \in {"up", "server"} /\ StopDispatcher
    <3>1. is_dispatcher_running
      BY <2>1, <2>2
    <3>2. main' = "dispatcher" /\ _dispatcher_task' = _dispatcher_task
          /\ loop'[_dispatcher_task] \in {"due", "stopping"}
      BY <2>2, <3>1, StopDispatcherMoves
    <3>3. is_dispatcher_running'
      BY <3>1, <3>2 DEF is_dispatcher_running
    <3>4. QED
      BY <3>2, <3>3
  <2>3. CASE DispatcherStopped
    <3>1. /\ main = "dispatcher" /\ loop[awaited_loop] \in {"returned", "early"}
          /\ a \in Gathered
      BY <2>1, <2>3 DEF DispatcherStopped, HasReturned, Gathered, _dispatch_tasks
    <3>2. ~is_dispatcher_running
      BY <3>1 DEF LoopInv, is_dispatcher_running
    <3>3. main' = "dispatches" /\ a \in awaited'
      BY <2>3, <3>1 DEF DispatcherStopped
    <3>4. QED
      BY <1>5, <2>1, <3>2, <3>3, EarlyStays
  <2>4. CASE DispatchesEnded
    BY <2>1, <2>4 DEF DispatchesEnded
  <2>5. ASSUME NEW l \in Loops, DispatcherReturns(l) PROVE Of(a)'
    <3>1. loop[l] = "stopping" /\ main' = main /\ co[a].pc # "spawned"
      BY <2>1, <2>5 DEF DispatcherReturns, _dispatch_tasks, stop_vars
    <3>2. QED
      BY <1>5, <3>1 DEF LoopInv
  <2>6. ASSUME NEW t \in Tasks, Call(t) PROVE Of(a)'
    <3>1. main = "up" /\ UNCHANGED <<main, awaited>> /\ ensure_dispatcher_running
      BY <2>6, CallMoves
    <3>2. UNCHANGED loop_vars
      BY <2>1, <3>1, EnsureMoves
    <3>3. QED
      BY <1>5, <2>1, <3>1, <3>2, EarlyStays DEF loop_vars, is_dispatcher_running
  <2>7. CASE UNCHANGED loop_vars
    <3>1. is_dispatcher_running' = is_dispatcher_running /\ NoneEarly' = NoneEarly
      BY <2>7 DEF loop_vars, is_dispatcher_running, NoneEarly
    <3>2. QED
      BY <1>5, <2>1, <2>2, <2>3, <2>4, <3>1, MainMoves, SMT DEF await_vars
  <2>8. QED
    BY <1>4, <2>2, <2>3, <2>5, <2>6, <2>7, LoopsAside DEF stop_master, ServerClosed
<1>6. ASSUME NEW l \in Loops, DispatcherTicks(l)
      PROVE  Of(a)'
  <2>1. loop[l] = "running" /\ UNCHANGED <<main, awaited, loop, _dispatcher_task>>
    BY <1>6 DEF DispatcherTicks, stop_vars, await_vars, loop_vars
  <2>2. is_dispatcher_running /\ main \in {"up", "server"}
    BY <2>1, LoopRuns DEF LoopInv
  <2>3. QED
    BY <2>1, <2>2 DEF is_dispatcher_running
<1>7. ASSUME NEW b \in Attempts, Dispatch(b) PROVE Of(a)'
  <2>1. UNCHANGED <<main, awaited, loop, _dispatcher_task>>
    BY <1>7, DispatchAside
  <2>2. Live(a) /\ co[a].by = "loop" /\ (co'[a].pc = "spawned" => co[a].pc = "spawned")
    BY <1>2, <1>7, DispatchHands DEF HandsKept, Core
  <2>3. QED
    BY <1>1, <2>1, <2>2 DEF is_dispatcher_running, NoneEarly
<1>8. QED
  BY <1>3, <1>4, <1>5, <1>6, <1>7, HandsNext DEF Ticking

LEMMA MonitorStep ==
  ASSUME TypeOK, Core, MonitorInv, Next
  PROVE  MonitorInv'
<1> DEFINE Lives == monitor \in {"idle", "due", "ticked", "draining"}
           Held == main \in {"up", "server", "dispatcher", "dispatches", "monitor"}
<1>1. Lives => Held
  BY DEF MonitorInv
<1>2. \A a \in Attempts : Live(a) /\ co[a].by = "monitor" => monitor = "draining"
  BY DEF MonitorInv
<1>3. Lives' => Held'
  <2>1. CASE Monitor
    <3>1. Lives /\ main' = main
      BY <2>1 DEF Monitor, MonitorTicks, MonitorAssigns, MonitorDrained, MonitorReturns, stop_vars
    <3>2. QED
      BY <1>1, <3>1
  <2>2. CASE ServerStarted
    BY <2>2 DEF ServerStarted
  <2>3. CASE Lives' => Lives
    <3>1. CASE main \in {"up", "server"} /\ StopDispatcher
      BY <3>1, StopDispatcherMoves
    <3>2. CASE DispatcherStopped \/ DispatchesEnded
      BY <3>2 DEF DispatcherStopped, DispatchesEnded, StopMonitor
    <3>3. QED
      BY <1>1, <2>3, <3>1, <3>2, MainMoves, SMT
  <2>4. ASSUME NEW a \in Attempts, DispatchRaises(a) PROVE Lives' => Lives
    BY <2>4 DEF DispatchRaises
  <2>5. ASSUME Told \/ UNCHANGED monitor_vars PROVE Lives' => Lives
    BY <2>5 DEF Told, monitor_vars
  <2>6. QED
    BY <2>1, <2>2, <2>3, <2>4, <2>5, MonitorAside
<1>4. ASSUME NEW a \in Attempts, co'[a].pc \in {"spawned", "awaiting"}, co'[a].by = "monitor"
      PROVE  monitor' = "draining"
  <2>1. ASSUME NEW G, NEW by, by # "monitor", Assigning(G, by) PROVE co'[a] = co[a]
    BY <1>4, <2>1, AssigningHands, SMT DEF Core
  <2>2. CASE co'[a] = co[a]
    <3>1. Live(a) /\ co[a].by = "monitor" /\ monitor = "draining"
      BY <1>2, <1>4, <2>2 DEF Live
    <3>2. ~MonitorDrained
      BY <3>1 DEF MonitorDrained, NothingToDrain, RoundIsOver
    <3>3. ~MonitorTicks /\ ~MonitorReturns
      BY <3>1 DEF MonitorTicks, MonitorReturns
    <3>4. ~ServerStarted
      BY <1>1, <3>1 DEF ServerStarted
    <3>5. ASSUME NEW b \in Attempts, DispatchRaises(b) PROVE monitor' = "draining"
      <4>1. co[b].by # "monitor"
        BY <1>4, <2>2, <3>1, <3>5, RaisesHands
      <4>2. QED
        BY <3>1, <3>5, <4>1 DEF DispatchRaises
    <3>6. ASSUME MonitorAssigns PROVE monitor' = "draining"
      BY <3>6 DEF MonitorAssigns
    <3>7. QED
      BY <3>1, <3>2, <3>3, <3>4, <3>5, <3>6, MonitorAside DEF Monitor, monitor_vars, Told
  <2>3. CASE MonitorAssigns
    BY <2>3 DEF MonitorAssigns
  <2>4. ASSUME NEW b \in Attempts, Dispatch(b) PROVE monitor' = "draining"
    <3>1. Live(a) /\ co[a].by = "monitor" /\ monitor = "draining"
      BY <1>2, <1>4, <2>4, DispatchHands, SMT DEF HandsKept, Core
    <3>2. CASE DispatchRaises(b)
      <4>1. co[b].by # "monitor"
        BY <1>4, <3>1, <3>2, RaisesHands, SMT
      <4>2. QED
        BY <3>1, <3>2, <4>1 DEF DispatchRaises
    <3>3. CASE ~DispatchRaises(b)
      BY <2>4, <3>1, <3>3, ZenonT(60)
         DEF Dispatch, DispatchSends, DispatchHasNoLink, DispatchIsStale,
           DispatchIsLost, DispatchIsAnswered, WorkerUnreachable, monitor_vars
    <3>4. QED
      BY <3>2, <3>3
  <2>5. QED
    BY <2>1, <2>2, <2>3, <2>4, HandsNext
<1>5. QED
  BY <1>3, <1>4 DEF MonitorInv, Live


(* Who is left when the master is down. *)
LEMMA DownLeaves ==
  ASSUME TaskInv, DispatchInv, MonitorInv, main \in {"down", "aborted"},
         NEW a \in Attempts, Live(a)
  PROVE  co[a].by \in {"job", "orphan"}
<1>1. TypeOK /\ SpawnInv
  BY DEF TaskInv
<1>2. co[a].by # "none"
  BY <1>1 DEF SpawnInv, Live
<1>3. co[a].by # "loop"
  BY DEF DispatchInv
<1>4. co[a].by # "monitor"
  BY DEF MonitorInv
<1>5. co[a].by \in {"none", "loop", "monitor", "job", "orphan"}
  BY <1>1, TaskTypes DEF Dispatches
<1>6. QED
  BY <1>2, <1>3, <1>4, <1>5, SMT

(* A dispatch of a job stays one, or is abandoned for good. *)
LEMMA OrphansStay ==
  ASSUME TypeOK, Core, Next, NEW a \in Attempts, co[a].by \in {"job", "orphan"}
  PROVE  co'[a].by \in {"job", "orphan"}
<1>1. ASSUME NEW G, NEW by, Assigning(G, by) PROVE co'[a] = co[a]
  BY <1>1, AssigningHands DEF Core
<1>2. ASSUME NEW b \in Attempts, Dispatch(b) PROVE co'[a].by \in {"job", "orphan"}
  BY <1>2, DispatchHands DEF HandsKept, Core
<1>3. QED
  BY <1>1, <1>2, HandsNext

(* Nobody connects to a master that is down, or calls it. *)
LEMMA DownQuiet ==
  ASSUME LateCalls = FALSE, TypeOK, DownInv, Next, main = "down", main' = "down"
  PROVE  /\ link' = link /\ waiting' \subseteq waiting
         /\ recorded' = recorded
            \/ \E a \in Attempts : Live(a) /\ recorded' = recorded \cup {a[1]}
<1>1. CASE Monitor
  BY <1>1 DEF Monitor, MonitorTicks, MonitorAssigns, MonitorDrained, MonitorReturns, call_vars,
              registry
<1>2. CASE Job
  BY <1>2 DEF Job, drain_tasks_for_continues, JobAssigns, JobWaits, JobEnds, JobSubmits, registry
<1>3. CASE Dispatcher
  BY <1>3 DEF Dispatcher, DispatcherTicks, DispatcherLastTick, DispatcherReturns, call_vars, registry
<1>4. ASSUME NEW a \in Attempts, Dispatch(a)
      PROVE  /\ link' = link /\ waiting' \subseteq waiting /\ Live(a)
             /\ recorded' = recorded \/ recorded' = recorded \cup {a[1]}
  <2>1. link' = link
    BY <1>4, DispatchAside
  <2>2. Live(a)
    BY <1>4 DEF Dispatch, DispatchRaises, DispatchSends, DispatchHasNoLink, DispatchIsStale,
                DispatchIsLost, DispatchIsAnswered, Live
  <2>3. /\ waiting' = waiting \/ waiting' = waiting \ {a[1]}
        /\ recorded' = recorded \/ recorded' = recorded \cup {a[1]}
    BY <1>4 DEF Dispatch, DispatchRaises, DispatchSends, DispatchHasNoLink, DispatchIsStale,
                DispatchIsLost, DispatchIsAnswered, WorkerUnreachable, Records, registry
  <2>4. QED
    BY <2>1, <2>2, <2>3
<1>5. ASSUME NEW w \in Workers,
             WorkerConnects(w) \/ WorkerIsLost(w) \/ HandlerReturns(w) \/ HeartbeatsStop(w)
      PROVE UNCHANGED <<link, waiting, recorded>>
  <2>1. link[w] = "none"
    BY DEF DownInv
  <2>2. QED
    BY <1>5, <2>1 DEF WorkerConnects, WorkerIsLost, HandlerReturns, HeartbeatsStop, call_vars, registry
<1>6. ASSUME NEW t \in Tasks, Call(t) \/ CallTimesOut(t)
      PROVE  link' = link /\ waiting' \subseteq waiting /\ recorded' = recorded
  <2>1. ~Call(t)
    BY CallMoves
  <2>2. QED
    BY <1>6, <2>1 DEF CallTimesOut
<1>7. ~MainSteps
  BY DEF MainSteps, start_master, ServerStarted, stop_master, WaitsForServer, stop_master_continues,
         ServerClosed, DispatcherStopped, DispatchesEnded, MonitorStopped, MonitorHadRaised,
         LinkCloses, LinkCloseRaises, LinksClosed, Stopped
<1>8. QED
  BY <1>1, <1>2, <1>3, <1>4, <1>5, <1>6, <1>7, SMT DEF Next, Others, MainSteps

(* stop_master returns in one place. *)
LEMMA DownEnters ==
  ASSUME Next, main # "down", main' = "down"
  PROVE  Stopped
<1>1. MainSteps
  BY MainAlone
<1>2. ~start_master /\ ~ServerStarted /\ ~WaitsForServer
  BY DEF start_master, ServerStarted, WaitsForServer
<1>3. ~stop_master /\ ~ServerClosed /\ ~DispatcherStopped /\ ~DispatchesEnded
  BY DEF stop_master, ServerClosed, StopDispatcher, DispatcherStopped, DispatchesEnded, StopMonitor
<1>4. ~MonitorStopped /\ ~MonitorHadRaised /\ ~LinksClosed
  BY DEF MonitorStopped, MonitorHadRaised, LinksClosed
<1>5. \A w \in Workers : ~LinkCloses(w) /\ ~LinkCloseRaises(w)
  BY DEF LinkCloses, LinkCloseRaises
<1>6. QED
  BY <1>1, <1>2, <1>3, <1>4, <1>5 DEF MainSteps, stop_master_continues

LEMMA DownStep ==
  ASSUME LateCalls = FALSE, TaskInv, DispatchInv, MonitorInv, DownInv, Next
  PROVE  DownInv'
<1>1. TypeOK /\ Core /\ JobInv
  BY DEF TaskInv, Core
<1>2. SUFFICES ASSUME main' = "down"
               PROVE  /\ \A w \in Workers : link'[w] = "none"
                      /\ waiting' = {}
                      /\ \A t \in recorded' :
                           \E a \in Attempts : a[1] = t /\ co'[a].by \in {"job", "orphan"}
  BY DEF DownInv
<1>3. CASE main = "down"
  <2>1. /\ \A w \in Workers : link[w] = "none"
        /\ waiting = {}
        /\ \A t \in recorded :
             \E a \in Attempts : a[1] = t /\ co[a].by \in {"job", "orphan"}
    BY <1>3 DEF DownInv
  <2>2. /\ link' = link /\ waiting' \subseteq waiting
        /\ recorded' = recorded
           \/ \E a \in Attempts : Live(a) /\ recorded' = recorded \cup {a[1]}
    BY <1>1, <1>2, <1>3, DownQuiet
  <2>3. \A t \in recorded' :
          \E a \in Attempts : a[1] = t /\ co[a].by \in {"job", "orphan"}
    <3>1. \A a \in Attempts : Live(a) => co[a].by \in {"job", "orphan"}
      BY <1>3, DownLeaves
    <3>2. SUFFICES ASSUME NEW t \in recorded', t \notin recorded
                   PROVE  \E a \in Attempts : a[1] = t /\ co[a].by \in {"job", "orphan"}
      BY <2>1
    <3>3. PICK a \in Attempts : Live(a) /\ t = a[1]
      BY <2>2, <3>2
    <3>4. QED
      BY <3>1, <3>3
  <2>4. \A a \in Attempts : co[a].by \in {"job", "orphan"} => co'[a].by \in {"job", "orphan"}
    BY <1>1, OrphansStay
  <2>5. QED
    BY <2>1, <2>2, <2>3, <2>4
<1>4. CASE main # "down"
  <2>1. Stopped
    BY <1>2, <1>4, DownEnters
  <2>2. QED
    BY <2>1 DEF Stopped, clear_dispatch_registry
<1>5. QED
  BY <1>3, <1>4


(* A dispatch changes the status of its own task only: no other task is in *)
(* flight on its worker.                                                   *)
LEMMA DispatchOwn ==
  ASSUME TypeOK, Core, NEW a \in Attempts, Dispatch(a), NEW t \in Tasks, t # a[1]
  PROVE  status'[t] = status[t] /\ attempt'[t] = attempt[t]
<1>1. a[1] \in Tasks
  BY AttemptPair
<1>2. CASE DispatchRaises(a) \/ DispatchIsStale(a)
  BY <1>2, ZenonT(60) DEF DispatchRaises, DispatchIsStale, table_vars, task_vars
<1>3. CASE DispatchSends(a)
  BY <1>3 DEF DispatchSends, start_task, TypeOK, SchedulerTypeOK
<1>4. ASSUME status[a[1]] \in InFlight, FailAndRequeue({assigned_worker_id[a[1]]})
      PROVE  status'[t] = status[t] /\ attempt'[t] = attempt[t]
  <2>1. ~InFlightOn(t, {assigned_worker_id[a[1]]})
    BY <1>1, <1>4 DEF Core, WorkerInv, InFlightOn
  <2>2. QED
    BY <1>4, <2>1 DEF FailAndRequeue, requeue_tasks_for_workers
<1>5. CASE DispatchHasNoLink(a)
  BY <1>4, <1>5 DEF DispatchHasNoLink, WorkerUnreachable, InFlight
<1>6. CASE DispatchIsLost(a)
  <2>1. status[a[1]] = "RUNNING" /\ assigned_worker_id[a[1]] = co[a].worker
    BY <1>6, CurrentRuns, SMT DEF DispatchIsLost, Core
  <2>2. QED
    BY <1>4, <1>6, <2>1 DEF DispatchIsLost, WorkerUnreachable, InFlight
<1>7. CASE DispatchIsAnswered(a)
  BY <1>7, ZenonT(60) DEF DispatchIsAnswered, complete_task, fail_task, TypeOK, SchedulerTypeOK
<1>8. QED
  BY <1>2, <1>3, <1>5, <1>6, <1>7, SMT DEF Dispatch

(* While every new dispatch finds its own attempt, the step of another one *)
(* leaves it that way.                                                     *)
LEMMA DispatchSpares ==
  ASSUME TypeOK, Core, NEW b \in Attempts, Dispatch(b),
         \A a \in Attempts : co[a].pc = "spawned" =>
           status[a[1]] = "ASSIGNED" /\ a[2] = attempt[a[1]],
         NEW a \in Attempts, co'[a].pc = "spawned"
  PROVE  status'[a[1]] = "ASSIGNED" /\ a[2] = attempt'[a[1]]
<1>1. co[a].pc = "spawned" /\ status[a[1]] = "ASSIGNED" /\ a[2] = attempt[a[1]]
  BY DispatchHands DEF HandsKept, Core
<1>2. CASE a[1] # b[1]
  BY <1>1, <1>2, AttemptPair, DispatchOwn, SMT
<1>3. CASE a[1] = b[1] /\ co[b].pc = "spawned"
  <2>1. a = b
    BY <1>1, <1>3, SameAttempt, SMT
  <2>2. CASE DispatchRaises(b)
    BY <1>1, <2>1, <2>2 DEF DispatchRaises
  <2>3. CASE DispatchSends(b)
    <3>1. co'[a].pc = "awaiting"
      BY <2>1, <2>3, TaskTypes, SMT DEF DispatchSends, Dispatches
    <3>2. QED
      BY <3>1
  <2>4. CASE DispatchHasNoLink(b)
    <3>1. Live(b) /\ Ends(b)
      BY <2>4 DEF DispatchHasNoLink, WorkerUnreachable, Live
    <3>2. co'[a].pc = "done"
      BY <2>1, <3>1, EndsSettles DEF Core
    <3>3. QED
      BY <3>2
  <2>5. QED
    BY <1>3, <2>2, <2>3, <2>4, ZenonT(60)
       DEF Dispatch, DispatchIsStale, DispatchIsLost, DispatchIsAnswered
<1>4. CASE a[1] = b[1] /\ co[b].pc = "awaiting"
  <2>1. ~is_current_attempt(b)
    BY <1>1, <1>4, CurrentRuns, SMT DEF Core
  <2>2. DispatchIsStale(b)
    BY <1>4, <2>1 DEF Dispatch, DispatchRaises, DispatchSends, DispatchHasNoLink, DispatchIsLost,
                      DispatchIsAnswered
  <2>3. UNCHANGED <<status, attempt>>
    BY <2>2 DEF DispatchIsStale, table_vars, task_vars
  <2>4. QED
    BY <1>1, <2>3
<1>5. co[b].pc \in {"spawned", "awaiting"}
  BY DEF Dispatch, DispatchRaises, DispatchSends, DispatchHasNoLink, DispatchIsStale,
         DispatchIsLost, DispatchIsAnswered
<1>6. QED
  BY <1>2, <1>3, <1>4, <1>5, SMT

(* A task that is handed out is none whose dispatch is yet to start. *)
LEMMA AssigningSpares ==
  ASSUME TypeOK, Core, NEW G, NEW by, Assigning(G, by),
         \A a \in Attempts : co[a].pc = "spawned" =>
           status[a[1]] = "ASSIGNED" /\ a[2] = attempt[a[1]],
         NEW a \in Attempts, co'[a].pc = "spawned"
  PROVE  status'[a[1]] = "ASSIGNED" /\ a[2] = attempt'[a[1]]
<1>1. a[1] \in Tasks
  BY AttemptPair
<1>2. CASE co'[a] = co[a]
  <2>1. status[a[1]] = "ASSIGNED" /\ a[2] = attempt[a[1]]
    BY <1>2
  <2>2. a[1] \notin G
    BY <2>1 DEF Assigning
  <2>3. QED
    BY <1>1, <2>1, <2>2 DEF Assigning
<1>3. CASE a[1] \in G /\ a[2] = attempt'[a[1]]
  BY <1>1, <1>3 DEF Assigning
<1>4. QED
  BY <1>2, <1>3, AssigningHands, SMT DEF Core

LEMMA RecoveryStep ==
  ASSUME TaskInv, DispatchInv, MonitorInv, RecoveryInv, Next
  PROVE  RecoveryInv'
<1> DEFINE Own(a) == co[a].pc = "spawned" => status[a[1]] = "ASSIGNED" /\ a[2] = attempt[a[1]]
<1>1. TypeOK /\ Core /\ JobInv
  BY DEF TaskInv, Core
<1>2. SUFFICES ASSUME task_ids' = {}, NoneEarly'
               PROVE  /\ \A a \in Attempts : co'[a].by \notin {"job", "orphan"}
                      /\ monitor' \in {"ticked", "draining"} => \A a \in Attempts : Own(a)'
  BY DEF RecoveryInv
<1>3. ASSUME NEW t \in Tasks, JobSubmits(t) PROVE FALSE
  BY <1>2, <1>3 DEF JobSubmits
<1>4. task_ids = {}
  <2>1. CASE Job
    BY <1>2, <1>3, <2>1 DEF Job, drain_tasks_for_continues, JobAssigns, JobWaits, JobEnds
  <2>2. ASSUME NEW a \in Attempts, Dispatch(a) PROVE task_ids' = task_ids
    BY <2>2, DispatchJob
  <2>3. QED
    BY <1>1, <1>2, <2>1, <2>2, JobAlone, SMT
<1>5. ~Job
  <2>1. job = "none"
    BY <1>1, <1>4 DEF JobInv
  <2>2. QED
    BY <1>3, <2>1 DEF Job, drain_tasks_for_continues, JobAssigns, JobWaits, JobEnds
<1>6. /\ \A a \in Attempts : co[a].by \notin {"job", "orphan"}
      /\ monitor \in {"ticked", "draining"} => \A a \in Attempts : Own(a)
  <2>1. NoneEarly
    BY <1>1, <1>2, EarlyStays
  <2>2. QED
    BY <1>4, <2>1 DEF RecoveryInv
<1>7. ASSUME NEW a \in Attempts, DispatchRaises(a) PROVE co[a].by # "monitor"
  <2>1. co[a].pc = "spawned" /\ status[a[1]] # "ASSIGNED"
    BY <1>7 DEF DispatchRaises
  <2>2. QED
    BY <1>6, <2>1 DEF MonitorInv, Live
<1>8. ASSUME NEW a \in Attempts PROVE co'[a].by \notin {"job", "orphan"}
  <2>1. ASSUME NEW G, NEW by, by \in {"monitor", "loop"}, Assigning(G, by)
        PROVE  co'[a].by \notin {"job", "orphan"}
    BY <1>1, <1>6, <2>1, AssigningHands, SMT DEF Core
  <2>2. ASSUME NEW b \in Attempts, Dispatch(b) PROVE co'[a].by = co[a].by
    <3>1. CASE DispatchRaises(b)
      BY <1>1, <1>6, <1>7, <3>1, RaisesHands
    <3>2. QED
      BY <1>1, <2>2, <3>1, DispatchHands DEF Core
  <2>3. ~JobAssigns
    BY <1>5 DEF Job, drain_tasks_for_continues
  <2>4. QED
    BY <1>1, <1>6, <2>1, <2>2, <2>3, HandsNext, ZenonT(60)
<1>9. ASSUME monitor' \in {"ticked", "draining"}, NEW a \in Attempts, co'[a].pc = "spawned"
      PROVE  status'[a[1]] = "ASSIGNED" /\ a[2] = attempt'[a[1]]
  <2>1. CASE MonitorTicks
    <3>1. co' = co /\ monitor \in {"idle", "due"} /\ ~is_dispatcher_running /\ NoneEarly
      BY <1>1, <1>2, <1>9, <2>1, EarlyStays DEF MonitorTicks, FallsBack, call_vars
    <3>2. Live(a) /\ co[a].pc = "spawned" /\ co[a].by # "none"
      BY <1>1, <1>9, <3>1 DEF Live, Core, SpawnInv
    <3>3. co[a].by # "loop" /\ co[a].by # "monitor"
      BY <3>1, <3>2 DEF DispatchInv, MonitorInv
    <3>4. co[a].by \in {"none", "loop", "monitor", "job", "orphan"}
      BY <1>1, TaskTypes DEF Dispatches
    <3>5. QED
      BY <1>6, <3>2, <3>3, <3>4
  <2>2. CASE ~MonitorTicks
    <3>1. monitor \in {"ticked", "draining"}
      <4>1. CASE Monitor
        BY <1>9, <2>2, <4>1, SMT DEF Monitor, MonitorAssigns, MonitorDrained, MonitorReturns
      <4>2. ASSUME NEW b \in Attempts, DispatchRaises(b) PROVE monitor' = monitor \/ monitor' = "raised"
        BY <4>2 DEF DispatchRaises
      <4>3. ~ServerStarted
        BY <1>9 DEF ServerStarted
      <4>4. QED
        BY <1>9, <4>1, <4>2, <4>3, MonitorAside, ZenonT(60) DEF monitor_vars, Told
    <3>2. \A b \in Attempts : co[b].pc = "spawned" =>
            status[b[1]] = "ASSIGNED" /\ b[2] = attempt[b[1]]
      BY <1>6, <3>1
    <3>3. ASSUME NEW G, NEW by, Assigning(G, by)
          PROVE  status'[a[1]] = "ASSIGNED" /\ a[2] = attempt'[a[1]]
      BY <1>1, <1>9, <3>2, <3>3, AssigningSpares, SMT
    <3>4. ASSUME NEW b \in Attempts, Dispatch(b)
          PROVE  status'[a[1]] = "ASSIGNED" /\ a[2] = attempt'[a[1]]
      BY <1>1, <1>9, <3>2, <3>4, DispatchSpares, SMT
    <3>5. ASSUME co' = co, UNCHANGED task_vars
          PROVE  status'[a[1]] = "ASSIGNED" /\ a[2] = attempt'[a[1]]
      BY <1>9, <3>2, <3>5, SMT DEF task_vars
    <3>6. ASSUME co' = co, NEW t \in Tasks, submit_task(t)
          PROVE  status'[a[1]] = "ASSIGNED" /\ a[2] = attempt'[a[1]]
      <4>1. status[a[1]] = "ASSIGNED" /\ a[2] = attempt[a[1]] /\ a[1] \in Tasks
        BY <1>9, <3>2, <3>6, AttemptPair, SMT
      <4>2. QED
        BY <1>1, <3>6, <4>1, SMT DEF submit_task, TypeOK, SchedulerTypeOK
    <3>7. CASE co' = co
      <4>1. ASSUME JobAssigns \/ MonitorAssigns \/
                   \E l \in Loops : Ticking(l)
            PROVE  \E G, by : Assigning(G, by)
        BY <1>1, <4>1, EachAssigns
      <4>2. QED
        BY <2>2, <3>3, <3>4, <3>5, <3>6, <3>7, <4>1, TablesAside, SMT
    <3>8. QED
      BY <1>1, <3>3, <3>4, <3>7, HandsNext, ZenonT(60)
  <2>3. QED
    BY <2>1, <2>2
<1>10. QED
  BY <1>8, <1>9


LEMMA StopInit ==
  ASSUME Init
  PROVE  StopInv
<1>1. \A a \in Attempts : co[a].pc = "none" /\ co[a].by = "none"
  BY DEF Init, NotSpawned
<1>2. LoopInv
  BY DEF Init, LoopInv
<1>3. DispatchInv /\ MonitorInv
  BY <1>1 DEF Init, DispatchInv, MonitorInv, Live
<1>4. DownInv
  BY DEF Init, DownInv
<1>5. RecoveryInv
  BY <1>1 DEF Init, RecoveryInv
<1>6. QED
  BY <1>2, <1>3, <1>4, <1>5 DEF StopInv

LEMMA StopStep ==
  ASSUME LateCalls = FALSE, TaskInv, StopInv, Next
  PROVE  StopInv'
<1>1. TypeOK /\ Core
  BY DEF TaskInv, Core
<1>2. LoopInv /\ DispatchInv /\ MonitorInv /\ DownInv /\ RecoveryInv
  BY DEF StopInv
<1>3. LoopInv' /\ DispatchInv' /\ MonitorInv'
  BY <1>1, <1>2, LoopStep, DispatchStep, MonitorStep, ZenonT(60)
<1>4. DownInv' /\ RecoveryInv'
  BY <1>2, DownStep, RecoveryStep
<1>5. QED
  BY <1>3, <1>4 DEF StopInv

LEMMA StopStutter ==
  ASSUME StopInv, UNCHANGED vars
  PROVE  StopInv'
<1> USE DEF vars, task_vars
<1>1. LoopInv'
  BY DEF StopInv, LoopInv
<1>2. DispatchInv' /\ MonitorInv'
  BY DEF StopInv, DispatchInv, MonitorInv, is_dispatcher_running, NoneEarly, Live
<1>3. DownInv' /\ RecoveryInv'
  BY DEF StopInv, DownInv, RecoveryInv, NoneEarly
<1>4. QED
  BY <1>1, <1>2, <1>3, SMT DEF StopInv

(* The two invariants together, if nobody calls while the master stops. *)
LEMMA StopsInductive ==
  ASSUME LateCalls = FALSE
  PROVE  Spec => [](TaskInv /\ StopInv)
<1>1. Init => TaskInv /\ StopInv
  BY TaskInit, StopInit
<1>2. (TaskInv /\ StopInv) /\ [Next]_vars => (TaskInv /\ StopInv)'
  BY TaskStep, TaskStutter, StopStep, StopStutter
<1>3. QED
  BY <1>1, <1>2, PTL DEF Spec

(* Once stop_master has returned, or was cut short, the dispatcher, the    *)
(* monitor and their dispatches are over, and once it has returned there   *)
(* is no connection and no entry of the registry but a job's or an         *)
(* abandoned dispatch's, if nobody calls wait_for_tasks while it runs.     *)
THEOREM StopsCleanHolds ==
  ASSUME LateCalls = FALSE
  PROVE  Spec => []StopsClean
<1>1. ASSUME TaskInv, StopInv PROVE StopsClean
  <2>1. LoopInv /\ DispatchInv /\ MonitorInv /\ DownInv /\ TypeOK
    BY <1>1 DEF StopInv, TaskInv
  <2>2. ASSUME main \in {"down", "aborted"}
        PROVE  /\ \A l \in Loops : loop[l] = "none" \/ HasReturned(l)
               /\ monitor \in {"none", "returned", "raised"}
    BY <2>1, <2>2, SMT DEF LoopInv, MonitorInv, TypeOK, HasReturned
  <2>3. ASSUME main \in {"down", "aborted"}, NEW a \in Attempts, Live(a)
        PROVE  co[a].by \in {"job", "orphan"}
    BY <1>1, <2>1, <2>3, DownLeaves
  <2>4. QED
    BY <2>1, <2>2, <2>3 DEF StopsClean, DownInv
<1>2. QED
  BY <1>1, StopsInductive, PTL

(* The fallback drain of the failure monitor never dispatches a task that  *)
(* was requeued or started meanwhile, unless a job hands out tasks itself  *)
(* or a dispatcher returned ahead of the coroutines of its last tick, so   *)
(* start_task does not end the monitor with its ValueError.                *)
THEOREM RecoveryNeverRaisesHolds ==
  ASSUME LateCalls = FALSE
  PROVE  Spec => []RecoveryNeverRaises
<1>1. ASSUME StopInv PROVE RecoveryNeverRaises
  BY <1>1 DEF StopInv, RecoveryInv, MonitorInv, RecoveryNeverRaises, NoneEarly, Live
<1>2. QED
  BY <1>1, StopsInductive, PTL

(* A step that assigns a task after stop_master has awaited the monitor,   *)
(* and before the master is up again, is a round of the job.               *)
LEMMA AssignsInTime ==
  ASSUME TaskInv, StopInv, Next,
         main \notin {"up", "server", "dispatcher", "dispatches", "monitor"}
  PROVE  attempt' = attempt \/ JobAssigns
<1>1. TypeOK /\ Core /\ JobInv /\ LoopInv /\ MonitorInv
  BY DEF TaskInv, StopInv, Core
<1>2. ~MonitorAssigns
  BY <1>1 DEF MonitorAssigns, MonitorInv
<1>3. ~\E l \in Loops : Ticking(l)
  BY <1>1 DEF Ticking, DispatcherTicks, DispatcherLastTick, LoopInv
<1>4. ASSUME MonitorTicks PROVE attempt' = attempt
  BY <1>4 DEF MonitorTicks, FailAndRequeue, requeue_tasks_for_workers
<1>5. ASSUME NEW a \in Attempts, Dispatch(a) PROVE attempt' = attempt
  BY <1>5 DEF Dispatch, DispatchRaises, DispatchSends, DispatchHasNoLink, DispatchIsStale,
              DispatchIsLost, DispatchIsAnswered, WorkerUnreachable, FailAndRequeue,
              requeue_tasks_for_workers, start_task, complete_task, fail_task, table_vars, task_vars
<1>6. ASSUME NEW t \in Tasks, submit_task(t) PROVE attempt' = attempt
  BY <1>6 DEF submit_task
<1>7. QED
  BY <1>2, <1>3, <1>4, <1>5, <1>6, TablesAside, SMT DEF task_vars

(* What a round of the job assigns is a task of the job, and so is the     *)
(* dispatch.                                                               *)
LEMMA JobAssignsOwn ==
  ASSUME TaskInv, JobAssigns, NEW t \in Tasks, attempt'[t] # attempt[t]
  PROVE  t \in task_ids /\ co'[<<t, attempt'[t]>>].by = "job"
<1>1. TypeOK /\ Core /\ StatusInv
  BY DEF TaskInv, Core
<1>2. DrainRound(task_ids, "job") /\ task_ids \in SUBSET Tasks
  BY <1>1 DEF JobAssigns, TypeOK
<1>3. PICK G \in SUBSET task_ids : Assigning(G, "job")
  BY <1>1, <1>2, RoundAssigns DEF Core
<1>4. t \in G /\ attempt'[t] = attempt[t] + 1 /\ status[t] = "PENDING"
  BY <1>3 DEF Assigning
<1>5. <<t, attempt'[t]>> \in Attempts
  BY <1>1, <1>4, SchedulerAssumption, TaskTypes, SMT DEF StatusInv, Attempts
<1>6. co'[<<t, attempt'[t]>>] = Spawned("job")
  <2> DEFINE a == <<t, attempt'[t]>>
  <2>1. a \in Attempts /\ a[1] = t /\ a[2] = attempt[t] + 1
    BY <1>4, <1>5
  <2> HIDE DEF a
  <2>2. co'[a] = Spawned("job")
    BY <1>3, <1>4, <2>1 DEF Assigning
  <2>3. QED
    BY <2>2 DEF a
<1>7. Spawned("job").by = "job"
  BY SMT DEF Spawned
<1>8. QED
  BY <1>3, <1>4, <1>6, <1>7

(* From the moment stop_master closes the connections until the master is  *)
(* up again no task is assigned but by a job that drives drain_tasks_for,  *)
(* if nobody calls wait_for_tasks while it stops.                          *)
THEOREM NoLateAssignmentHolds ==
  ASSUME LateCalls = FALSE
  PROVE  Spec => NoLateAssignment
<1>1. ASSUME TaskInv, StopInv, [Next]_vars
      PROVE  [main \notin {"up", "server", "dispatcher", "dispatches", "monitor"}
                => \A t \in Tasks : attempt'[t] # attempt[t]
                     => t \in task_ids /\ co'[<<t, attempt'[t]>>].by = "job"]_vars
  BY <1>1, AssignsInTime, JobAssignsOwn
<1>2. QED
  BY <1>1, StopsInductive, PTL DEF NoLateAssignment, Spec

=============================================================================
