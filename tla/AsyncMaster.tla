----------------------------- MODULE AsyncMaster -----------------------------
(***************************************************************************)
(* The asyncio master of master/async_server.py: the connection handlers,  *)
(* the dispatcher, one dispatch coroutine per assignment, the failure      *)
(* monitor and the response registry, over the tables of module Scheduler, *)
(* with the worker processes of worker/async_worker.py as environment.     *)
(*                                                                         *)
(* A step is what one coroutine does between two points where it really    *)
(* suspends.  A coroutine that is ready to run may be overtaken by every   *)
(* other ready coroutine.  Writing a small message does not suspend.       *)
(*                                                                         *)
(* A connection c carries one worker process from connect to disconnect.   *)
(* Messages of a process are handled in the step that reads them: PING     *)
(* changes nothing, a HEARTBEAT carries only the worker id, a SHUTDOWN may *)
(* be sent at any time, and a TASK_RESULT answers a TASK that is pending.  *)
(***************************************************************************)
EXTENDS Scheduler

CONSTANTS
  MaxConns,    (* bound: connections ever opened *)
  Unencodable, (* tasks whose payload json.dumps cannot encode *)
  Faults       (* what the environment may do *)

ASSUME AsyncMasterAssumption ==
  /\ MaxConns \in Nat
  /\ None \notin 1 .. MaxConns
  /\ Unencodable \subseteq Tasks
  /\ Faults \subseteq {"crash", "silence", "shutdown", "duplicate"}

Conns == 1 .. MaxConns

(* A dispatch coroutine is named by its task and the attempt number the    *)
(* assignment that spawned it produced.                                    *)
Dispatches == Tasks \X (1 .. MAX_TASK_ATTEMPTS)
TaskOf(d) == d[1]

VARIABLES
  connections,     (* worker id -> current link *)
  conn,            (* transport of the link, as its handler sees it *)
  peer,            (* worker id of the process at the other end *)
  process,         (* how far that process has got *)
  link_worker,     (* the handler's local worker_id *)
  link_generation, (* WorkerLink.generation *)
  dispatch,        (* the dispatch_assigned_task coroutines *)
  task_responses   (* the registry _task_responses *)

link_vars == <<connections, conn, peer, process, link_worker, link_generation>>
vars == <<task_vars, worker_vars, link_vars, dispatch, task_responses>>

(* unused: not yet opened.  open: healthy.  lost: the peer is gone and the *)
(* handler has not read EOF yet.  closing: the master called close() and   *)
(* the handler has not noticed yet.  closed: the handler has returned.     *)
ConnStates == {"unused", "open", "lost", "closing", "closed"}
ProcessStates == {"none", "registering", "serving", "draining"}

(* The life of a dispatch coroutine; reply is the state of the future it   *)
(* awaits in send_task.                                                    *)
Coroutine == [pc : {"none", "spawned", "awaiting", "closing", "done"},
              worker : Workers \cup {None},
              attempt : 0 .. MAX_TASK_ATTEMPTS,
              link : Conns \cup {None},
              reply : {"none", "success", "error", "lost"}]

Idle == [pc |-> "none", worker |-> None, attempt |-> 0,
         link |-> None, reply |-> "none"]
Done == [Idle EXCEPT !.pc = "done"]

Responses == [kind : {"success", "error", "unreachable"},
              attempt : 1 .. MAX_TASK_ATTEMPTS]

ASSUME ResponseAssumption == None \notin Responses

TypeOK ==
  /\ SchedulerTypeOK
  /\ connections \in [Workers -> Conns \cup {None}]
  /\ conn \in [Conns -> ConnStates]
  /\ peer \in [Conns -> Workers \cup {None}]
  /\ process \in [Conns -> ProcessStates]
  /\ link_worker \in [Conns -> Workers \cup {None}]
  /\ link_generation \in [Conns -> Nat]
  /\ dispatch \in [Dispatches -> Coroutine]
  /\ task_responses \in [Tasks -> Responses \cup {None}]

Init ==
  /\ SchedulerInit
  /\ connections = [w \in Workers |-> None]
  /\ conn = [c \in Conns |-> "unused"]
  /\ peer = [c \in Conns |-> None]
  /\ process = [c \in Conns |-> "none"]
  /\ link_worker = [c \in Conns |-> None]
  /\ link_generation = [c \in Conns |-> 0]
  /\ dispatch = [d \in Dispatches |-> Idle]
  /\ task_responses = [t \in Tasks |-> None]

-----------------------------------------------------------------------------
(* Worker processes and the network. *)

(* A worker process opens a connection and sends REGISTER.  Unless         *)
(* duplicates are allowed, no other process of that id is connected.       *)
Connect(c, w) ==
  /\ conn[c] = "unused"
  /\ \A b \in Conns : b < c => conn[b] # "unused"
  /\ "duplicate" \in Faults \/ \A b \in Conns : peer[b] = w => conn[b] # "open"
  /\ conn' = [conn EXCEPT ![c] = "open"]
  /\ peer' = [peer EXCEPT ![c] = w]
  /\ process' = [process EXCEPT ![c] = "registering"]
  /\ UNCHANGED <<task_vars, worker_vars, connections, link_worker,
                 link_generation, dispatch, task_responses>>

(* The process dies or the network drops the connection. *)
Crash(c) ==
  /\ "crash" \in Faults
  /\ conn[c] = "open"
  /\ conn' = [conn EXCEPT ![c] = "lost"]
  /\ UNCHANGED <<task_vars, worker_vars, connections, peer, process,
                 link_worker, link_generation, dispatch, task_responses>>

(* The process is silent for too long: hung, or busy in its event loop. *)
Silence(w) ==
  /\ "silence" \in Faults
  /\ HeartbeatExpires(w)
  /\ UNCHANGED <<task_vars, worker_order, worker_status, generation,
                 link_vars, dispatch, task_responses>>

-----------------------------------------------------------------------------
(* WorkerLink and handle_worker_connection. *)

Pending(c) ==
  {d \in Dispatches : dispatch[d].pc = "awaiting" /\ dispatch[d].link = c}

has_pending(c) == Pending(c) # {}

(* Mutant: nobody is told. *)
fail_pending_Never(c) == dispatch

(* The coroutines after WorkerLink.fail_pending. *)
fail_pending(c) ==
  [d \in Dispatches |-> IF d \in Pending(c) /\ dispatch[d].reply = "none"
                        THEN [dispatch[d] EXCEPT !.reply = "lost"]
                        ELSE dispatch[d]]

IsCurrentLink(c) == link_worker[c] # None /\ connections[link_worker[c]] = c

Superseded(c) == link_worker[c] # None /\ ~IsCurrentLink(c)

(* The handler of c takes another message from its reader. *)
Reads(c) ==
  /\ conn[c] \in {"open", "lost", "closing"}
  /\ ~Superseded(c)

(* AsyncConnection.close on link c, if any. *)
Closed(c) ==
  IF c # None /\ conn[c] = "open" THEN [conn EXCEPT ![c] = "closing"] ELSE conn

(* The handler of c returns: its locals are gone. *)
Forget(c) ==
  /\ peer' = [peer EXCEPT ![c] = None]
  /\ process' = [process EXCEPT ![c] = "none"]
  /\ link_worker' = [link_worker EXCEPT ![c] = None]
  /\ link_generation' = [link_generation EXCEPT ![c] = 0]

(* The finally block of the handler of c, given the worker table it finds. *)
Cleanup(c, wstatus) ==
  LET w == link_worker[c]
  IN /\ connections' = IF IsCurrentLink(c)
                       THEN [connections EXCEPT ![w] = None] ELSE connections
     /\ worker_status' = IF /\ IsCurrentLink(c)
                            /\ wstatus[w] = "DRAINING"
                            /\ ~has_pending(c)
                         THEN [wstatus EXCEPT ![w] = "STOPPED"] ELSE wstatus
     /\ dispatch' = fail_pending(c)
     /\ conn' = [conn EXCEPT ![c] = "closed"]
     /\ Forget(c)

(* REGISTER, refused: the error is sent and the process, which does not    *)
(* look at it, goes on to heartbeat and wait for tasks.                    *)
RegisterRejected(c) ==
  /\ Reads(c)
  /\ process[c] = "registering"
  /\ ~CanRegister(peer[c])
  /\ process' = [process EXCEPT ![c] = "serving"]
  /\ UNCHANGED <<task_vars, worker_vars, connections, conn, peer, link_worker,
                 link_generation, dispatch, task_responses>>

(* Mutant: an entry that exists is kept, as by setdefault. *)
Installed_Default(w, c) ==
  [connections EXCEPT ![w] = IF @ = None THEN c ELSE @]

(* The connections once c speaks for w. *)
Installed(w, c) == [connections EXCEPT ![w] = c]

(* REGISTER, accepted: the link becomes the current one and the previous   *)
(* link is closed.  If that link had already been lost, wait_closed may    *)
(* raise and end this handler too.                                         *)
RegisterAccepted(c) ==
  LET w == peer[c]
      previous == connections[w]
  IN /\ Reads(c)
     /\ process[c] = "registering"
     /\ register_worker(w)
     /\ process' = [process EXCEPT ![c] = "serving"]
     /\ link_worker' = [link_worker EXCEPT ![c] = w]
     /\ link_generation' = [link_generation EXCEPT ![c] = generation'[w]]
     /\ connections' = Installed(w, c)
     /\ \/ conn' = Closed(previous)
        \/ /\ previous # None
           /\ conn[previous] = "lost"
           /\ conn' = Closed(c)
     /\ UNCHANGED <<task_vars, peer, dispatch, task_responses>>

(* REGISTER, accepted by the table, but the reply cannot be written: the   *)
(* handler ends before it installs the link.                               *)
RegisterReplyLost(c) ==
  /\ Reads(c)
  /\ process[c] = "registering"
  /\ conn[c] = "lost"
  /\ register_worker(peer[c])
  /\ conn' = [conn EXCEPT ![c] = "closed"]
  /\ Forget(c)
  /\ UNCHANGED <<task_vars, connections, dispatch, task_responses>>

Heartbeat(c) ==
  /\ Reads(c)
  /\ process[c] \in {"serving", "draining"}
  /\ record_heartbeat(peer[c])
  /\ UNCHANGED <<task_vars, worker_order, worker_status, generation,
                 link_vars, dispatch, task_responses>>

(* The worker table after handle_shutdown. *)
handle_shutdown(w) ==
  IF worker_status[w] \in {"IDLE", "BUSY"}
  THEN [worker_status EXCEPT ![w] = "DRAINING"]
  ELSE worker_status

(* SHUTDOWN with nothing pending on a registered link: the handler returns *)
(* and its finally block runs in the same step.                            *)
ShutdownCloses(c) ==
  /\ "shutdown" \in Faults
  /\ Reads(c)
  /\ process[c] = "serving"
  /\ link_worker[c] # None
  /\ ~has_pending(c)
  /\ Cleanup(c, handle_shutdown(peer[c]))
  /\ UNCHANGED <<task_vars, worker_order, generation, stale, task_responses>>

(* SHUTDOWN with a dispatch pending, or on a link that was never accepted: *)
(* the connection stays open.                                              *)
ShutdownWaits(c) ==
  /\ "shutdown" \in Faults
  /\ Reads(c)
  /\ process[c] = "serving"
  /\ link_worker[c] = None \/ has_pending(c)
  /\ process' = [process EXCEPT ![c] = "draining"]
  /\ worker_status' = handle_shutdown(peer[c])
  /\ UNCHANGED <<task_vars, worker_order, generation, stale, connections, conn,
                 peer, link_worker, link_generation, dispatch, task_responses>>

(* A TASK_RESULT: its request id names the pending dispatch it resolves. *)
TaskResult(c, d, outcome) ==
  /\ Reads(c)
  /\ d \in Pending(c)
  /\ dispatch[d].reply = "none"
  /\ dispatch' = [dispatch EXCEPT ![d].reply = outcome]
  /\ UNCHANGED <<task_vars, worker_vars, link_vars, task_responses>>

(* The handler meets EOF, or a message that finds the link superseded. *)
HandlerExit(c) ==
  /\ conn[c] \in {"lost", "closing"}
  /\ Cleanup(c, worker_status)
  /\ UNCHANGED <<task_vars, worker_order, generation, stale, task_responses>>

-----------------------------------------------------------------------------
(* dispatcher_loop, dispatch_assigned_task and the failure monitor. *)

submit(t) ==
  /\ submit_task(t)
  /\ UNCHANGED <<worker_vars, link_vars, dispatch, task_responses>>

(* One assignment of a dispatcher tick, and the coroutine it spawns. *)
DispatcherAssigns(t, w) ==
  /\ assign_next_pending_task(t, w)
  /\ dispatch' = [dispatch EXCEPT ![<<t, attempt'[t]>>] =
                    [Idle EXCEPT !.pc = "spawned"]]
  /\ UNCHANGED <<link_vars, task_responses>>

record_task_response(t, kind, a) ==
  task_responses' = [task_responses EXCEPT ![t] = [kind |-> kind, attempt |-> a]]

(* Mutant: an attempt that will be retried is recorded. *)
record_if_terminal_Always(t, kind, a) == record_task_response(t, kind, a)

(* Mutant: was_current is read after the requeue, and is never true. *)
record_if_terminal_Never(t, kind, a) == UNCHANGED task_responses

record_if_terminal(t, kind, a) ==
  IF status'[t] \in Terminal THEN record_task_response(t, kind, a)
  ELSE UNCHANGED task_responses

(* mark_worker_failed_and_requeue and record_if_terminal for an attempt    *)
(* that is current: the coroutine returns WORKER_UNREACHABLE.              *)
WorkerUnreachable(d, w, a) ==
  /\ FailAndRequeue({w})
  /\ record_if_terminal(TaskOf(d), "unreachable", a)
  /\ dispatch' = [dispatch EXCEPT ![d] = Done]
  /\ UNCHANGED link_vars

(* The coroutine starts after its task was requeued or started by another  *)
(* coroutine: start_task raises ValueError.                                *)
DispatchRaises(d) ==
  /\ dispatch[d].pc = "spawned"
  /\ status[TaskOf(d)] # "ASSIGNED"
  /\ dispatch' = [dispatch EXCEPT ![d] = Done]
  /\ UNCHANGED <<task_vars, worker_vars, link_vars, task_responses>>

(* The coroutine starts, and there is no link, or the TASK cannot be       *)
(* encoded (ProtocolError): both are taken for a dead worker.              *)
DispatchUnsendable(d) ==
  LET t == TaskOf(d)
      w == assigned_worker_id[t]
  IN /\ dispatch[d].pc = "spawned"
     /\ status[t] = "ASSIGNED"
     /\ connections[w] = None \/ t \in Unencodable
     /\ WorkerUnreachable(d, w, attempt[t])

(* The coroutine starts and sends the TASK on the current link.  If that   *)
(* link is no longer open, drain raises or fail_pending will.              *)
DispatchSends(d) ==
  LET t == TaskOf(d)
      w == assigned_worker_id[t]
  IN /\ dispatch[d].pc = "spawned"
     /\ start_task(t)
     /\ connections[w] # None
     /\ t \notin Unencodable
     /\ dispatch' = [dispatch EXCEPT ![d] =
                       [pc |-> "awaiting", worker |-> w, attempt |-> attempt[t],
                        link |-> connections[w],
                        reply |-> IF conn[connections[w]] = "open"
                                  THEN "none" ELSE "lost"]]
     /\ UNCHANGED <<worker_vars, link_vars, task_responses>>

(* Mutant: the attempt number is not compared. *)
is_current_attempt_WorkerOnly(d) ==
  assigned_worker_id[TaskOf(d)] = dispatch[d].worker

is_current_attempt(d) ==
  /\ assigned_worker_id[TaskOf(d)] = dispatch[d].worker
  /\ attempt[TaskOf(d)] = dispatch[d].attempt

Resumes(d) == dispatch[d].pc = "awaiting" /\ dispatch[d].reply # "none"

(* The reply, or the loss, of an attempt that is no longer current. *)
DispatchStale(d) ==
  /\ Resumes(d)
  /\ ~is_current_attempt(d)
  /\ dispatch' = [dispatch EXCEPT ![d] = Done]
  /\ UNCHANGED <<task_vars, worker_vars, link_vars, task_responses>>

DispatchLost(d) ==
  /\ Resumes(d)
  /\ is_current_attempt(d)
  /\ dispatch[d].reply = "lost"
  /\ WorkerUnreachable(d, dispatch[d].worker, dispatch[d].attempt)

(* The scheduler's part of a current TASK_RESULT. *)
TaskFinishes(d) ==
  /\ Resumes(d)
  /\ is_current_attempt(d)
  /\ \/ dispatch[d].reply = "success" /\ complete_task(TaskOf(d))
     \/ dispatch[d].reply = "error" /\ fail_task(TaskOf(d))

(* Mutant: nothing closes the connection. *)
DrainingLink_Never(w) == None

(* The link that _close_connection_if_draining closes, if any. *)
DrainingLink(w) ==
  IF worker_status[w] = "DRAINING" THEN connections[w] ELSE None

DispatchFinishes(d) ==
  /\ TaskFinishes(d)
  /\ DrainingLink(dispatch[d].worker) = None
  /\ record_if_terminal(TaskOf(d), dispatch[d].reply, dispatch[d].attempt)
  /\ dispatch' = [dispatch EXCEPT ![d] = Done]
  /\ UNCHANGED link_vars

(* The last task of a DRAINING worker: the coroutine closes the connection *)
(* and suspends before it records the response.                            *)
DispatchClosesLink(d) ==
  LET c == DrainingLink(dispatch[d].worker)
  IN /\ TaskFinishes(d)
     /\ c # None
     /\ conn' = Closed(c)
     /\ dispatch' = [dispatch EXCEPT ![d].pc = "closing"]
     /\ UNCHANGED <<connections, peer, process, link_worker, link_generation,
                    task_responses>>

(* As above on a link that was lost: wait_closed raises in the coroutine.  *)
DispatchCloseRaises(d) ==
  LET c == DrainingLink(dispatch[d].worker)
  IN /\ TaskFinishes(d)
     /\ c # None
     /\ conn[c] = "lost"
     /\ dispatch' = [dispatch EXCEPT ![d] = Done]
     /\ UNCHANGED <<link_vars, task_responses>>

DispatchRecords(d) ==
  /\ dispatch[d].pc = "closing"
  /\ UNCHANGED <<task_vars, worker_vars, link_vars>>
  /\ record_if_terminal(TaskOf(d), dispatch[d].reply, dispatch[d].attempt)
  /\ dispatch' = [dispatch EXCEPT ![d] = Done]

(* A tick of the failure monitor that finds stale workers, while the       *)
(* dispatcher is running.                                                  *)
failure_monitor ==
  /\ StaleWorkers # {}
  /\ FailAndRequeue(StaleWorkers)
  /\ UNCHANGED <<link_vars, dispatch, task_responses>>

-----------------------------------------------------------------------------
Dispatch(d) ==
  \/ DispatchRaises(d)
  \/ DispatchUnsendable(d)
  \/ DispatchSends(d)
  \/ DispatchStale(d)
  \/ DispatchLost(d)
  \/ DispatchFinishes(d)
  \/ DispatchClosesLink(d)
  \/ DispatchCloseRaises(d)
  \/ DispatchRecords(d)

Handler(c) ==
  \/ RegisterRejected(c)
  \/ RegisterAccepted(c)
  \/ RegisterReplyLost(c)
  \/ Heartbeat(c)
  \/ ShutdownCloses(c)
  \/ ShutdownWaits(c)
  \/ \E d \in Dispatches, r \in {"success", "error"} : TaskResult(c, d, r)
  \/ HandlerExit(c)

Next ==
  \/ \E t \in Tasks : submit(t)
  \/ \E t \in Tasks, w \in Workers : DispatcherAssigns(t, w)
  \/ \E d \in Dispatches : Dispatch(d)
  \/ \E c \in Conns : Handler(c)
  \/ \E c \in Conns, w \in Workers : Connect(c, w)
  \/ \E c \in Conns : Crash(c)
  \/ \E w \in Workers : Silence(w)
  \/ failure_monitor

Spec == Init /\ [][Next]_vars

(* Every coroutine that is ready runs, and the dispatcher and the failure  *)
(* monitor tick.  Of the workers only this is assumed: a TASK that is      *)
(* still current is in the end answered (tasks terminate).  Nothing is     *)
(* assumed of an attempt the master has given up on, nor of heartbeats,    *)
(* reconnections or submissions.                                           *)
Answers(d) ==
  /\ is_current_attempt(d)
  /\ \E c \in Conns, r \in {"success", "error"} : TaskResult(c, d, r)

Fairness ==
  /\ \A t \in Tasks, w \in Workers : WF_vars(DispatcherAssigns(t, w))
  /\ \A d \in Dispatches : WF_vars(Dispatch(d)) /\ WF_vars(Answers(d))
  /\ \A c \in Conns :
       /\ WF_vars(RegisterAccepted(c) \/ RegisterRejected(c))
       /\ WF_vars(HandlerExit(c))
  /\ WF_vars(failure_monitor)

FairSpec == Spec /\ Fairness

-----------------------------------------------------------------------------
(* Safety. *)

(* A task is handed out at most MAX_TASK_ATTEMPTS times, however its       *)
(* workers fail: a task waiting to be handed out has an attempt left, and  *)
(* one that was given up on has none.                                      *)
RetryBudget ==
  \A t \in Tasks :
    /\ attempt[t] <= MAX_TASK_ATTEMPTS
    /\ status[t] = "PENDING" =>
         assigned_worker_id[t] = None /\ attempt[t] < MAX_TASK_ATTEMPTS
    /\ status[t] = "FAILED" /\ assigned_worker_id[t] = None =>
         attempt[t] = MAX_TASK_ATTEMPTS

(* No in-flight task is orphaned: an ASSIGNED task has a coroutine that    *)
(* has yet to start, and a RUNNING task has a coroutine awaiting the reply *)
(* of exactly the worker and attempt the scheduler holds for it.           *)
NoOrphan ==
  \A t \in Tasks :
    /\ status[t] = "ASSIGNED" =>
         \E d \in Dispatches : TaskOf(d) = t /\ dispatch[d].pc = "spawned"
    /\ status[t] = "RUNNING" =>
         \E d \in Dispatches :
           /\ TaskOf(d) = t
           /\ dispatch[d].pc = "awaiting"
           /\ is_current_attempt(d)

(* A coroutine whose attempt is still current finds its task RUNNING, so   *)
(* complete_task never raises ValueError in it and fail_task, which checks *)
(* nothing, never overwrites a finished task.                              *)
CurrentIsRunning ==
  \A d \in Dispatches :
    dispatch[d].pc = "awaiting" /\ is_current_attempt(d) =>
      status[TaskOf(d)] = "RUNNING"

(* What the registry holds for a task is the outcome of the task, from the *)
(* attempt that decided it.                                                *)
ResponseAgrees ==
  \A t \in Tasks :
    task_responses[t] # None =>
      /\ status[t] \in Terminal
      /\ task_responses[t].kind = "success" <=> status[t] = "COMPLETED"
      /\ task_responses[t].attempt = attempt[t]

(* No step changes a finished task or a recorded response: neither a late  *)
(* reply of an earlier attempt nor a failure of a worker that once had it. *)
OutcomeIsFinal ==
  [][\A t \in Tasks :
       /\ status[t] \in Terminal =>
            status'[t] = status[t] /\ attempt'[t] = attempt[t]
       /\ task_responses[t] # None =>
            task_responses'[t] = task_responses[t]]_vars

(* A worker that the scheduler holds BUSY has a task in flight, whichever  *)
(* of its connections died: no worker is left BUSY for good.               *)
BusyHasTask ==
  \A w \in Workers :
    worker_status[w] = "BUSY" => \E t \in Tasks : InFlightOn(t, {w})

(* A worker holds one task at a time. *)
OneTaskPerWorker ==
  \A t, u \in Tasks :
    /\ status[t] \in InFlight
    /\ InFlightOn(u, {assigned_worker_id[t]})
    => t = u

(* A worker that is IDLE, FAILED or STOPPED holds no task: it is not given *)
(* a second one, and nothing waits for an answer it will not give.         *)
HolderIsWorking ==
  \A t \in Tasks :
    status[t] \in InFlight =>
      worker_status[assigned_worker_id[t]] \in {"BUSY", "DRAINING"}

(* A healthy connection whose REGISTER was accepted is the one that        *)
(* dispatches use: the belated cleanup of an older connection of the same  *)
(* worker id cannot clobber it, and no two are healthy at once.            *)
OpenLinkIsCurrent ==
  \A c \in Conns :
    conn[c] = "open" /\ link_worker[c] # None => connections[link_worker[c]] = c

(* Generations tell connections apart: of the connections registered for a *)
(* worker id, the one that dispatches use has the greatest generation.     *)
LatestGeneration ==
  \A c \in Conns :
    LET w == link_worker[c]
    IN w # None /\ connections[w] \notin {None, c} =>
         link_generation[c] < link_generation[connections[w]]

(* The answer of a running task can be heard: the connection it is awaited *)
(* on is still the one of its worker.  On a superseded one the handler     *)
(* drops every message, and nobody else would end or retry the task.       *)
RunningIsHeard ==
  \A d \in Dispatches :
    /\ dispatch[d].pc = "awaiting" /\ dispatch[d].reply = "none"
    /\ is_current_attempt(d)
    => connections[dispatch[d].worker] = dispatch[d].link

(* A finished task with no coroutine left to speak for it was answered:    *)
(* whoever waits for it is not left waiting.                               *)
TerminalIsRecorded ==
  \A t \in Tasks :
    /\ status[t] \in Terminal
    /\ \A d \in Dispatches : TaskOf(d) = t => dispatch[d].pc \in {"none", "done"}
    => task_responses[t] # None

-----------------------------------------------------------------------------
(* Liveness. *)

WorkersAvailable == []<>(\E w \in Workers : worker_status[w] = "IDLE")

(* As long as workers keep becoming available, every submitted task ends,  *)
(* whatever the failures: it is never left to a coroutine that has given   *)
(* up or to a worker that will not be heard again.                         *)
TasksEnd ==
  WorkersAvailable =>
    \A t \in Tasks : status[t] = "PENDING" ~> status[t] \in Terminal

(* Workers are lost through their connection only, never for want of a     *)
(* heartbeat.                                                              *)
HeartbeatsInTime == [](\A w \in Workers : ~stale[w])

(* As long as workers keep becoming available, whoever waits for a task is *)
(* answered.  Two things can cost the answer and are left out: the monitor *)
(* that takes the task's last attempt, and the close of a draining         *)
(* worker's connection that raises before the response is recorded.        *)
TasksAnswered ==
  /\ WorkersAvailable
  /\ HeartbeatsInTime
  /\ [](\A w \in Workers : worker_status[w] # "DRAINING")
  =>
    \A t \in Tasks : status[t] = "PENDING" ~> task_responses[t] # None

(* A registered worker that asked to leave while it had work in flight is  *)
(* let go once that work is over: the master closes its connection, unless *)
(* the failure monitor was quicker to call the worker FAILED.              *)
DrainCloses ==
  HeartbeatsInTime =>
    \A c \in Conns :
      process[c] = "draining" /\ link_worker[c] # None ~> conn[c] = "closed"

-----------------------------------------------------------------------------
(* The promise made to callers. *)
Lifecycle == INSTANCE TaskLifecycle WITH
  MaxAttempts <- MAX_TASK_ATTEMPTS, response <- task_responses

(* The master implements the life cycle of every task. *)
ImplementsLifecycle == Lifecycle!Spec

=============================================================================
