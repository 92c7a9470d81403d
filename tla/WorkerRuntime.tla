---------------------------- MODULE WorkerRuntime ----------------------------
(***************************************************************************)
(* One run of run_worker of worker/async_worker.py: the coroutine itself,  *)
(* its heartbeat task and its shutdown watcher, over one connection to the *)
(* master, whose end of it is handle_worker_connection of                  *)
(* master/async_server.py.                                                 *)
(*                                                                         *)
(* inbox and outbox are the two directions of the connection: what was     *)
(* written and not yet read.  A small message is written without a         *)
(* suspension unless a large result still fills the transport's buffer     *)
(* (Congested); then every writer waits in drain().                        *)
(*                                                                         *)
(* direct says which backend runs the tasks.  DirectBackend executes in    *)
(* the step that reads the TASK and blocks the event loop meanwhile;       *)
(* MultiprocessingBackend suspends run_worker until its child is done, and *)
(* again while stop() waits for the pool.  start() of neither suspends.    *)
(***************************************************************************)
EXTENDS Naturals, Sequences

CONSTANTS
  MaxTasks,     (* bound: tasks submitted *)
  MaxUnread,    (* bound: messages in the connection when a heartbeat is sent *)
  MaxCancels,   (* bound: cancellations of run_worker *)
  Faults        (* what may go wrong *)

ASSUME WorkerAssumption ==
  /\ MaxTasks \in Nat /\ MaxUnread \in Nat /\ MaxCancels \in Nat
  /\ Faults \subseteq {"start", "stop", "execute", "master", "refused"}

VARIABLES
  alone,           (* a process of its own, not the worker of pydc run *)
  direct,          (* the backend is a DirectBackend *)
  main,            (* where run_worker is suspended *)
  raised,          (* how it leaves its try blocks *)
  cancels,         (* how often it was cancelled *)
  backend_stops,   (* calls of backend.stop() *)
  heartbeat,       (* the task of start_heartbeat_loop *)
  watcher,         (* the task of watch_for_shutdown *)
  shutdown_event,  (* "none": run_worker was given none *)
  conn,            (* the connection as the worker sees it *)
  inbox,
  outbox,
  link,            (* the master's end; "failed": registered, and then called
                      FAILED by the failure monitor *)
  draining,        (* the master read SHUTDOWN of a live worker *)
  submitted,       (* tasks submitted to the scheduler *)
  sent,            (* TASK messages sent *)
  answered         (* TASK_RESULT messages read by the master *)

owner == <<alone, direct, cancels, shutdown_event>>
run == <<main, raised, backend_stops>>
tasks == <<heartbeat, watcher>>
worker_vars == <<owner, run, tasks>>
connection == <<conn, inbox, outbox>>
master_vars == <<link, draining, submitted, sent, answered>>
vars == <<worker_vars, connection, master_vars>>

Cleanup == {"await_heartbeat", "await_watcher", "stopping", "closing"}
Over == {"none", "ended", "cancelled"}
Results == {"RESULT", "LARGE_RESULT"}
ToMaster == {"PING", "REGISTER", "HEARTBEAT", "SHUTDOWN"} \cup Results
ToWorker == {"PONG", "REGISTER_ACK", "ERROR", "HEARTBEAT_ACK", "SHUTDOWN_ACK",
             "TASK"}

TypeOK ==
  /\ alone \in BOOLEAN /\ direct \in BOOLEAN
  /\ main \in {"connecting", "ping", "register", "serving", "executing",
               "replying", "ended"} \cup Cleanup
  /\ raised \in {"nothing", "error", "cancelled"}
  /\ cancels \in 0 .. MaxCancels
  /\ backend_stops \in 0 .. 1
  /\ heartbeat \in {"none", "waiting", "sending", "ended", "cancelled"}
  /\ watcher \in {"none", "waiting", "sending", "ended"}
  /\ shutdown_event \in {"none", "clear", "set"}
  /\ conn \in {"none", "open", "eof", "closed"}
  /\ inbox \in Seq(ToWorker)
  /\ outbox \in Seq(ToMaster)
  /\ link \in {"new", "linked", "failed", "refused", "gone", "lost"}
  /\ draining \in BOOLEAN
  /\ submitted \in 0 .. MaxTasks
  /\ sent \in 0 .. submitted
  /\ answered \in 0 .. sent

Init ==
  /\ alone \in BOOLEAN /\ direct \in BOOLEAN
  /\ main = "connecting"
  /\ raised = "nothing"
  /\ cancels = 0
  /\ backend_stops = 0
  /\ heartbeat = "none" /\ watcher = "none"
  /\ shutdown_event \in {"none", "clear"}
  /\ ~alone => shutdown_event = "none"
  /\ conn = "none"
  /\ inbox = <<>> /\ outbox = <<>>
  /\ link = "new"
  /\ draining = FALSE
  /\ submitted = 0 /\ sent = 0 /\ answered = 0

-----------------------------------------------------------------------------
(* The connection. *)

Congested == \E i \in DOMAIN outbox : outbox[i] = "LARGE_RESULT"
InFlight == sent > answered

(* The worker writes m.  To a peer that is gone it goes nowhere. *)
Sent(m) == IF conn = "open" THEN Append(outbox, m) ELSE outbox

(* The state of a coroutine that just wrote a message. *)
AfterWrite(next) == IF Congested THEN "sending" ELSE next

-----------------------------------------------------------------------------
(* The cleanup of run_worker. *)

(* backend.stop() is called.  DirectBackend's does nothing. *)
StopBackend ==
  /\ backend_stops' = backend_stops + 1
  /\ main' = IF direct THEN "closing" ELSE "stopping"

(* The watcher is cancelled and awaited, if there is one. *)
EndWatcher ==
  IF watcher \in Over
  THEN StopBackend
  ELSE main' = "await_watcher" /\ UNCHANGED backend_stops

(* The inner try block is left with exc: its finally sets stop_heartbeat,  *)
(* which is main \in Cleanup, and awaits the heartbeat task if there is    *)
(* one.                                                                    *)
LeaveTry(exc) ==
  /\ raised' = exc
  /\ IF heartbeat \in Over
     THEN EndWatcher
     ELSE main' = "await_heartbeat" /\ UNCHANGED backend_stops

HeartbeatJoined ==
  /\ main = "await_heartbeat"
  /\ heartbeat = "ended"
  /\ EndWatcher
  /\ UNCHANGED <<owner, tasks, connection, raised, master_vars>>

(* The watcher was cancelled; its CancelledError is swallowed. *)
WatcherJoined ==
  /\ main = "await_watcher"
  /\ watcher' = "ended"
  /\ StopBackend
  /\ UNCHANGED <<owner, connection, raised, heartbeat, master_vars>>

(* Mutant: an exception of stop() skips conn.close(). *)
BackendStopped_Skips(exc) ==
  /\ main = "stopping"
  /\ main' = IF exc = "error" THEN "ended" ELSE "closing"
  /\ raised' = IF exc = "error" THEN exc ELSE raised
  /\ UNCHANGED <<owner, tasks, connection, backend_stops, master_vars>>

(* stop() returns when the pool is shut down, or raises. *)
BackendStopped(exc) ==
  /\ main = "stopping"
  /\ main' = "closing"
  /\ raised' = IF exc = "error" THEN exc ELSE raised
  /\ UNCHANGED <<owner, tasks, connection, backend_stops, master_vars>>

(* conn.close() waits until what was written is flushed.  wait_closed may  *)
(* raise what ended the connection.                                        *)
Closes(exc) ==
  /\ main = "closing"
  /\ conn = "open" => ~Congested
  /\ exc = "error" => conn = "eof"
  /\ main' = "ended"
  /\ conn' = "closed"
  /\ raised' = IF exc = "error" THEN exc ELSE raised
  /\ UNCHANGED <<owner, tasks, backend_stops, inbox, outbox, master_vars>>

-----------------------------------------------------------------------------
(* From the start to serve_tasks. *)

(* The master cannot be reached. *)
ConnectFails ==
  /\ "master" \in Faults
  /\ alone
  /\ main = "connecting"
  /\ main' = "ended"
  /\ raised' = "error"
  /\ UNCHANGED <<owner, tasks, connection, backend_stops, master_vars>>

(* Mutant: the heartbeat task is created before the handshake. *)
Connects_Heartbeats ==
  /\ main = "connecting"
  /\ main' = "ping"
  /\ conn' = "open"
  /\ outbox' = <<"PING">>
  /\ heartbeat' = "waiting"
  /\ UNCHANGED <<owner, watcher, raised, backend_stops, inbox, master_vars>>

(* The connection is open, the backend started and PING written. *)
Connects ==
  /\ main = "connecting"
  /\ main' = "ping"
  /\ conn' = "open"
  /\ outbox' = <<"PING">>
  /\ UNCHANGED <<owner, tasks, raised, backend_stops, inbox, master_vars>>

(* backend.start() raises: stop() finds no pool and returns. *)
StartRaises ==
  /\ "start" \in Faults
  /\ ~direct
  /\ main = "connecting"
  /\ conn' = "open"
  /\ raised' = "error"
  /\ backend_stops' = backend_stops + 1
  /\ main' = "closing"
  /\ UNCHANGED <<owner, tasks, inbox, outbox, master_vars>>

(* send_request takes the next message for the reply, whatever it is. *)
GotPong ==
  /\ main = "ping"
  /\ inbox # <<>>
  /\ inbox' = Tail(inbox)
  /\ main' = "register"
  /\ outbox' = Sent("REGISTER")
  /\ UNCHANGED <<owner, tasks, raised, backend_stops, conn, master_vars>>

(* Whether the reply is an ERROR is not looked at. *)
GotRegistered ==
  /\ main = "register"
  /\ inbox # <<>>
  /\ inbox' = Tail(inbox)
  /\ main' = "serving"
  /\ heartbeat' = "waiting"
  /\ watcher' = IF shutdown_event = "none" THEN "none" ELSE "waiting"
  /\ UNCHANGED <<owner, raised, backend_stops, conn, outbox, master_vars>>

(* Mutant: serve_tasks reads on after the connection is gone. *)
ReadsEOF_Ignored ==
  /\ main \in {"ping", "register"}
  /\ conn = "eof"
  /\ inbox = <<>>
  /\ LeaveTry("error")
  /\ UNCHANGED <<owner, tasks, connection, master_vars>>

(* The peer is gone and everything it wrote was read: ConnectionError,     *)
(* which serve_tasks takes for the end and send_request does not catch.    *)
ReadsEOF ==
  /\ main \in {"ping", "register", "serving"}
  /\ conn = "eof"
  /\ inbox = <<>>
  /\ LeaveTry(IF main = "serving" THEN "nothing" ELSE "error")
  /\ UNCHANGED <<owner, tasks, connection, master_vars>>

-----------------------------------------------------------------------------
(* serve_tasks. *)

(* Mutant: the answer to SHUTDOWN is taken for the end. *)
Ignores_Returns ==
  /\ main = "serving"
  /\ inbox # <<>>
  /\ Head(inbox) # "TASK"
  /\ inbox' = Tail(inbox)
  /\ IF Head(inbox) = "SHUTDOWN_ACK"
     THEN LeaveTry("nothing")
     ELSE UNCHANGED run
  /\ UNCHANGED <<owner, tasks, conn, outbox, master_vars>>

(* What is not a TASK is ignored. *)
Ignores ==
  /\ main = "serving"
  /\ inbox # <<>>
  /\ Head(inbox) # "TASK"
  /\ inbox' = Tail(inbox)
  /\ UNCHANGED <<worker_vars, conn, outbox, master_vars>>

GetsTask ==
  /\ main = "serving"
  /\ inbox # <<>>
  /\ Head(inbox) = "TASK"
  /\ inbox' = Tail(inbox)

(* The result is written; drain() waits while the buffer is full. *)
Replies(m) ==
  /\ outbox' = Sent(m)
  /\ main' = IF m = "LARGE_RESULT" /\ conn = "open"
              THEN "replying" ELSE "serving"
  /\ UNCHANGED <<raised, backend_stops>>

(* The write finds the connection lost. *)
ReplyRaises ==
  /\ conn = "eof"
  /\ LeaveTry("error")
  /\ UNCHANGED outbox

ExecutesDirectly(m) ==
  /\ direct
  /\ GetsTask
  /\ Replies(m) \/ ReplyRaises
  /\ UNCHANGED <<owner, tasks, conn, master_vars>>

Executes ==
  /\ ~direct
  /\ GetsTask
  /\ main' = "executing"
  /\ UNCHANGED <<owner, tasks, raised, backend_stops, conn, outbox,
                 master_vars>>

Executed(m) ==
  /\ main = "executing"
  /\ Replies(m) \/ ReplyRaises
  /\ UNCHANGED <<owner, tasks, conn, inbox, master_vars>>

(* execute() raises, which nobody catches: the child process dies, or the  *)
(* task ends with an exception other than ExecutionError, which is all     *)
(* that execute_task turns into a result.                                  *)
ExecuteRaises ==
  /\ "execute" \in Faults
  /\ \/ main = "executing" /\ UNCHANGED inbox
     \/ direct /\ GetsTask
  /\ LeaveTry("error")
  /\ UNCHANGED <<owner, tasks, conn, outbox, master_vars>>

Flushed ==
  /\ main = "replying"
  /\ IF conn = "eof" THEN LeaveTry("error")
     ELSE ~Congested /\ main' = "serving" /\ UNCHANGED <<raised, backend_stops>>
  /\ UNCHANGED <<owner, tasks, connection, master_vars>>

-----------------------------------------------------------------------------
(* start_heartbeat_loop and watch_for_shutdown. *)

HeartbeatSends ==
  /\ heartbeat = "waiting"
  /\ main \notin Cleanup
  /\ Len(inbox) + Len(outbox) < MaxUnread
  /\ outbox' = Sent("HEARTBEAT")
  /\ heartbeat' = AfterWrite("waiting")
  /\ UNCHANGED <<owner, run, watcher, conn, inbox, master_vars>>

(* Mutant: stop_heartbeat is never set. *)
HeartbeatGoesOn_Deaf ==
  /\ heartbeat = "sending"
  /\ conn = "eof" \/ ~Congested
  /\ heartbeat' = IF conn = "eof" THEN "ended" ELSE "waiting"
  /\ UNCHANGED <<owner, run, connection, watcher, master_vars>>

(* The loop is told to stop, its drain() is over, or a write finds the     *)
(* connection lost.                                                        *)
HeartbeatGoesOn ==
  /\ \/ heartbeat = "waiting" /\ main \in Cleanup
     \/ heartbeat = "sending" /\ (conn = "eof" \/ ~Congested)
  /\ heartbeat' = IF heartbeat = "waiting" \/ conn = "eof"
                  THEN "ended" ELSE "waiting"
  /\ UNCHANGED <<owner, run, connection, watcher, master_vars>>

(* The loop ends for good at the first write that fails. *)
HeartbeatFails ==
  /\ heartbeat = "waiting"
  /\ conn = "eof"
  /\ heartbeat' = "ended"
  /\ UNCHANGED <<owner, run, connection, watcher, master_vars>>

(* SHUTDOWN is written once; that the connection is lost does not matter. *)
WatcherSends ==
  /\ watcher = "waiting"
  /\ main # "await_watcher"
  /\ shutdown_event = "set"
  /\ outbox' = Sent("SHUTDOWN")
  /\ watcher' = AfterWrite("ended")
  /\ UNCHANGED <<owner, run, heartbeat, conn, inbox, master_vars>>

WatcherGoesOn ==
  /\ watcher = "sending"
  /\ main # "await_watcher"
  /\ conn # "open" \/ ~Congested
  /\ watcher' = "ended"
  /\ UNCHANGED <<owner, run, connection, heartbeat, master_vars>>

-----------------------------------------------------------------------------
(* What the owner of run_worker does. *)

SetShutdown ==
  /\ shutdown_event = "clear"
  /\ shutdown_event' = "set"
  /\ UNCHANGED <<run, tasks, connection, alone, direct, cancels, master_vars>>

(* CancelledError is raised where run_worker is suspended.  In the cleanup *)
(* it ends the await it hits: that of the heartbeat task takes the rest of *)
(* the inner finally with it, that of the watcher swallows it.             *)
Cancelled ==
  /\ main # "ended"
  /\ cancels < MaxCancels
  /\ cancels' = cancels + 1
  /\ \/ /\ main \notin Cleanup \cup {"connecting"}
        /\ LeaveTry("cancelled")
        /\ UNCHANGED <<tasks, conn>>
     \/ /\ main = "connecting"
        /\ main' = "ended" /\ raised' = "cancelled"
        /\ UNCHANGED <<tasks, backend_stops, conn>>
     \/ /\ main = "await_heartbeat"
        /\ main' = "closing" /\ raised' = "cancelled"
        /\ heartbeat' = "cancelled"
        /\ UNCHANGED <<backend_stops, watcher, conn>>
     \/ /\ main = "await_watcher"
        /\ watcher' = "ended"
        /\ StopBackend
        /\ UNCHANGED <<raised, heartbeat, conn>>
     \/ /\ main = "stopping"
        /\ main' = "closing" /\ raised' = "cancelled"
        /\ UNCHANGED <<tasks, backend_stops, conn>>
     \/ /\ main = "closing"
        /\ main' = "ended" /\ raised' = "cancelled"
        /\ conn' = "closed"
        /\ UNCHANGED <<tasks, backend_stops>>
  /\ UNCHANGED <<alone, direct, shutdown_event, inbox, outbox, master_vars>>

-----------------------------------------------------------------------------
(* The master: one handle_worker_connection and the dispatches on its link. *)

Reading(m) ==
  /\ link \notin {"gone", "lost"}
  /\ outbox # <<>>
  /\ Head(outbox) = m

Answered(m) == IF conn = "open" THEN Append(inbox, m) ELSE inbox

ReadsPing ==
  /\ Reading("PING")
  /\ outbox' = Tail(outbox)
  /\ inbox' = Answered("PONG")
  /\ UNCHANGED <<worker_vars, conn, master_vars>>

(* The link is published after the acknowledgement was written. *)
ReadsRegister(accepted) ==
  /\ Reading("REGISTER")
  /\ accepted \/ (alone /\ "refused" \in Faults)
  /\ outbox' = Tail(outbox)
  /\ inbox' = Answered(IF accepted THEN "REGISTER_ACK" ELSE "ERROR")
  /\ link' = IF accepted THEN "linked" ELSE "refused"
  /\ UNCHANGED <<worker_vars, conn, draining, submitted, sent, answered>>

ReadsHeartbeat ==
  /\ Reading("HEARTBEAT")
  /\ outbox' = Tail(outbox)
  /\ inbox' = Answered("HEARTBEAT_ACK")
  /\ UNCHANGED <<worker_vars, conn, master_vars>>

(* The master closes the connection: the worker reads what is on its way   *)
(* and then EOF.                                                           *)
CloseConnection(how) ==
  /\ link' = how
  /\ conn' = IF conn = "open" THEN "eof" ELSE conn
  /\ outbox' = <<>>

(* A tick of the failure monitor finds the last heartbeat too old.  The    *)
(* connection stays; what was in flight on it is now a stale attempt.      *)
MonitorFails ==
  /\ link = "linked"
  /\ link' = "failed"
  /\ UNCHANGED <<worker_vars, connection, draining, submitted, sent, answered>>

(* A worker with nothing in flight is let go at once.  Of a connection     *)
(* whose REGISTER was refused the handler knows no worker_id: it drains    *)
(* the entry of the worker that has the id and keeps this one open.        *)
ReadsShutdown ==
  /\ Reading("SHUTDOWN")
  /\ inbox' = Answered("SHUTDOWN_ACK")
  /\ draining' = (link = "linked")
  /\ IF link \in {"linked", "failed"} /\ ~InFlight
     THEN CloseConnection("gone")
     ELSE outbox' = Tail(outbox) /\ UNCHANGED <<link, conn>>
  /\ UNCHANGED <<worker_vars, submitted, sent, answered>>

ReadsResult ==
  /\ \E m \in Results : Reading(m)
  /\ outbox' = Tail(outbox)
  /\ answered' = answered + 1
  /\ UNCHANGED <<worker_vars, conn, inbox, link, draining, submitted, sent>>

(* Mutant: the connection of a draining worker is left open. *)
LetsGo_Never ==
  /\ FALSE
  /\ CloseConnection("gone")
  /\ UNCHANGED <<worker_vars, inbox, draining, submitted, sent, answered>>

(* The dispatch of a draining worker closes its connection when it is      *)
(* done, unless it finds its attempt stale.                                *)
LetsGo ==
  /\ link = "linked"
  /\ draining /\ ~InFlight
  /\ CloseConnection("gone")
  /\ UNCHANGED <<worker_vars, inbox, draining, submitted, sent, answered>>

(* The worker closed the connection and all it wrote was read. *)
ReadsEnd ==
  /\ link \notin {"gone", "lost"}
  /\ conn = "closed"
  /\ outbox = <<>>
  /\ link' = "gone"
  /\ UNCHANGED <<connection, worker_vars, draining, submitted, sent, answered>>

SendsTask ==
  /\ link = "linked"
  /\ conn = "open"
  /\ ~draining /\ ~InFlight
  /\ sent < submitted
  /\ sent' = sent + 1
  /\ inbox' = Append(inbox, "TASK")
  /\ UNCHANGED <<worker_vars, conn, outbox, link, draining, submitted,
                 answered>>

(* The master dies, stops, or the network drops the connection, perhaps    *)
(* with what was on its way.                                               *)
MasterLost ==
  /\ "master" \in Faults
  /\ alone
  /\ conn = "open"
  /\ CloseConnection("lost")
  /\ inbox' \in {inbox, <<>>}
  /\ UNCHANGED <<worker_vars, draining, submitted, sent, answered>>

Submit ==
  /\ submitted < MaxTasks
  /\ submitted' = submitted + 1
  /\ UNCHANGED <<connection, worker_vars, link, draining, sent, answered>>

-----------------------------------------------------------------------------
RunWorker ==
  \/ Connects \/ StartRaises \/ ConnectFails
  \/ GotPong \/ GotRegistered \/ ReadsEOF
  \/ Ignores
  \/ \E m \in Results : ExecutesDirectly(m) \/ Executed(m)
  \/ Executes \/ ExecuteRaises \/ Flushed
  \/ HeartbeatJoined \/ WatcherJoined
  \/ BackendStopped("nothing")
  \/ "stop" \in Faults /\ BackendStopped("error")
  \/ \E exc \in {"nothing", "error"} : Closes(exc)

Watcher == WatcherSends \/ WatcherGoesOn

Handler ==
  \/ ReadsPing
  \/ \E accepted \in BOOLEAN : ReadsRegister(accepted)
  \/ ReadsHeartbeat \/ ReadsShutdown \/ ReadsResult \/ ReadsEnd

Next ==
  \/ RunWorker
  \/ HeartbeatSends \/ HeartbeatGoesOn \/ HeartbeatFails
  \/ Watcher
  \/ Handler \/ MonitorFails \/ LetsGo \/ SendsTask \/ MasterLost

(* Every coroutine that can go on does, the master reads what it is sent,  *)
(* and a child process ends its task or dies.  Nothing is assumed of the   *)
(* heartbeat interval, of the owner, or of when tasks come.                *)
Fairness ==
  /\ WF_vars(RunWorker)
  /\ WF_vars(HeartbeatGoesOn)
  /\ WF_vars(Watcher)
  /\ WF_vars(Handler)
  /\ WF_vars(LetsGo)

-----------------------------------------------------------------------------
(* Until serve_tasks owns the connection, send_request takes whatever      *)
(* arrives next for the answer to its own request.  That is right: nothing *)
(* arrives in between, neither the answer to a heartbeat nor a TASK, which *)
(* would be lost.                                                          *)
HandshakeInOrder ==
  /\ main = "ping" /\ inbox # <<>> => Head(inbox) = "PONG"
  /\ main = "register" /\ inbox # <<>> =>
       Head(inbox) \in {"REGISTER_ACK", "ERROR"}

(* However run_worker ends, its connection is closed, its heartbeat task   *)
(* is over, and so is its watcher; and stop() was called for the backend   *)
(* ("called once each by run_worker()").  The last two are lost to a       *)
(* CancelledError that hits the await of the heartbeat task.               *)
NothingLeft ==
  main = "ended" =>
    /\ conn \in {"none", "closed"}
    /\ heartbeat \in Over
    /\ heartbeat # "cancelled" =>
         /\ watcher \in Over
         /\ conn = "closed" => backend_stops = 1

(* A worker that leaves in good order owes the master nothing: the TASK    *)
(* that crossed with its SHUTDOWN on the wire was executed and answered,   *)
(* unless the master itself went away.                                     *)
GracefulExit ==
  main \in Cleanup \cup {"ended"} /\ raised = "nothing" =>
    link = "lost" \/ ~InFlight

(* A worker asked to leave does so, once its work is done, if the master   *)
(* registered it and does not call it FAILED: then nobody closes the       *)
(* connection that serve_tasks reads.                                      *)
ShutdownEnds ==
  [](link # "failed") =>
    (shutdown_event = "set" ~> main = "ended" \/ link = "refused")

(* A worker whose master is gone ends: the cleanup does not wait for a     *)
(* heartbeat, a watcher or a write that nobody will read.                  *)
LossEndsWorker == conn = "eof" ~> main = "ended"

=============================================================================
