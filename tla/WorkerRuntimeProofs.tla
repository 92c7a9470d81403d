------------------------- MODULE WorkerRuntimeProofs --------------------------
(***************************************************************************)
(* Proofs about run_worker, alone and under pydc run: the handshake, the   *)
(* cleanup, the answers it owes and the way it leaves; for any number of   *)
(* tasks, cancellations and messages under way, and any faults.            *)
(***************************************************************************)
EXTENDS PydcRun, TLAPS

(* Most leaves are first-order: they are Zenon's unless they name a prover. *)
USE Zenon

-----------------------------------------------------------------------------
(* The inductive invariant. *)

Live == {"open", "eof"}

(* What run_worker has opened and started, and what it has ended, at each  *)
(* place where it is suspended.                                            *)
Control ==
  /\ main = "connecting" =>
       /\ conn = "none" /\ heartbeat = "none" /\ watcher = "none" /\ backend_stops = 0
  /\ main \in {"ping", "register"} =>
       /\ conn \in Live /\ heartbeat = "none" /\ watcher = "none" /\ backend_stops = 0
  /\ main \in {"serving", "executing", "replying", "await_heartbeat"} =>
       /\ conn \in Live /\ heartbeat \in {"waiting", "sending", "ended"}
       /\ backend_stops = 0
  /\ main = "await_watcher" =>
       /\ conn \in Live /\ heartbeat \in {"none", "ended"} /\ backend_stops = 0
  /\ main \in {"stopping", "closing"} =>
       /\ conn \in Live /\ heartbeat \in Over
       /\ heartbeat # "cancelled" => watcher \in Over /\ backend_stops = 1
  /\ NothingLeft

(* What is on the wire before serve_tasks owns the connection. *)
Wire ==
  /\ main = "connecting" => inbox = <<>> /\ outbox = <<>> /\ link = "new"
  /\ main = "ping" =>
       /\ link = "new" \/ conn = "eof"
       /\ \/ inbox = <<>> /\ outbox = <<"PING">>
          \/ inbox \in {<<>>, <<"PONG">>} /\ outbox = <<>>
  /\ main = "register" =>
       /\ \/ outbox = <<>>
          \/ outbox = <<"REGISTER">> /\ inbox = <<>> /\ link = "new"
       /\ inbox = <<>> \/ Head(inbox) \in {"REGISTER_ACK", "ERROR"}
       /\ link = "linked" /\ conn = "open" => inbox # <<>>

Has(q, M) == \E i \in DOMAIN q : q[i] \in M
Once(q, M) == \A i, j \in DOMAIN q : q[i] \in M /\ q[j] \in M => i = j

(* At most one task is under way, in one place: its TASK on the wire, the  *)
(* backend, or its result on the wire.                                     *)
Owing ==
  /\ sent = answered \/ sent = answered + 1
  /\ Once(inbox, {"TASK"}) /\ Once(outbox, Results)
  /\ Has(inbox, {"TASK"}) =>
       main # "executing" /\ ~Has(outbox, Results) /\ sent = answered + 1
  /\ main = "executing" => ~Has(outbox, Results) /\ sent = answered + 1
  /\ Has(outbox, Results) => sent = answered + 1

(* The master let the worker go and has nothing of it to wait for, or is   *)
(* lost.                                                                   *)
LetGo == link = "lost" \/ (link = "gone" /\ ~InFlight)

Leaving ==
  /\ conn = "eof" => outbox = <<>> /\ LetGo
  /\ main \in Cleanup \cup {"ended"} /\ raised = "nothing" => LetGo

Owner ==
  /\ client \in {"none", "waiting_worker", "waiting_task", "joining", "ended"}
  /\ client = "waiting_worker" => submitted = 0 /\ ~alone

IInv == TypeOK /\ Control /\ Wire /\ Owing /\ Leaving /\ Owner

-----------------------------------------------------------------------------
(* The messages in a queue. *)

LEMMA Emptied ==
  ASSUME NEW M
  PROVE  ~Has(<<>>, M) /\ Once(<<>>, M)
BY SMT DEF Has, Once

LEMMA OneMessage ==
  ASSUME NEW M, NEW m, m \notin M
  PROVE  ~Has(<<m>>, M) /\ Once(<<m>>, M)
BY SMT DEF Has, Once

LEMMA Single ==
  ASSUME NEW m
  PROVE  /\ Head(<<m>>) = m
         /\ Tail(<<m>>) = <<>>
         /\ <<m>> # <<>>
BY SMT

LEMMA Written ==
  ASSUME NEW S, NEW q \in Seq(S), NEW m \in S
  PROVE  /\ Append(q, m) \in Seq(S)
         /\ Append(q, m) # <<>>
         /\ q # <<>> => Head(Append(q, m)) = Head(q)
         /\ q = <<>> => Append(q, m) = <<m>>
<1>1. Append(q, m) \in Seq(S)
  BY SMT
<1>2. Append(q, m) # <<>>
  <2>1. Len(Append(q, m)) = Len(q) + 1 /\ Len(q) \in Nat
    BY SMT
  <2>2. Len(<<>>) = 0
    OBVIOUS
  <2>3. QED
    BY <2>1, <2>2, SMT
<1>3. q # <<>> => Head(Append(q, m)) = Head(q)
  BY SMT
<1>4. Append(<<>>, m) = <<m>>
  BY SMT
<1>5. QED
  BY <1>1, <1>2, <1>3, <1>4

LEMMA WrittenMessages ==
  ASSUME NEW S, NEW q \in Seq(S), NEW m \in S, NEW M, Once(q, M)
  PROVE  /\ m \notin M => Once(Append(q, m), M) /\ (Has(Append(q, m), M) => Has(q, M))
         /\ ~Has(q, M) => Once(Append(q, m), M)
<1> PICK p : p = Append(q, m)
  OBVIOUS
<1>1. /\ Len(p) = Len(q) + 1
      /\ DOMAIN p = 1 .. Len(q) + 1
      /\ DOMAIN q = 1 .. Len(q)
      /\ Len(q) \in Nat
      /\ p[Len(q) + 1] = m
      /\ \A i \in DOMAIN q : p[i] = q[i]
  BY SMT
<1>2. \A i \in DOMAIN p : i \in DOMAIN q \/ i = Len(q) + 1
  BY <1>1, SMT
<1>3. m \notin M => Once(p, M) /\ (Has(p, M) => Has(q, M))
  BY <1>1, <1>2, SMT DEF Once, Has
<1>4. ~Has(q, M) => Once(p, M)
  BY <1>1, <1>2 DEF Once, Has
<1>5. QED
  BY <1>3, <1>4

LEMMA Read ==
  ASSUME NEW S, NEW q \in Seq(S), q # <<>>, NEW M, Once(q, M)
  PROVE  /\ Tail(q) \in Seq(S)
         /\ Head(q) \in S
         /\ Once(Tail(q), M)
         /\ Has(Tail(q), M) => Has(q, M)
         /\ Head(q) \in M => Has(q, M) /\ ~Has(Tail(q), M)
<1> PICK p : p = Tail(q)
  OBVIOUS
<1> PICK n : n = Len(q)
  OBVIOUS
<1>1. /\ p \in Seq(S) /\ Head(q) \in S
      /\ n \in Nat \ {0}
      /\ DOMAIN q = 1 .. n
      /\ DOMAIN p = 1 .. n - 1
      /\ Head(q) = q[1]
      /\ \A i \in 1 .. n - 1 : p[i] = q[i + 1]
  BY SMT
<1>2. Once(p, M)
  <2> SUFFICES ASSUME NEW i \in DOMAIN p, NEW j \in DOMAIN p, p[i] \in M, p[j] \in M
               PROVE  i = j
    BY DEF Once
  <2>1. i + 1 \in DOMAIN q /\ j + 1 \in DOMAIN q /\ q[i + 1] \in M /\ q[j + 1] \in M
    BY <1>1, SMT
  <2>2. i + 1 = j + 1
    BY <2>1 DEF Once
  <2>3. QED
    BY <1>1, <2>2, SMT
<1>3. \A i \in DOMAIN p : i + 1 \in DOMAIN q /\ i + 1 # 1 /\ p[i] = q[i + 1]
  BY <1>1, SMT
<1>4. Has(p, M) => Has(q, M)
  BY <1>3 DEF Has
<1>5. 1 \in DOMAIN q
  BY <1>1, SMT
<1>6. Head(q) \in M => Has(q, M)
  BY <1>1, <1>5 DEF Has
<1>7. Head(q) \in M => ~Has(p, M)
  BY <1>1, <1>3, <1>5 DEF Has, Once
<1>8. QED
  BY <1>1, <1>2, <1>4, <1>6, <1>7

-----------------------------------------------------------------------------
(* The steps. *)

Move ==
  \/ Next \/ GotWorker \/ Submit \/ SetShutdown \/ Cancelled
  \/ UNCHANGED vars

LEMMA Moves == RunNext => Move
BY DEF RunNext, Move, NextStage, JobEnds, Interrupt, TakeDown, Joined, Environment

InTry == {"ping", "register", "serving", "executing", "replying"}

(* The steps with which run_worker leaves its inner try block. *)
Leaves ==
  \E exc \in {"nothing", "error", "cancelled"} :
    /\ main \in InTry
    /\ LeaveTry(exc)
    /\ exc = "nothing" => main = "serving" /\ conn = "eof" /\ inbox = <<>>
    /\ inbox' = inbox \/ (inbox # <<>> /\ inbox' = Tail(inbox))
    /\ UNCHANGED <<alone, direct, shutdown_event, tasks, conn, outbox, master_vars>>
    /\ cancels' = cancels \/ (cancels < MaxCancels /\ cancels' = cancels + 1)

(* The steps with which a result is written. *)
RepliesWith(m) ==
  /\ (main = "executing" /\ UNCHANGED inbox) \/ GetsTask
  /\ Replies(m)
  /\ UNCHANGED <<owner, tasks, conn, master_vars>>

(* The steps of a cancellation outside the inner try block. *)
CancelledElsewhere ==
  /\ Cancelled
  /\ main \in Cleanup \cup {"connecting"}

Flushes ==
  /\ main = "replying"
  /\ main' = "serving"
  /\ UNCHANGED <<owner, raised, backend_stops, tasks, connection, master_vars>>

(* The steps of run_worker, sorted by what they do. *)
LEMMA RunWorkerMoves ==
  ASSUME TypeOK, RunWorker
  PROVE  \/ Connects \/ StartRaises \/ ConnectFails
         \/ GotPong \/ GotRegistered \/ Ignores \/ Executes \/ Flushes
         \/ Leaves
         \/ \E m \in Results : RepliesWith(m)
         \/ HeartbeatJoined \/ WatcherJoined
         \/ \E exc \in {"nothing", "error"} : BackendStopped(exc) \/ Closes(exc)
<1> USE DEF InTry, owner, tasks, connection
<1>1. ASSUME ReadsEOF PROVE Leaves
  BY <1>1 DEF ReadsEOF, Leaves
<1>2. ASSUME NEW m \in Results, ExecutesDirectly(m) PROVE Leaves \/ RepliesWith(m)
  <2>1. CASE Replies(m)
    BY <1>2, <2>1 DEF ExecutesDirectly, RepliesWith
  <2>2. CASE ReplyRaises
    BY <1>2, <2>2 DEF ExecutesDirectly, GetsTask, ReplyRaises, Leaves
  <2>3. QED
    BY <1>2, <2>1, <2>2 DEF ExecutesDirectly
<1>3. ASSUME NEW m \in Results, Executed(m) PROVE Leaves \/ RepliesWith(m)
  <2>1. CASE Replies(m)
    BY <1>3, <2>1 DEF Executed, RepliesWith
  <2>2. CASE ReplyRaises
    BY <1>3, <2>2 DEF Executed, ReplyRaises, Leaves
  <2>3. QED
    BY <1>3, <2>1, <2>2 DEF Executed
<1>4. ASSUME ExecuteRaises PROVE Leaves
  BY <1>4 DEF ExecuteRaises, GetsTask, Leaves
<1>5. ASSUME Flushed PROVE Leaves \/ Flushes
  BY <1>5 DEF Flushed, Leaves, Flushes
<1>6. QED
  BY <1>1, <1>2, <1>3, <1>4, <1>5 DEF RunWorker

LEMMA CancelledMoves ==
  ASSUME TypeOK, Cancelled
  PROVE  Leaves \/ CancelledElsewhere
<1>1. CASE main \in Cleanup \cup {"connecting"}
  BY <1>1 DEF CancelledElsewhere
<1>2. CASE main \notin Cleanup \cup {"connecting"}
  <2>1. main \in InTry
    BY <1>2 DEF TypeOK, Cancelled, InTry
  <2>2. LeaveTry("cancelled") /\ UNCHANGED <<tasks, conn>>
    BY <1>2 DEF Cancelled, Cleanup
  <2>3. QED
    BY <2>1, <2>2 DEF Cancelled, Leaves, tasks
<1>3. QED
  BY <1>1, <1>2

(* The steps of the master and of the owner that leave the worker alone. *)
Elsewhere ==
  UNCHANGED <<main, raised, backend_stops, heartbeat, watcher, conn>>

LEMMA ElsewhereMoves ==
  ASSUME \/ ReadsPing \/ ReadsHeartbeat \/ ReadsResult \/ ReadsEnd \/ SendsTask \/ MonitorFails
         \/ \E accepted \in BOOLEAN : ReadsRegister(accepted)
         \/ Submit \/ SetShutdown \/ GotWorker \/ Ignores \/ UNCHANGED vars
  PROVE  Elsewhere
BY DEF ReadsPing, ReadsHeartbeat, ReadsResult, ReadsEnd, SendsTask, MonitorFails, ReadsRegister,
       Submit, SetShutdown, GotWorker, Ignores, Elsewhere, vars, worker_vars, run,
       tasks, connection

(* The steps with which the master may end the connection. *)
LEMMA MasterCloses ==
  ASSUME ReadsShutdown \/ LetsGo \/ MasterLost
  PROVE  /\ UNCHANGED <<main, raised, backend_stops, heartbeat, watcher>>
         /\ \/ UNCHANGED conn
            \/ conn = "open" /\ conn' = "eof"
BY DEF ReadsShutdown, LetsGo, MasterLost, CloseConnection, worker_vars, run, tasks

(* The steps of the heartbeat task and of the watcher. *)
Beats ==
  \/ HeartbeatSends \/ HeartbeatGoesOn \/ HeartbeatFails
  \/ WatcherSends \/ WatcherGoesOn

LEMMA Sorted ==
  ASSUME TypeOK, Move
  PROVE  \/ Connects \/ StartRaises \/ ConnectFails \/ GotPong \/ GotRegistered
         \/ Ignores \/ Executes \/ Flushes \/ Leaves
         \/ \E m \in Results : RepliesWith(m)
         \/ HeartbeatJoined \/ WatcherJoined \/ CancelledElsewhere
         \/ \E exc \in {"nothing", "error"} : BackendStopped(exc) \/ Closes(exc)
         \/ Beats
         \/ ReadsPing \/ ReadsHeartbeat \/ ReadsResult \/ ReadsEnd \/ SendsTask \/ MonitorFails
         \/ \E accepted \in BOOLEAN : ReadsRegister(accepted)
         \/ ReadsShutdown \/ LetsGo \/ MasterLost
         \/ Submit \/ SetShutdown \/ GotWorker \/ UNCHANGED vars
<1>1. CASE RunWorker
  BY <1>1, RunWorkerMoves
<1>2. CASE Cancelled
  BY <1>2, CancelledMoves
<1>3. CASE Next /\ ~RunWorker
  BY <1>3 DEF Next, Watcher, Handler, Beats
<1>4. QED
  BY <1>1, <1>2, <1>3 DEF Move

-----------------------------------------------------------------------------
(* Control: what is open and running where run_worker is suspended. *)

LEMMA ControlLeaves ==
  ASSUME TypeOK, Control, Leaves
  PROVE  /\ Control'
         /\ main' \in Cleanup
         /\ backend_stops' \in 0 .. 1
<1> USE DEF Live, Over, Cleanup, InTry
<1> PICK exc \in {"nothing", "error", "cancelled"} :
           main \in InTry /\ LeaveTry(exc) /\ UNCHANGED <<tasks, conn>>
  BY DEF Leaves, tasks
<1>1. /\ conn \in Live /\ conn' = conn
      /\ heartbeat' = heartbeat /\ watcher' = watcher
      /\ backend_stops = 0
      /\ heartbeat # "cancelled"
  BY DEF TypeOK, Control, tasks
<1>2. CASE heartbeat \notin Over
  <2>1. main' = "await_heartbeat" /\ backend_stops' = 0
    BY <1>1, <1>2 DEF LeaveTry
  <2>2. heartbeat \in {"waiting", "sending", "ended"}
    BY <1>2 DEF TypeOK
  <2>3. QED
    BY <1>1, <2>1, <2>2, SMT DEF Control, NothingLeft
<1>3. CASE heartbeat \in Over /\ watcher \in Over
  <2>1. main' \in {"closing", "stopping"} /\ backend_stops' = 1
    BY <1>1, <1>3, SMT DEF LeaveTry, EndWatcher, StopBackend
  <2>2. QED
    BY <1>1, <1>3, <2>1, SMT DEF Control, NothingLeft
<1>4. CASE heartbeat \in Over /\ watcher \notin Over
  <2>1. main' = "await_watcher" /\ backend_stops' = 0
    BY <1>1, <1>4 DEF LeaveTry, EndWatcher
  <2>2. QED
    BY <1>1, <1>4, <2>1, SMT DEF Control, NothingLeft
<1>5. QED
  BY <1>2, <1>3, <1>4

LEMMA ControlStep ==
  ASSUME TypeOK, Control, Move
  PROVE  Control' /\ backend_stops' \in 0 .. 1
<1> USE DEF Live, Over, Cleanup, owner, run, tasks, worker_vars, connection
<1>1. CASE Leaves
  BY <1>1, ControlLeaves
<1>2. CASE Elsewhere
  BY <1>2 DEF Elsewhere, TypeOK, Control, NothingLeft
<1>3. CASE ReadsShutdown \/ LetsGo \/ MasterLost
  BY <1>3, MasterCloses, SMT DEF TypeOK, Control, NothingLeft
<1>4. CASE Connects \/ StartRaises \/ ConnectFails
  BY <1>4, SMT DEF Connects, StartRaises, ConnectFails, Control, NothingLeft
<1>5. CASE GotPong \/ GotRegistered
  BY <1>5, SMT DEF GotPong, GotRegistered, Control, NothingLeft
<1>6. CASE Executes \/ Flushes \/ \E m \in Results : RepliesWith(m)
  BY <1>6, SMT DEF Executes, Flushes, RepliesWith, GetsTask, Replies, Control, NothingLeft
<1>7. CASE HeartbeatJoined
  BY <1>7, SMT DEF HeartbeatJoined, EndWatcher, StopBackend, Control, NothingLeft
<1>8. CASE WatcherJoined
  BY <1>8, SMT DEF WatcherJoined, StopBackend, Control, NothingLeft
<1>9. CASE \E exc \in {"nothing", "error"} : BackendStopped(exc) \/ Closes(exc)
  BY <1>9 DEF BackendStopped, Closes, TypeOK, Control, NothingLeft
<1>10. CASE CancelledElsewhere
  BY <1>10, SMT DEF CancelledElsewhere, Cancelled, StopBackend, TypeOK, Control, NothingLeft
<1>11. CASE Beats
  <2>1. CASE HeartbeatSends \/ HeartbeatGoesOn \/ HeartbeatFails
    BY <2>1 DEF HeartbeatSends, HeartbeatGoesOn, HeartbeatFails, AfterWrite,
                TypeOK, Control, NothingLeft
  <2>2. CASE WatcherSends \/ WatcherGoesOn
    BY <2>2 DEF WatcherSends, WatcherGoesOn, AfterWrite, TypeOK, Control, NothingLeft
  <2>3. QED
    BY <1>11, <2>1, <2>2 DEF Beats
<1> HIDE DEF Live, Over, Cleanup, owner, run, tasks, worker_vars, connection
<1>12. CASE \/ ReadsPing \/ ReadsHeartbeat \/ ReadsResult \/ ReadsEnd \/ SendsTask \/ MonitorFails
            \/ \E accepted \in BOOLEAN : ReadsRegister(accepted)
            \/ Submit \/ SetShutdown \/ GotWorker \/ Ignores \/ UNCHANGED vars
  BY <1>2, <1>12, ElsewhereMoves
<1>13. QED
  BY <1>1, <1>3, <1>4, <1>5, <1>6, <1>7, <1>8, <1>9, <1>10, <1>11, <1>12, Sorted

-----------------------------------------------------------------------------
(* Wire: the handshake. *)

Handshake == {"connecting", "ping", "register"}

(* Before serve_tasks runs, only the coroutine itself and the master act. *)
LEMMA HandshakeMoves ==
  ASSUME TypeOK, Control, Move, main' \in Handshake
  PROVE  \/ Connects \/ GotPong
         \/ /\ UNCHANGED main
            /\ conn # "closed"
            /\ \/ ReadsPing \/ ReadsHeartbeat \/ ReadsResult \/ SendsTask \/ MonitorFails
               \/ \E accepted \in BOOLEAN : ReadsRegister(accepted)
               \/ ReadsShutdown \/ LetsGo \/ MasterLost
               \/ UNCHANGED <<main, connection, link>>
<1>1. ~(StartRaises \/ ConnectFails \/ GotRegistered)
  BY DEF StartRaises, ConnectFails, GotRegistered, Handshake
<1>2. ~(Ignores \/ Executes \/ Flushes \/ Leaves)
  <2>1. ~Leaves
    BY ControlLeaves DEF Handshake, Cleanup
  <2>2. QED
    BY <2>1 DEF Ignores, Executes, Flushes, Handshake, worker_vars, run
<1>3. ~(\E m \in Results : RepliesWith(m))
  BY DEF RepliesWith, Replies, Handshake
<1>4. ~(HeartbeatJoined \/ WatcherJoined \/ CancelledElsewhere)
  BY DEF HeartbeatJoined, WatcherJoined, CancelledElsewhere, Cancelled, EndWatcher,
         StopBackend, Handshake, Cleanup
<1>5. ~(\E exc \in {"nothing", "error"} : BackendStopped(exc) \/ Closes(exc))
  BY DEF BackendStopped, Closes, Handshake
<1>6. ~Beats
  <2>1. Beats => UNCHANGED main
    BY DEF Beats, HeartbeatSends, HeartbeatGoesOn, HeartbeatFails, WatcherSends,
           WatcherGoesOn, run
  <2>2. main \in Handshake => heartbeat = "none" /\ watcher = "none"
    BY DEF Control, Handshake
  <2>3. Beats => heartbeat # "none" \/ watcher # "none"
    BY DEF Beats, HeartbeatSends, HeartbeatGoesOn, HeartbeatFails, WatcherSends,
           WatcherGoesOn
  <2>4. QED
    BY <2>1, <2>2, <2>3
<1>7. main \in Handshake => conn # "closed"
  BY DEF Control, Handshake, Live
<1>8. CASE Submit \/ SetShutdown \/ GotWorker \/ UNCHANGED vars
  <2>1. UNCHANGED <<main, connection, link>>
    BY <1>8 DEF Submit, SetShutdown, GotWorker, vars, worker_vars, run, master_vars
  <2>2. QED
    BY <1>7, <2>1
<1>9. CASE ReadsEnd
  <2>1. conn = "closed" /\ UNCHANGED main
    BY <1>9 DEF ReadsEnd, worker_vars, run
  <2>2. QED
    BY <1>7, <2>1
<1>10. CASE \/ ReadsPing \/ ReadsHeartbeat \/ ReadsResult \/ SendsTask \/ MonitorFails
            \/ \E accepted \in BOOLEAN : ReadsRegister(accepted)
            \/ ReadsShutdown \/ LetsGo \/ MasterLost
  <2>1. UNCHANGED main
    BY <1>10, ElsewhereMoves, MasterCloses DEF Elsewhere
  <2>2. QED
    BY <1>7, <1>10, <2>1
<1>11. QED
  BY <1>1, <1>2, <1>3, <1>4, <1>5, <1>6, <1>8, <1>9, <1>10, Sorted

LEMMA WireStep ==
  ASSUME TypeOK, Control, Wire, Leaving, Move
  PROVE  Wire'
<1>1. CASE main' \notin Handshake
  BY <1>1 DEF Wire, Handshake
<1>2. CASE Connects
  BY <1>2 DEF Connects, Wire, master_vars
<1>3. CASE GotPong
  <2>1. inbox = <<"PONG">> /\ outbox = <<>>
    BY <1>3 DEF GotPong, Wire
  <2>2. inbox' = <<>> /\ main' = "register" /\ UNCHANGED <<conn, link>>
    BY <1>3, <2>1, Single DEF GotPong, master_vars
  <2>3. conn = "open" => link = "new"
    BY <1>3 DEF GotPong, Wire
  <2>4. conn = "open" => outbox' = <<"REGISTER">>
    <3>1. Append(<<>>, "REGISTER") = <<"REGISTER">>
      BY SMT
    <3>2. QED
      BY <1>3, <2>1, <3>1 DEF GotPong, Sent
  <2>5. conn # "open" => outbox' = <<>>
    BY <1>3, <2>1 DEF GotPong, Sent
  <2>6. QED
    BY <2>2, <2>3, <2>4, <2>5 DEF Wire
<1>4. CASE /\ UNCHANGED main
           /\ conn # "closed"
           /\ main \in Handshake
           /\ \/ ReadsPing \/ ReadsHeartbeat \/ ReadsResult \/ SendsTask \/ MonitorFails
              \/ \E accepted \in BOOLEAN : ReadsRegister(accepted)
              \/ ReadsShutdown \/ LetsGo \/ MasterLost
              \/ UNCHANGED <<main, connection, link>>
  <2>0. outbox \in {<<>>, <<"PING">>, <<"REGISTER">>}
    BY <1>4 DEF Wire, Handshake
  <2>1. outbox # <<>> => conn = "open"
    <3>1. outbox # <<>> => main # "connecting"
      BY DEF Wire
    <3>2. outbox # <<>> => conn \in {"open", "eof"}
      BY <1>4, <3>1 DEF Control, Handshake, Live
    <3>3. QED
      BY <3>2 DEF Leaving
  <2>2. ~ReadsHeartbeat /\ ~ReadsResult /\ ~ReadsShutdown
    BY <2>0, Single DEF ReadsHeartbeat, ReadsResult, ReadsShutdown, Reading, Results
  <2>3. CASE ReadsPing
    <3>1. outbox = <<"PING">> /\ conn = "open"
      BY <2>0, <2>1, <2>3, Single DEF ReadsPing, Reading
    <3>2. main = "ping" /\ inbox = <<>>
      BY <1>4, <3>1, Single DEF Wire, Handshake
    <3>3. Append(<<>>, "PONG") = <<"PONG">>
      BY SMT
    <3>4. /\ outbox' = <<>> /\ inbox' = <<"PONG">> /\ main' = "ping"
          /\ UNCHANGED <<conn, link>>
      BY <1>4, <2>3, <3>1, <3>2, <3>3, Single DEF ReadsPing, Answered, master_vars
    <3>5. QED
      BY <3>2, <3>4 DEF Wire
  <2>4. CASE \E accepted \in BOOLEAN : ReadsRegister(accepted)
    <3> PICK accepted \in BOOLEAN : ReadsRegister(accepted)
      BY <2>4
    <3> PICK m : m = IF accepted THEN "REGISTER_ACK" ELSE "ERROR"
      OBVIOUS
    <3>1. outbox = <<"REGISTER">> /\ conn = "open"
      BY <2>0, <2>1, Single DEF ReadsRegister, Reading
    <3>2. main = "register" /\ inbox = <<>>
      BY <1>4, <3>1, Single DEF Wire, Handshake
    <3>3. Append(<<>>, m) = <<m>>
      BY SMT
    <3>4. outbox' = <<>> /\ inbox' = <<m>> /\ main' = "register"
      BY <1>4, <3>1, <3>2, <3>3, Single DEF ReadsRegister, Answered
    <3>5. Head(inbox') \in {"REGISTER_ACK", "ERROR"} /\ inbox' # <<>>
      BY <3>4, Single
    <3>6. QED
      BY <3>4, <3>5 DEF Wire
  <2>5. CASE SendsTask
    <3>1. main = "register" /\ inbox # <<>> /\ outbox = <<>>
      BY <1>4, <2>5 DEF SendsTask, Wire, Handshake
    <3>2. inbox' # <<>> /\ Head(inbox') = Head(inbox)
      <4>1. inbox \in Seq(ToWorker) /\ "TASK" \in ToWorker
        BY DEF TypeOK, ToWorker
      <4>2. QED
        BY <2>5, <3>1, <4>1, Written DEF SendsTask
    <3>3. outbox' = <<>> /\ main' = "register"
      BY <1>4, <2>5, <3>1 DEF SendsTask
    <3>4. QED
      BY <3>1, <3>2, <3>3 DEF Wire
  <2>6. CASE LetsGo \/ MasterLost
    <3>1. /\ outbox' = <<>> /\ inbox' \in {inbox, <<>>}
          /\ conn = "open" => conn' = "eof"
          /\ conn # "open" => conn' = conn
          /\ conn = "open" \/ link = "linked"
      BY <2>6 DEF LetsGo, MasterLost, CloseConnection
    <3>2. main \in {"ping", "register"}
      BY <1>4, <3>1 DEF Control, Wire, Handshake
    <3>3. conn' = "eof"
      BY <1>4, <3>1, <3>2 DEF Control, Live
    <3>4. QED
      BY <1>4, <3>1, <3>2, <3>3 DEF Wire
  <2>7. CASE UNCHANGED <<main, connection, link>>
    BY <2>7 DEF Wire, connection
  <2>8. CASE MonitorFails
    <3>1. /\ link = "linked" /\ link' = "failed"
          /\ UNCHANGED <<main, conn, inbox, outbox>>
      BY <2>8 DEF MonitorFails, worker_vars, run, connection
    <3>2. QED
      BY <3>1 DEF Wire
  <2>9. QED
    BY <1>4, <2>2, <2>3, <2>4, <2>5, <2>6, <2>7, <2>8
<1>5. QED
  BY <1>1, <1>2, <1>3, <1>4, HandshakeMoves

-----------------------------------------------------------------------------
(* Owing: one task at a time, in one place. *)

(* A step that neither sends a task nor answers one, and adds neither a    *)
(* TASK nor a result to what is on the wire.                               *)
LEMMA OwingKept ==
  ASSUME Owing, UNCHANGED <<sent, answered>>,
         main' = "executing" => main = "executing",
         Once(inbox', {"TASK"}), Has(inbox', {"TASK"}) => Has(inbox, {"TASK"}),
         Once(outbox', Results), Has(outbox', Results) => Has(outbox, Results)
  PROVE  Owing'
BY DEF Owing

(* What the reader of a queue leaves of it. *)
LEMMA ReadInbox ==
  ASSUME TypeOK, Owing, inbox # <<>>
  PROVE  /\ Tail(inbox) \in Seq(ToWorker)
         /\ Once(Tail(inbox), {"TASK"})
         /\ Has(Tail(inbox), {"TASK"}) => Has(inbox, {"TASK"})
         /\ Head(inbox) = "TASK" => Has(inbox, {"TASK"}) /\ ~Has(Tail(inbox), {"TASK"})
<1>1. inbox \in Seq(ToWorker) /\ Once(inbox, {"TASK"})
  BY DEF TypeOK, Owing
<1>2. QED
  BY <1>1, Read

LEMMA ReadOutbox ==
  ASSUME TypeOK, Owing, outbox # <<>>
  PROVE  /\ Tail(outbox) \in Seq(ToMaster)
         /\ Once(Tail(outbox), Results)
         /\ Has(Tail(outbox), Results) => Has(outbox, Results)
         /\ Head(outbox) \in Results => Has(outbox, Results) /\ ~Has(Tail(outbox), Results)
<1>1. outbox \in Seq(ToMaster) /\ Once(outbox, Results)
  BY DEF TypeOK, Owing
<1>2. QED
  BY <1>1, Read

(* What writing a message other than a TASK or a result does. *)
LEMMA WriteInbox ==
  ASSUME TypeOK, Owing, NEW m \in ToWorker \ {"TASK"}
  PROVE  /\ Answered(m) \in Seq(ToWorker)
         /\ Once(Answered(m), {"TASK"})
         /\ Has(Answered(m), {"TASK"}) => Has(inbox, {"TASK"})
<1>1. inbox \in Seq(ToWorker) /\ Once(inbox, {"TASK"})
  BY DEF TypeOK, Owing
<1>2. Append(inbox, m) \in Seq(ToWorker)
  BY <1>1, SMT
<1>3. m \in ToWorker /\ m \notin {"TASK"}
  OBVIOUS
<1>4. Once(Append(inbox, m), {"TASK"}) /\ (Has(Append(inbox, m), {"TASK"}) => Has(inbox, {"TASK"}))
  BY <1>1, <1>3, WrittenMessages
<1>5. QED
  BY <1>1, <1>2, <1>4 DEF Answered

LEMMA WriteOutbox ==
  ASSUME TypeOK, Owing, NEW m \in ToMaster
  PROVE  /\ Sent(m) \in Seq(ToMaster)
         /\ m \notin Results => /\ Once(Sent(m), Results)
                                /\ Has(Sent(m), Results) => Has(outbox, Results)
         /\ ~Has(outbox, Results) => Once(Sent(m), Results)
<1>1. outbox \in Seq(ToMaster) /\ Once(outbox, Results)
  BY DEF TypeOK, Owing
<1>2. Append(outbox, m) \in Seq(ToMaster)
  BY <1>1, SMT
<1>3. /\ m \notin Results => /\ Once(Append(outbox, m), Results)
                             /\ Has(Append(outbox, m), Results) => Has(outbox, Results)
      /\ ~Has(outbox, Results) => Once(Append(outbox, m), Results)
  BY <1>1, WrittenMessages
<1>4. QED
  BY <1>1, <1>2, <1>3 DEF Sent

(* What a step does to the wire and to the tasks under way, other than     *)
(* sending a task, executing it and answering it.                          *)
Passes ==
  /\ inbox' \in Seq(ToWorker) /\ outbox' \in Seq(ToMaster)
  /\ UNCHANGED <<sent, answered>>
  /\ main' = "executing" => main = "executing"
  /\ Once(inbox', {"TASK"}) /\ (Has(inbox', {"TASK"}) => Has(inbox, {"TASK"}))
  /\ Once(outbox', Results) /\ (Has(outbox', Results) => Has(outbox, Results))

LEMMA WorkerPasses ==
  ASSUME TypeOK, Control, Wire, Owing,
         \/ Connects \/ StartRaises \/ ConnectFails \/ GotPong \/ GotRegistered
         \/ Ignores \/ Flushes \/ Leaves
         \/ HeartbeatJoined \/ WatcherJoined \/ CancelledElsewhere
         \/ \E exc \in {"nothing", "error"} : BackendStopped(exc) \/ Closes(exc)
         \/ Beats
  PROVE  Passes
<1>0. /\ inbox \in Seq(ToWorker) /\ outbox \in Seq(ToMaster)
      /\ Once(inbox, {"TASK"}) /\ Once(outbox, Results)
  BY DEF TypeOK, Owing
<1> USE DEF owner, run, tasks, worker_vars, connection, master_vars
<1>1. CASE Connects
  <2>1. "PING" \notin Results /\ "PING" \in ToMaster
    BY DEF Results, ToMaster
  <2>2. ~Has(<<"PING">>, Results) /\ Once(<<"PING">>, Results) /\ <<"PING">> \in Seq(ToMaster)
    BY <2>1, OneMessage, SMT
  <2>3. QED
    BY <1>0, <1>1, <2>2 DEF Connects, Passes
<1>2. CASE StartRaises \/ ConnectFails \/ Flushes
  BY <1>0, <1>2 DEF StartRaises, ConnectFails, Flushes, Passes
<1>3. CASE GotPong
  <2>1. "REGISTER" \in ToMaster /\ "REGISTER" \notin Results
    BY DEF Results, ToMaster
  <2>2. QED
    BY <1>0, <1>3, <2>1, ReadInbox, WriteOutbox DEF GotPong, Passes
<1>4. CASE GotRegistered \/ Ignores
  BY <1>0, <1>4, ReadInbox DEF GotRegistered, Ignores, Passes
<1>5. CASE Leaves
  <2>1. inbox' = inbox \/ (inbox # <<>> /\ inbox' = Tail(inbox))
    BY <1>5 DEF Leaves
  <2>2. UNCHANGED <<outbox, sent, answered>>
    BY <1>5 DEF Leaves
  <2>3. main' # "executing"
    BY <1>5, ControlLeaves DEF Cleanup
  <2>4. QED
    BY <1>0, <2>1, <2>2, <2>3, ReadInbox DEF Passes
<1>6. CASE HeartbeatJoined \/ WatcherJoined
  BY <1>0, <1>6 DEF HeartbeatJoined, WatcherJoined, EndWatcher, StopBackend, Passes
<1>7. CASE CancelledElsewhere
  <2>1. main' # "executing"
    BY <1>7 DEF CancelledElsewhere, Cancelled, Cleanup, StopBackend
  <2>2. UNCHANGED <<inbox, outbox, sent, answered>>
    BY <1>7 DEF CancelledElsewhere, Cancelled
  <2>3. QED
    BY <1>0, <2>1, <2>2 DEF Passes
<1>8. CASE \E exc \in {"nothing", "error"} : BackendStopped(exc) \/ Closes(exc)
  BY <1>0, <1>8 DEF BackendStopped, Closes, Passes
<1>9. CASE HeartbeatGoesOn \/ HeartbeatFails \/ WatcherGoesOn
  BY <1>0, <1>9 DEF HeartbeatGoesOn, HeartbeatFails, WatcherGoesOn, Passes
<1>10. CASE HeartbeatSends \/ WatcherSends
  <2>1. \A m \in {"HEARTBEAT", "SHUTDOWN"} : m \in ToMaster /\ m \notin Results
    BY DEF Results, ToMaster
  <2>2. \E m \in {"HEARTBEAT", "SHUTDOWN"} : outbox' = Sent(m)
    BY <1>10 DEF HeartbeatSends, WatcherSends
  <2>3. UNCHANGED <<main, inbox, sent, answered>>
    BY <1>10 DEF HeartbeatSends, WatcherSends
  <2>4. QED
    BY <1>0, <2>1, <2>2, <2>3, WriteOutbox DEF Passes
<1> HIDE DEF owner, run, tasks, worker_vars, connection, master_vars
<1>11. QED
  BY <1>1, <1>2, <1>3, <1>4, <1>5, <1>6, <1>7, <1>8, <1>9, <1>10 DEF Beats

LEMMA MasterPasses ==
  ASSUME TypeOK, Owing,
         \/ ReadsPing \/ ReadsHeartbeat \/ ReadsEnd \/ MonitorFails
         \/ \E accepted \in BOOLEAN : ReadsRegister(accepted)
         \/ ReadsShutdown \/ LetsGo \/ MasterLost
         \/ Submit \/ SetShutdown \/ GotWorker \/ UNCHANGED vars
  PROVE  Passes
<1>0. /\ inbox \in Seq(ToWorker) /\ outbox \in Seq(ToMaster)
      /\ Once(inbox, {"TASK"}) /\ Once(outbox, Results)
  BY DEF TypeOK, Owing
<1>1. {"PONG", "HEARTBEAT_ACK", "REGISTER_ACK", "ERROR", "SHUTDOWN_ACK"}
        \subseteq ToWorker \ {"TASK"}
  BY DEF ToWorker
<1>2. <<>> \in Seq(ToWorker) /\ <<>> \in Seq(ToMaster)
  BY SMT
<1>3. ASSUME \E m \in ToWorker \ {"TASK"} : inbox' = Answered(m),
             outbox' = <<>> \/ (outbox # <<>> /\ outbox' = Tail(outbox)),
             UNCHANGED <<main, sent, answered>>
      PROVE  Passes
  <2>1. /\ inbox' \in Seq(ToWorker) /\ Once(inbox', {"TASK"})
        /\ Has(inbox', {"TASK"}) => Has(inbox, {"TASK"})
    BY <1>3, WriteInbox
  <2>2. /\ outbox' \in Seq(ToMaster) /\ Once(outbox', Results)
        /\ Has(outbox', Results) => Has(outbox, Results)
    <3>1. CASE outbox' = <<>>
      <4>1. ~Has(outbox', Results) /\ Once(outbox', Results)
        BY <3>1, Emptied
      <4>2. QED
        BY <1>2, <3>1, <4>1
    <3>2. CASE outbox # <<>> /\ outbox' = Tail(outbox)
      BY <3>2, ReadOutbox
    <3>3. QED
      BY <1>3, <3>1, <3>2
  <2>3. QED
    BY <1>3, <2>1, <2>2 DEF Passes
<1>4. CASE ReadsPing \/ ReadsHeartbeat
  <2>1. \E m \in ToWorker \ {"TASK"} : inbox' = Answered(m)
    BY <1>1, <1>4 DEF ReadsPing, ReadsHeartbeat
  <2>2. outbox # <<>> /\ outbox' = Tail(outbox) /\ UNCHANGED <<main, sent, answered>>
    BY <1>4 DEF ReadsPing, ReadsHeartbeat, Reading, worker_vars, run, master_vars
  <2>3. QED
    BY <1>3, <2>1, <2>2
<1>5. CASE \E accepted \in BOOLEAN : ReadsRegister(accepted)
  <2>1. \E m \in ToWorker \ {"TASK"} : inbox' = Answered(m)
    BY <1>1, <1>5 DEF ReadsRegister
  <2>2. outbox # <<>> /\ outbox' = Tail(outbox) /\ UNCHANGED <<main, sent, answered>>
    BY <1>5 DEF ReadsRegister, Reading, worker_vars, run
  <2>3. QED
    BY <1>3, <2>1, <2>2
<1>6. CASE ReadsShutdown
  <2>1. \E m \in ToWorker \ {"TASK"} : inbox' = Answered(m)
    BY <1>1, <1>6 DEF ReadsShutdown
  <2>2. /\ outbox' = <<>> \/ (outbox # <<>> /\ outbox' = Tail(outbox))
        /\ UNCHANGED <<main, sent, answered>>
    BY <1>6 DEF ReadsShutdown, CloseConnection, Reading, worker_vars, run
  <2>3. QED
    BY <1>3, <2>1, <2>2
<1>7. CASE LetsGo \/ MasterLost
  <2>1. outbox' = <<>> /\ inbox' \in {inbox, <<>>} /\ UNCHANGED <<main, sent, answered>>
    BY <1>7 DEF LetsGo, MasterLost, CloseConnection, worker_vars, run
  <2>2. ~Has(outbox', Results) /\ Once(outbox', Results)
    BY <2>1, Emptied
  <2>3. Once(inbox', {"TASK"}) /\ (Has(inbox', {"TASK"}) => Has(inbox, {"TASK"}))
    <3>1. Once(<<>>, {"TASK"}) /\ ~Has(<<>>, {"TASK"})
      BY Emptied
    <3>2. QED
      BY <1>0, <2>1, <3>1
  <2>4. QED
    <3>1. inbox' \in Seq(ToWorker) /\ outbox' \in Seq(ToMaster)
      <4>1. CASE inbox' = inbox
        BY <1>0, <1>2, <2>1, <4>1, Zenon
      <4>2. CASE inbox' = <<>>
        BY <1>2, <2>1, <4>2, Zenon
      <4>3. QED
        BY <2>1, <4>1, <4>2
    <3>2. QED
      BY <2>1, <2>2, <2>3, <3>1 DEF Passes
<1>8. CASE ReadsEnd \/ MonitorFails \/ Submit \/ SetShutdown \/ GotWorker \/ UNCHANGED vars
  <2>1. UNCHANGED <<main, inbox, outbox, sent, answered>>
    BY <1>8 DEF ReadsEnd, MonitorFails, Submit, SetShutdown, GotWorker, vars, worker_vars,
                run, connection, master_vars
  <2>2. QED
    BY <1>0, <2>1 DEF Passes
<1>9. QED
  BY <1>4, <1>5, <1>6, <1>7, <1>8

(* The steps of a task: sent, taken up, answered, and the answer read. *)
LEMMA OwingStep ==
  ASSUME TypeOK, Control, Wire, Owing, Move
  PROVE  /\ Owing'
         /\ inbox' \in Seq(ToWorker) /\ outbox' \in Seq(ToMaster)
         /\ sent' # sent => sent' = sent + 1 /\ sent < submitted /\ submitted' = submitted
<1>0. /\ inbox \in Seq(ToWorker) /\ outbox \in Seq(ToMaster)
      /\ Once(inbox, {"TASK"}) /\ Once(outbox, Results)
      /\ sent \in Nat /\ answered \in Nat
  BY SMT DEF TypeOK, Owing
<1>1. CASE Passes
  BY <1>1, OwingKept DEF Passes
<1>2. CASE SendsTask
  <2>1. /\ sent = answered /\ sent' = sent + 1 /\ answered' = answered
        /\ inbox' = Append(inbox, "TASK") /\ outbox' = outbox /\ main' = main
        /\ sent < submitted /\ submitted' = submitted
    BY <1>0, <1>2, SMT DEF SendsTask, InFlight, Owing, worker_vars, run
  <2>2. ~Has(inbox, {"TASK"}) /\ main # "executing" /\ ~Has(outbox, Results)
    BY <1>0, <2>1, SMT DEF Owing
  <2>3. "TASK" \in ToWorker
    BY DEF ToWorker
  <2>4. Once(inbox', {"TASK"}) /\ inbox' \in Seq(ToWorker)
    BY <1>0, <2>1, <2>2, <2>3, WrittenMessages, SMT
  <2>5. QED
    BY <1>0, <2>1, <2>2, <2>4 DEF Owing
<1>3. CASE Executes
  <2>1. /\ inbox # <<>> /\ Head(inbox) = "TASK" /\ inbox' = Tail(inbox)
        /\ UNCHANGED <<outbox, sent, answered>>
    BY <1>3 DEF Executes, GetsTask, master_vars
  <2>2. /\ Has(inbox, {"TASK"}) /\ ~Has(inbox', {"TASK"}) /\ Once(inbox', {"TASK"})
        /\ inbox' \in Seq(ToWorker)
    BY <2>1, ReadInbox
  <2>3. QED
    BY <1>0, <2>1, <2>2 DEF Owing
<1>4. ASSUME NEW m \in Results, RepliesWith(m)
      PROVE  /\ Owing'
             /\ inbox' \in Seq(ToWorker) /\ outbox' \in Seq(ToMaster) /\ sent' = sent
  <2>1. outbox' = Sent(m) /\ UNCHANGED <<sent, answered>> /\ main' # "executing"
    BY <1>4 DEF RepliesWith, Replies, master_vars
  <2>2. m \in ToMaster
    BY <1>4 DEF ToMaster
  <2>3. CASE main = "executing" /\ UNCHANGED inbox
    <3>1. ~Has(outbox, Results) /\ ~Has(inbox, {"TASK"}) /\ sent = answered + 1
      BY <2>3 DEF Owing
    <3>2. Once(outbox', Results) /\ outbox' \in Seq(ToMaster)
      BY <2>1, <2>2, <3>1, WriteOutbox
    <3>3. QED
      BY <1>0, <2>1, <2>3, <3>1, <3>2 DEF Owing
  <2>4. CASE GetsTask
    <3>1. inbox # <<>> /\ Head(inbox) = "TASK" /\ inbox' = Tail(inbox)
      BY <2>4 DEF GetsTask
    <3>2. /\ Has(inbox, {"TASK"}) /\ ~Has(inbox', {"TASK"}) /\ Once(inbox', {"TASK"})
          /\ inbox' \in Seq(ToWorker)
      BY <3>1, ReadInbox
    <3>3. ~Has(outbox, Results) /\ sent = answered + 1
      BY <3>2 DEF Owing
    <3>4. Once(outbox', Results) /\ outbox' \in Seq(ToMaster)
      BY <2>1, <2>2, <3>3, WriteOutbox
    <3>5. QED
      BY <2>1, <3>2, <3>3, <3>4 DEF Owing
  <2>5. QED
    BY <1>4, <2>3, <2>4 DEF RepliesWith
<1>5. CASE ReadsResult
  <2>1. /\ outbox # <<>> /\ Head(outbox) \in Results /\ outbox' = Tail(outbox)
        /\ answered' = answered + 1 /\ UNCHANGED <<inbox, sent, main>>
    BY <1>5 DEF ReadsResult, Reading, worker_vars, run
  <2>2. /\ Has(outbox, Results) /\ ~Has(outbox', Results) /\ Once(outbox', Results)
        /\ outbox' \in Seq(ToMaster)
    BY <2>1, ReadOutbox
  <2>3. sent = answered + 1 /\ ~Has(inbox, {"TASK"}) /\ main # "executing"
    BY <2>2 DEF Owing
  <2>4. QED
    BY <1>0, <2>1, <2>2, <2>3 DEF Owing
<1>6. QED
  BY <1>1, <1>2, <1>3, <1>4, <1>5, Sorted, WorkerPasses, MasterPasses

-----------------------------------------------------------------------------
(* Leaving: the end of the connection, and of run_worker. *)

(* A master that let the worker go, or is lost, stays so. *)
LEMMA LetGoStays ==
  ASSUME TypeOK, LetGo, Move
  PROVE  LetGo'
<1>1. link \in {"gone", "lost"} /\ link # "linked"
  BY DEF LetGo
<1>2. /\ ~ReadsPing /\ ~ReadsHeartbeat /\ ~ReadsResult /\ ~ReadsEnd /\ ~SendsTask /\ ~MonitorFails
      /\ ~ReadsShutdown /\ ~LetsGo
      /\ ~(\E accepted \in BOOLEAN : ReadsRegister(accepted))
  BY <1>1 DEF ReadsPing, ReadsHeartbeat, ReadsResult, ReadsEnd, SendsTask, MonitorFails, ReadsShutdown,
              LetsGo, ReadsRegister, Reading
<1>3. ASSUME UNCHANGED <<link, sent, answered>> PROVE LetGo'
  BY <1>3 DEF LetGo, InFlight
<1>4. CASE MasterLost
  BY <1>4 DEF MasterLost, CloseConnection, LetGo
<1>5. CASE \/ Connects \/ StartRaises \/ ConnectFails \/ GotPong \/ GotRegistered
           \/ Ignores \/ Executes \/ Flushes \/ Leaves
           \/ \E m \in Results : RepliesWith(m)
  BY <1>3, <1>5 DEF Connects, StartRaises, ConnectFails, GotPong, GotRegistered,
                    Ignores, Executes, Flushes, Leaves, RepliesWith, master_vars
<1>6. CASE \/ HeartbeatJoined \/ WatcherJoined \/ CancelledElsewhere
           \/ \E exc \in {"nothing", "error"} : BackendStopped(exc) \/ Closes(exc)
  BY <1>3, <1>6 DEF HeartbeatJoined, WatcherJoined, CancelledElsewhere, Cancelled,
                    BackendStopped, Closes, master_vars
<1>7. CASE Beats
  BY <1>3, <1>7 DEF Beats, HeartbeatSends, HeartbeatGoesOn, HeartbeatFails,
                    WatcherSends, WatcherGoesOn, master_vars
<1>8. CASE Submit \/ SetShutdown \/ GotWorker \/ UNCHANGED vars
  BY <1>3, <1>8 DEF Submit, SetShutdown, GotWorker, vars, master_vars
<1>9. QED
  BY <1>2, <1>4, <1>5, <1>6, <1>7, <1>8, Sorted

(* How the connection comes to its end of file. *)
LEMMA EofStep ==
  ASSUME TypeOK, Control, Leaving, Move, conn' = "eof"
  PROVE  outbox' = <<>> /\ LetGo'
<1> USE DEF owner, run, tasks, worker_vars, connection, master_vars
<1>1. CASE ReadsShutdown \/ LetsGo \/ MasterLost
  <2>1. CASE UNCHANGED conn
    <3>1. outbox = <<>> /\ LetGo
      BY <2>1 DEF Leaving
    <3>2. outbox' = <<>>
      BY <1>1, <2>1, <3>1 DEF ReadsShutdown, LetsGo, MasterLost, CloseConnection, Reading
    <3>3. QED
      BY <3>1, <3>2, LetGoStays
  <2>2. CASE ~UNCHANGED conn
    BY <1>1, <2>2 DEF ReadsShutdown, LetsGo, MasterLost, CloseConnection, LetGo, InFlight
  <2>3. QED
    BY <2>1, <2>2
<1>2. CASE ~(ReadsShutdown \/ LetsGo \/ MasterLost)
  <2>1. /\ ~Connects /\ ~StartRaises /\ ~ConnectFails
        /\ ~(\E exc \in {"nothing", "error"} : Closes(exc))
    BY DEF Connects, StartRaises, ConnectFails, Closes, Control
  <2>2. CASE \/ GotPong \/ GotRegistered \/ Executes \/ Flushes \/ Leaves
             \/ \E m \in Results : RepliesWith(m)
    <3>1. UNCHANGED conn
      BY <2>2 DEF GotPong, GotRegistered, Executes, Flushes, Leaves, RepliesWith
    <3>2. outbox = <<>> /\ LetGo
      BY <3>1 DEF Leaving
    <3>3. outbox' = <<>>
      BY <2>2, <3>1, <3>2 DEF GotPong, GotRegistered, Executes, Flushes, Leaves,
                              RepliesWith, Replies, Sent
    <3>4. QED
      BY <3>2, <3>3, LetGoStays
  <2>3. CASE \/ HeartbeatJoined \/ WatcherJoined \/ CancelledElsewhere
             \/ \E exc \in {"nothing", "error"} : BackendStopped(exc)
    <3>1. UNCHANGED <<conn, outbox>>
      BY <2>3 DEF HeartbeatJoined, WatcherJoined, CancelledElsewhere, Cancelled, BackendStopped
    <3>2. QED
      BY <3>1, LetGoStays DEF Leaving
  <2>4. CASE Beats
    <3>1. UNCHANGED conn
      BY <2>4 DEF Beats, HeartbeatSends, HeartbeatGoesOn, HeartbeatFails,
                  WatcherSends, WatcherGoesOn
    <3>2. outbox = <<>> /\ LetGo
      BY <3>1 DEF Leaving
    <3>3. outbox' = <<>>
      BY <2>4, <3>1, <3>2 DEF Beats, HeartbeatSends, HeartbeatGoesOn, HeartbeatFails,
                              WatcherSends, WatcherGoesOn, Sent
    <3>4. QED
      BY <3>2, <3>3, LetGoStays
  <2>5. CASE \/ ReadsPing \/ ReadsHeartbeat \/ ReadsResult \/ ReadsEnd \/ SendsTask \/ MonitorFails
             \/ \E accepted \in BOOLEAN : ReadsRegister(accepted)
             \/ Submit \/ SetShutdown \/ GotWorker \/ Ignores \/ UNCHANGED vars
    <3>1. UNCHANGED conn
      BY <2>5, ElsewhereMoves DEF Elsewhere
    <3>2. outbox = <<>> /\ LetGo
      BY <3>1 DEF Leaving
    <3>3. outbox' = <<>>
      BY <2>5, <3>2 DEF ReadsPing, ReadsHeartbeat, ReadsResult, ReadsEnd, SendsTask, MonitorFails,
                        ReadsRegister, Reading, Submit, SetShutdown, GotWorker, Ignores, vars
    <3>4. QED
      BY <3>2, <3>3, LetGoStays
  <2> HIDE DEF owner, run, tasks, worker_vars, connection, master_vars
  <2>6. QED
    BY <1>2, <2>1, <2>2, <2>3, <2>4, <2>5, Sorted
<1>3. QED
  BY <1>1, <1>2

(* run_worker ends without an exception only after it read the end of file *)
(* in serve_tasks.                                                         *)
LEMMA RaisedStep ==
  ASSUME TypeOK, Control, Leaving, Move,
         main' \in Cleanup \cup {"ended"}, raised' = "nothing"
  PROVE  LetGo
<1> USE DEF owner, run, tasks, worker_vars, connection, master_vars
<1>1. CASE Leaves
  <2>1. conn = "eof"
    BY <1>1 DEF Leaves, LeaveTry
  <2>2. QED
    BY <2>1 DEF Leaving
<1>2. ASSUME main \in Cleanup \cup {"ended"}, raised = "nothing" PROVE LetGo
  BY <1>2 DEF Leaving
<1>3. ~StartRaises /\ ~ConnectFails
  BY DEF StartRaises, ConnectFails
<1>4. /\ ~Connects /\ ~GotPong /\ ~GotRegistered /\ ~Ignores /\ ~Executes /\ ~Flushes
      /\ ~(\E m \in Results : RepliesWith(m))
  BY DEF Connects, GotPong, GotRegistered, Ignores, Executes, Flushes, RepliesWith, Replies,
         Cleanup
<1>5. CASE HeartbeatJoined \/ WatcherJoined
  BY <1>2, <1>5 DEF HeartbeatJoined, WatcherJoined, Cleanup
<1>6. CASE \E exc \in {"nothing", "error"} : BackendStopped(exc) \/ Closes(exc)
  BY <1>2, <1>6 DEF BackendStopped, Closes, Cleanup
<1>7. CASE CancelledElsewhere
  BY <1>2, <1>7 DEF CancelledElsewhere, Cancelled, Cleanup
<1>8. CASE Beats
  BY <1>2, <1>8 DEF Beats, HeartbeatSends, HeartbeatGoesOn, HeartbeatFails,
                    WatcherSends, WatcherGoesOn
<1>9. CASE ReadsShutdown \/ LetsGo \/ MasterLost
  BY <1>2, <1>9, MasterCloses
<1>10. CASE Elsewhere
  BY <1>2, <1>10 DEF Elsewhere
<1> HIDE DEF owner, run, tasks, worker_vars, connection, master_vars
<1>11. QED
  BY <1>1, <1>3, <1>4, <1>5, <1>6, <1>7, <1>8, <1>9, <1>10, Sorted, ElsewhereMoves

LEMMA LeavingStep ==
  ASSUME TypeOK, Control, Leaving, Move
  PROVE  Leaving'
<1>1. conn' = "eof" => outbox' = <<>> /\ LetGo'
  BY EofStep
<1>2. main' \in Cleanup \cup {"ended"} /\ raised' = "nothing" => LetGo'
  BY RaisedStep, LetGoStays
<1>3. QED
  BY <1>1, <1>2 DEF Leaving, Cleanup

-----------------------------------------------------------------------------
(* The types, and the owner. *)

LEMMA OwnerStep ==
  ASSUME TypeOK, Owner, RunNext
  PROVE  /\ Owner'
         /\ UNCHANGED <<alone, direct>>
         /\ submitted' \in submitted .. MaxTasks
<1> USE DEF owner, worker_vars, master_vars, vars
<1>1. Next \/ Cancelled \/ SetShutdown \/ UNCHANGED vars =>
        UNCHANGED <<alone, direct, submitted>>
  <2>1. RunWorker \/ Cancelled => UNCHANGED <<alone, direct, submitted>>
    <3>1. RunWorker => UNCHANGED <<alone, direct, submitted>>
      BY DEF RunWorker, Connects, StartRaises, ConnectFails, GotPong, GotRegistered,
             ReadsEOF, Ignores, ExecutesDirectly, Executed, Executes, ExecuteRaises,
             Flushed, HeartbeatJoined, WatcherJoined, BackendStopped, Closes
    <3>2. QED
      BY <3>1 DEF Cancelled
  <2>2. HeartbeatSends \/ HeartbeatGoesOn \/ HeartbeatFails \/ Watcher =>
          UNCHANGED <<alone, direct, submitted>>
    BY DEF HeartbeatSends, HeartbeatGoesOn, HeartbeatFails, Watcher, WatcherSends,
           WatcherGoesOn
  <2>3. Handler \/ MonitorFails \/ LetsGo \/ SendsTask \/ MasterLost =>
          UNCHANGED <<alone, direct, submitted>>
    BY DEF Handler, ReadsPing, ReadsRegister, ReadsHeartbeat, ReadsShutdown, ReadsResult,
           ReadsEnd, MonitorFails, LetsGo, SendsTask, MasterLost
  <2>4. QED
    BY <2>1, <2>2, <2>3 DEF Next, SetShutdown
<1>2. Submit => /\ UNCHANGED <<alone, direct>>
                /\ submitted < MaxTasks /\ submitted' = submitted + 1
  BY DEF Submit
<1>3. submitted \in 0 .. MaxTasks /\ MaxTasks \in Nat
  BY WorkerAssumption DEF TypeOK
<1>4. CASE Next /\ UNCHANGED client
  BY <1>1, <1>3, <1>4, SMT DEF Owner
<1>5. CASE GotWorker
  BY <1>3, <1>5, SMT DEF GotWorker, Owner
<1>6. CASE NextStage
  BY <1>2, <1>3, <1>6, SMT DEF NextStage, Owner
<1>7. CASE JobEnds \/ Interrupt
  BY <1>1, <1>3, <1>7, SMT DEF JobEnds, Interrupt, TakeDown, Owner
<1>8. CASE Joined
  BY <1>1, <1>3, <1>8, SMT DEF Joined, Owner
<1>9. CASE Environment
  <2>1. client # "waiting_worker" /\ client' = client
    BY <1>9 DEF Environment, Owner
  <2>2. Owner'
    BY <2>1 DEF Owner
  <2>3. UNCHANGED <<alone, direct>> /\ submitted' \in submitted .. MaxTasks
    <3>1. CASE Submit
      BY <1>2, <1>3, <3>1, SMT
    <3>2. CASE SetShutdown \/ Cancelled
      <4>1. UNCHANGED <<alone, direct>> /\ submitted' = submitted
        BY <1>1, <3>2
      <4>2. QED
        BY <1>3, <4>1, SMT
    <3>3. Submit \/ SetShutdown \/ Cancelled
      BY <1>9 DEF Environment
    <3>4. QED
      BY <3>1, <3>2, <3>3, Zenon
  <2>4. QED
    BY <2>2, <2>3
<1>10. QED
  BY <1>4, <1>5, <1>6, <1>7, <1>8, <1>9 DEF RunNext

LEMMA AnsweredStep ==
  ASSUME TypeOK, Control, Wire, Owing, Move
  PROVE  answered' \in {answered, answered + 1}
<1>1. Passes => answered' = answered
  BY DEF Passes
<1>2. Executes \/ SendsTask => answered' = answered
  BY DEF Executes, SendsTask, master_vars
<1>3. (\E m \in Results : RepliesWith(m)) => answered' = answered
  BY DEF RepliesWith, master_vars
<1>4. ReadsResult => answered' = answered + 1
  BY DEF ReadsResult
<1>5. QED
  BY <1>1, <1>2, <1>3, <1>4, Sorted, WorkerPasses, MasterPasses

LEMMA StateStep ==
  ASSUME TypeOK, Control, Move, MaxCancels \in Nat
  PROVE  /\ main' \in {"connecting", "ping", "register", "serving", "executing",
                       "replying", "ended"} \cup Cleanup
         /\ raised' \in {"nothing", "error", "cancelled"}
         /\ cancels' \in 0 .. MaxCancels
         /\ heartbeat' \in {"none", "waiting", "sending", "ended", "cancelled"}
         /\ watcher' \in {"none", "waiting", "sending", "ended"}
         /\ shutdown_event' \in {"none", "clear", "set"}
         /\ conn' \in {"none", "open", "eof", "closed"}
         /\ link' \in {"new", "linked", "failed", "refused", "gone", "lost"}
         /\ draining' \in BOOLEAN
<1> USE DEF TypeOK, Cleanup, owner, run, tasks, worker_vars, connection, master_vars
<1>1. CASE Connects \/ StartRaises \/ ConnectFails
  BY <1>1 DEF Connects, StartRaises, ConnectFails
<1>2. CASE GotPong \/ GotRegistered \/ Ignores
  BY <1>2 DEF GotPong, GotRegistered, Ignores
<1>3. CASE Executes \/ Flushes \/ \E m \in Results : RepliesWith(m)
  BY <1>3, SMT DEF Executes, Flushes, RepliesWith, Replies
<1>4. CASE Leaves
  <2>1. main' \in Cleanup
    BY <1>4, ControlLeaves
  <2>2. UNCHANGED <<shutdown_event, heartbeat, watcher, conn, link, draining>>
    BY <1>4 DEF Leaves
  <2>3. raised' \in {"nothing", "error", "cancelled"}
    BY <1>4 DEF Leaves, LeaveTry
  <2>4. cancels' \in 0 .. MaxCancels
    BY <1>4, SMT DEF Leaves
  <2>5. QED
    BY <2>1, <2>2, <2>3, <2>4, SMT
<1>5. CASE HeartbeatJoined \/ WatcherJoined
  BY <1>5, SMT DEF HeartbeatJoined, WatcherJoined, EndWatcher, StopBackend
<1>6. CASE CancelledElsewhere
  BY <1>6, SMT DEF CancelledElsewhere, Cancelled, StopBackend
<1>7. CASE \E exc \in {"nothing", "error"} : BackendStopped(exc) \/ Closes(exc)
  BY <1>7, SMT DEF BackendStopped, Closes
<1>8. CASE Beats
  BY <1>8 DEF Beats, HeartbeatSends, HeartbeatGoesOn, HeartbeatFails, WatcherSends,
              WatcherGoesOn, AfterWrite
<1>9. CASE ReadsPing \/ ReadsHeartbeat \/ ReadsResult \/ ReadsEnd \/ SendsTask \/ MonitorFails
  BY <1>9, SMT DEF ReadsPing, ReadsHeartbeat, ReadsResult, ReadsEnd, SendsTask, MonitorFails
<1>10. CASE \E accepted \in BOOLEAN : ReadsRegister(accepted)
  BY <1>10, SMT DEF ReadsRegister
<1>11. CASE ReadsShutdown \/ LetsGo \/ MasterLost
  <2>1. draining' \in BOOLEAN
    BY <1>11 DEF ReadsShutdown, LetsGo, MasterLost
  <2>2. UNCHANGED <<main, raised, cancels, heartbeat, watcher, shutdown_event>>
    BY <1>11 DEF ReadsShutdown, LetsGo, MasterLost
  <2>3. /\ conn' \in {"none", "open", "eof", "closed"}
        /\ link' \in {"new", "linked", "failed", "refused", "gone", "lost"}
    BY <1>11 DEF ReadsShutdown, LetsGo, MasterLost, CloseConnection
  <2>4. QED
    BY <2>1, <2>2, <2>3, SMT
<1>12. CASE Submit \/ SetShutdown \/ GotWorker \/ UNCHANGED vars
  BY <1>12, SMT DEF Submit, SetShutdown, GotWorker, vars
<1> HIDE DEF TypeOK, Cleanup, owner, run, tasks, worker_vars, connection, master_vars
<1>13. QED
  BY <1>1, <1>2, <1>3, <1>4, <1>5, <1>6, <1>7, <1>8, <1>9, <1>10, <1>11, <1>12, Sorted

LEMMA TypeStep ==
  ASSUME IInv, RunNext
  PROVE  TypeOK'
<1>0. Move /\ TypeOK /\ Control /\ Wire /\ Owing /\ Owner
  BY Moves DEF IInv
<1>1. UNCHANGED <<alone, direct>> /\ submitted' \in submitted .. MaxTasks
  BY <1>0, OwnerStep
<1>2. backend_stops' \in 0 .. 1
  BY <1>0, ControlStep
<1>3. /\ Owing' /\ inbox' \in Seq(ToWorker) /\ outbox' \in Seq(ToMaster)
      /\ sent' # sent => sent' = sent + 1 /\ sent < submitted /\ submitted' = submitted
  BY <1>0, OwingStep
<1>4. submitted \in 0 .. MaxTasks /\ sent \in 0 .. submitted /\ answered \in 0 .. sent
      /\ MaxTasks \in Nat /\ MaxCancels \in Nat
  BY <1>0, WorkerAssumption DEF TypeOK
<1>5. sent' \in 0 .. submitted' /\ submitted' \in 0 .. MaxTasks
  BY <1>1, <1>3, <1>4, SMT
<1>6. answered' \in 0 .. sent'
  <2>1. answered' \in {answered, answered + 1}
    BY <1>0, AnsweredStep
  <2>2. sent' = answered' \/ sent' = answered' + 1
    BY <1>3 DEF Owing
  <2>3. QED
    <3>1. answered' \in Nat /\ sent' \in Nat
      BY <1>4, <1>5, <2>1, SMT
    <3>2. \A a, b \in Nat : b = a \/ b = a + 1 => a \in 0 .. b
      BY SMT
    <3>3. QED
      BY <2>2, <3>1, <3>2
<1>7. /\ main' \in {"connecting", "ping", "register", "serving", "executing",
                    "replying", "ended"} \cup Cleanup
      /\ raised' \in {"nothing", "error", "cancelled"}
      /\ cancels' \in 0 .. MaxCancels
      /\ heartbeat' \in {"none", "waiting", "sending", "ended", "cancelled"}
      /\ watcher' \in {"none", "waiting", "sending", "ended"}
      /\ shutdown_event' \in {"none", "clear", "set"}
      /\ conn' \in {"none", "open", "eof", "closed"}
      /\ link' \in {"new", "linked", "failed", "refused", "gone", "lost"}
      /\ draining' \in BOOLEAN
  BY <1>0, <1>4, StateStep
<1>8. alone' \in BOOLEAN /\ direct' \in BOOLEAN
  BY <1>0, <1>1 DEF TypeOK
<1>9. QED
  BY <1>2, <1>3, <1>5, <1>6, <1>7, <1>8 DEF TypeOK

-----------------------------------------------------------------------------
LEMMA InvInit ==
  ASSUME RunInit
  PROVE  IInv
<1> USE DEF RunInit, Init
<1>1. <<>> \in Seq(ToWorker) /\ <<>> \in Seq(ToMaster)
  BY SMT
<1>2. TypeOK
  <2>1. alone \in BOOLEAN /\ direct \in BOOLEAN /\ draining \in BOOLEAN
    OBVIOUS
  <2>2. /\ cancels \in 0 .. MaxCancels /\ submitted \in 0 .. MaxTasks
        /\ sent \in 0 .. submitted /\ answered \in 0 .. sent /\ backend_stops \in 0 .. 1
    BY WorkerAssumption, SMT
  <2>3. QED
    BY <1>1, <2>1, <2>2 DEF TypeOK
<1>3. Control /\ Wire
  BY DEF Control, Wire, NothingLeft
<1>4. Owing
  <2>1. /\ ~Has(inbox, {"TASK"}) /\ ~Has(outbox, Results)
        /\ Once(inbox, {"TASK"}) /\ Once(outbox, Results)
    BY Emptied
  <2>2. QED
    BY <2>1 DEF Owing
<1>5. Leaving
  BY DEF Leaving, Cleanup
<1>6. Owner
  BY DEF Owner
<1>7. QED
  BY <1>2, <1>3, <1>4, <1>5, <1>6 DEF IInv

(* Where a worker, its connection and its master stand, whatever pydc run, *)
(* the worker's owner and the faults do: the inductive invariant.  With it *)
(* the types hold: no more results are read than tasks were sent, and no   *)
(* more tasks sent than submitted; at most one task is under way at a time *)
(* and it is in one place.                                                 *)
THEOREM WorkerInvariant == RunSpec => []IInv
<1>1. RunInit => IInv
  BY InvInit
<1>2. IInv /\ [RunNext]_run_vars => IInv'
  <2>1. ASSUME IInv, RunNext PROVE IInv'
    <3>1. TypeOK /\ Control /\ Wire /\ Owing /\ Leaving /\ Owner /\ Move
      BY <2>1, Moves DEF IInv
    <3>2. TypeOK'
      BY <2>1, TypeStep
    <3>3. Control'
      BY <3>1, ControlStep
    <3>4. Wire'
      BY <3>1, WireStep
    <3>5. Owing'
      BY <3>1, OwingStep
    <3>6. Leaving'
      BY <3>1, LeavingStep
    <3>7. Owner'
      BY <2>1, <3>1, OwnerStep
    <3>8. QED
      BY <3>2, <3>3, <3>4, <3>5, <3>6, <3>7 DEF IInv
  <2>2. ASSUME IInv, UNCHANGED run_vars PROVE IInv'
    <3>1. Move /\ TypeOK /\ Control /\ Wire /\ Owing /\ Leaving
      BY <2>2 DEF Move, IInv, run_vars
    <3>2. UNCHANGED vars /\ UNCHANGED client
      BY <2>2 DEF run_vars
    <3>3. Control' /\ Wire' /\ Owing' /\ Leaving'
      BY <3>1, ControlStep, WireStep, OwingStep, LeavingStep
    <3>4. TypeOK'
      BY <3>1, <3>2, SMT
         DEF TypeOK, vars, worker_vars, owner, run, tasks, connection, master_vars
    <3>5. Owner'
      BY <2>2, <3>2 DEF IInv, Owner, vars, worker_vars, owner, master_vars
    <3>6. QED
      BY <3>3, <3>4, <3>5 DEF IInv
  <2>3. QED
    BY <2>1, <2>2
<1>3. QED
  BY <1>1, <1>2, PTL DEF RunSpec

(* send_request takes the next message for its reply: the first message a  *)
(* worker finds during the handshake is the answer to what it asked.       *)
THEOREM HandshakeInOrderHolds == RunSpec => []HandshakeInOrder
<1>1. IInv => HandshakeInOrder
  <2> SUFFICES ASSUME Wire PROVE HandshakeInOrder
    BY DEF IInv
  <2>1. main = "ping" /\ inbox # <<>> => inbox = <<"PONG">>
    BY DEF Wire
  <2>2. QED
    BY <2>1, Single DEF Wire, HandshakeInOrder
<1>2. QED
  BY <1>1, WorkerInvariant, PTL

(* However run_worker ends, and wherever it is cancelled, nothing of it is *)
(* left running, but for what a cancellation of its cleanup skips.         *)
THEOREM NothingLeftHolds == RunSpec => []NothingLeft
<1>1. IInv => NothingLeft
  BY DEF IInv, Control
<1>2. QED
  BY <1>1, WorkerInvariant, PTL

(* A worker that ends without an exception has answered every task it was  *)
(* sent, or its master is lost.                                            *)
THEOREM GracefulExitHolds == RunSpec => []GracefulExit
<1>1. IInv => GracefulExit
  BY DEF IInv, Leaving, LetGo, GracefulExit
<1>2. QED
  BY <1>1, WorkerInvariant, PTL

=============================================================================
