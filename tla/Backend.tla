------------------------------ MODULE Backend -------------------------------
(***************************************************************************)
(* MultiprocessingBackend of worker/backend.py: calls of execute, the      *)
(* semaphore that limits them, the process pool, the metrics, and start    *)
(* and stop, which give the backend one lifetime after another.            *)
(*                                                                         *)
(* Each call keeps the semaphore object it began with, while the pool and  *)
(* the metrics are looked up again each time they are used: a call that    *)
(* outlives its lifetime meets those of the next one.  The semaphore       *)
(* (asyncio, first come first served) and the pool (concurrent.futures)    *)
(* are external.  With max_in_flight = None there is no semaphore; that is *)
(* the case of a limit no number of calls reaches.                         *)
(***************************************************************************)
EXTENDS Integers, Sequences, FiniteSets

CONSTANTS
  Calls,          (* the calls of execute *)
  max_in_flight,  (* permits of a semaphore *)
  MaxLives        (* bound: calls of start *)

ASSUME BackendAssumption ==
  /\ max_in_flight \in Nat \ {0}
  /\ MaxLives \in Nat \ {0}

VARIABLES
  life,     (* calls of start so far *)
  _pool,    (* the lifetime whose pool self._pool is, or 0 for None *)
  broken,   (* lifetimes whose pool is broken *)
  free,     (* permits left in the semaphore of each lifetime *)
  queue,    (* the calls that wait for one *)
  call,     (* the calls of execute *)
  _metrics  (* the BackendMetrics of the current lifetime *)

vars == <<life, _pool, broken, free, queue, call, _metrics>>

Lives == 1 .. MaxLives
NoMetrics == [submitted |-> 0, running |-> 0, completed |-> 0, failed |-> 0,
              backend_errors |-> 0]
Idle == [pc |-> "idle", born |-> 0, pool |-> 0, ended |-> 0]
InPool == {"submitted", "executing"}
Holding == {"granted"} \cup InPool

TypeOK ==
  /\ life \in 0 .. MaxLives
  /\ _pool \in {0, life}
  /\ broken \subseteq Lives
  /\ free \in [Lives -> 0 .. max_in_flight]
  /\ queue \in [Lives -> Seq(Calls)]
  /\ call \in [Calls -> [pc : {"idle", "waiting", "ended"} \cup Holding,
                         born : 0 .. life, pool : 0 .. life, ended : 0 .. life]]
  /\ _metrics \in [DOMAIN NoMetrics -> Int]

Init ==
  /\ life = 0
  /\ _pool = 0
  /\ broken = {}
  /\ free = [l \in Lives |-> 0]
  /\ queue = [l \in Lives |-> <<>>]
  /\ call = [c \in Calls |-> Idle]
  /\ _metrics = NoMetrics

-----------------------------------------------------------------------------
(* A new pool, a new semaphore, new metrics. *)
start ==
  /\ _pool = 0
  /\ life < MaxLives
  /\ life' = life + 1
  /\ _pool' = life + 1
  /\ free' = [free EXCEPT ![life + 1] = max_in_flight]
  /\ _metrics' = NoMetrics
  /\ UNCHANGED <<broken, queue, call>>

(* stop drops the pool and the semaphore.  The shutdown of the pool runs   *)
(* in a thread: it cancels what is queued there, and what executes ends by *)
(* itself.                                                                 *)
stop ==
  /\ _pool # 0
  /\ _pool' = 0
  /\ UNCHANGED <<life, broken, free, queue, call, _metrics>>

(* A child process died: the pool takes no more work and fails what it has. *)
PoolBreaks(l) ==
  /\ l \notin broken
  /\ \E c \in Calls : call[c].pc = "executing" /\ call[c].pool = l
  /\ broken' = broken \cup {l}
  /\ UNCHANGED <<life, _pool, free, queue, call, _metrics>>

-----------------------------------------------------------------------------
(* Mutant: the pool is not looked at again after the wait for the permit. *)
CanSubmit_Unchecked == _pool \notin broken

(* _submit: the pool is there and takes the task. *)
CanSubmit == _pool # 0 /\ _pool \notin broken

Acquired(l) == [free EXCEPT ![l] = @ - 1]

(* Mutant: the permit is not released. *)
Release_Leaks(c, ended) ==
  /\ call' = [call EXCEPT ![c] = ended]
  /\ UNCHANGED <<free, queue>>

(* The end of the async with block of c: the permit goes to the first      *)
(* waiter, or back to the semaphore.                                       *)
Release(c, ended) ==
  LET l == call[c].born
  IN IF queue[l] = <<>>
     THEN /\ call' = [call EXCEPT ![c] = ended]
          /\ free' = [free EXCEPT ![l] = @ + 1]
          /\ UNCHANGED queue
     ELSE /\ call' = [call EXCEPT ![c] = ended,
                                  ![Head(queue[l])].pc = "granted"]
          /\ queue' = [queue EXCEPT ![l] = Tail(@)]
          /\ UNCHANGED free

Ended(c) == [call[c] EXCEPT !.pc = "ended", !.ended = life]

(* Mutant: running is decremented on a normal return only. *)
Counted_Stuck(field) ==
  IF field \in {"completed", "failed"}
  THEN [_metrics EXCEPT !.running = @ - 1, ![field] = @ + 1]
  ELSE [_metrics EXCEPT ![field] = @ + 1]

(* The finally of _run_and_record, and the counter of the outcome. *)
Counted(field) ==
  [_metrics EXCEPT !.running = @ - 1, ![field] = @ + 1]

(* execute without a pool raises before it counts anything. *)
execute_Rejected(c) ==
  /\ call[c].pc = "idle"
  /\ _pool = 0
  /\ call' = [call EXCEPT ![c] = Ended(c)]
  /\ UNCHANGED <<life, _pool, broken, free, queue, _metrics>>

InPoolNow(c) == [call[c] EXCEPT !.pc = "submitted", !.pool = _pool]

(* The permit is there: execute goes on to _submit without a suspension. *)
execute_Submits(c) ==
  /\ call[c].pc = "idle"
  /\ _pool # 0
  /\ CanSubmit
  /\ free[_pool] > 0
  /\ free' = Acquired(_pool)
  /\ call' = [call EXCEPT ![c] = [InPoolNow(c) EXCEPT !.born = _pool]]
  /\ _metrics' = [_metrics EXCEPT !.submitted = @ + 1, !.running = @ + 1]
  /\ UNCHANGED <<life, _pool, broken, queue>>

(* As above with a pool that is broken: the permit is taken and given back. *)
execute_Raises(c) ==
  /\ call[c].pc = "idle"
  /\ _pool \in broken
  /\ free[_pool] > 0
  /\ call' = [call EXCEPT ![c] = [Ended(c) EXCEPT !.born = _pool]]
  /\ _metrics' = [_metrics EXCEPT !.submitted = @ + 1, !.backend_errors = @ + 1]
  /\ UNCHANGED <<life, _pool, broken, free, queue>>

(* All permits are taken: the call waits for one. *)
execute_Waits(c) ==
  /\ call[c].pc = "idle"
  /\ _pool # 0
  /\ free[_pool] = 0
  /\ queue' = [queue EXCEPT ![_pool] = Append(@, c)]
  /\ call' = [call EXCEPT ![c].pc = "waiting", ![c].born = _pool]
  /\ _metrics' = [_metrics EXCEPT !.submitted = @ + 1]
  /\ UNCHANGED <<life, _pool, broken, free>>

(* A call that waited has its permit: _run_and_record submits the task. *)
Submits(c) ==
  /\ call[c].pc = "granted"
  /\ CanSubmit
  /\ call' = [call EXCEPT ![c] = InPoolNow(c)]
  /\ _metrics' = [_metrics EXCEPT !.running = @ + 1]
  /\ UNCHANGED <<life, _pool, broken, free, queue>>

(* There is no pool, or it is broken: the call raises a backend error. *)
SubmitRaises(c) ==
  /\ call[c].pc = "granted"
  /\ ~CanSubmit
  /\ Release(c, Ended(c))
  /\ _metrics' = [_metrics EXCEPT !.backend_errors = @ + 1]
  /\ UNCHANGED <<life, _pool, broken>>

ChildStarts(c) ==
  /\ call[c].pc = "submitted"
  /\ call[c].pool \notin broken
  /\ call' = [call EXCEPT ![c].pc = "executing"]
  /\ UNCHANGED <<life, _pool, broken, free, queue, _metrics>>

(* The result dict arrives: a success, or an execution failure. *)
Returns(c, outcome) ==
  /\ call[c].pc = "executing"
  /\ Release(c, Ended(c))
  /\ _metrics' = Counted(outcome)
  /\ UNCHANGED <<life, _pool, broken>>

(* An exception comes out of the pool: BrokenProcessPool, one of the task  *)
(* that execute_task does not catch, or the payload or the result cannot   *)
(* be pickled.                                                             *)
Raises(c) ==
  /\ call[c].pc \in InPool
  /\ Release(c, Ended(c))
  /\ _metrics' = Counted("backend_errors")
  /\ UNCHANGED <<life, _pool, broken>>

(* CancelledError is raised in a call that is in the pool: the caller      *)
(* cancelled it, or the shutdown of its pool found it queued.  It is not   *)
(* an Exception, so no outcome is counted.                                 *)
CancelledInPool(c) ==
  /\ call[c].pc \in InPool
  /\ Release(c, Ended(c))
  /\ _metrics' = [_metrics EXCEPT !.running = @ - 1]
  /\ UNCHANGED <<life, _pool, broken>>

(* The caller cancels a call that was granted a permit: it passes it on. *)
CancelledGranted(c) ==
  /\ call[c].pc = "granted"
  /\ Release(c, Ended(c))
  /\ UNCHANGED <<life, _pool, broken, _metrics>>

(* The caller cancels a call that waits for a permit: it leaves the queue. *)
CancelledWaiting(c) ==
  LET q == queue[call[c].born]
  IN /\ call[c].pc = "waiting"
     /\ call' = [call EXCEPT ![c] = Ended(c)]
     /\ \E i \in DOMAIN q :
          /\ q[i] = c
          /\ queue' = [queue EXCEPT ![call[c].born] =
                         SubSeq(q, 1, i - 1) \o SubSeq(q, i + 1, Len(q))]
     /\ UNCHANGED <<life, _pool, broken, free, _metrics>>

-----------------------------------------------------------------------------
execute(c) ==
  \/ execute_Rejected(c)
  \/ execute_Submits(c)
  \/ execute_Raises(c)
  \/ execute_Waits(c)

Resumes(c) ==
  \/ Submits(c)
  \/ SubmitRaises(c)
  \/ ChildStarts(c)
  \/ \E outcome \in {"completed", "failed"} : Returns(c, outcome)
  \/ Raises(c)

Cancelled(c) ==
  \/ CancelledInPool(c)
  \/ CancelledGranted(c)
  \/ CancelledWaiting(c)

Next ==
  \/ start
  \/ stop
  \/ \E l \in Lives : PoolBreaks(l)
  \/ \E c \in Calls : execute(c) \/ Resumes(c) \/ Cancelled(c)

Spec == Init /\ [][Next]_vars

(* A call that can go on does, and a child ends its task; nobody has to    *)
(* cancel a call, stop the backend or start it.                            *)
FairSpec == Spec /\ \A c \in Calls : WF_vars(Resumes(c))

-----------------------------------------------------------------------------
Holders(l) == {c \in Calls : call[c].born = l /\ call[c].pc \in Holding}
Inside == {c \in Calls : call[c].pc \notin {"idle", "ended"}}

(* No permit is lost or made, whatever raises, returns or is cancelled:    *)
(* "a permit can never leak just because the pool died" (execute).         *)
PermitsConserved ==
  \A l \in 1 .. life : free[l] + Cardinality(Holders(l)) = max_in_flight

(* A task is only ever given to a process pool, and never to the default   *)
(* thread pool that run_in_executor takes None for: a call that stop()     *)
(* overtook while it waited for its permit is refused (_submit).           *)
OnlyInPool == \A c \in Calls : call[c].pc \in InPool => call[c].pool # 0

(* The metrics account for every call of the lifetime: those in a pool are *)
(* running, and an outcome is counted at most once per call.  It needs     *)
(* that no call of an earlier lifetime ended, or goes on, in this one.     *)
MetricsBalance ==
  (\A c \in Calls : /\ c \in Inside => call[c].born = life
                    /\ call[c].ended = life => call[c].born \in {0, life})
  => /\ _metrics.running =
          Cardinality({c \in Calls : call[c].pc \in InPool})
     /\ _metrics.completed + _metrics.failed + _metrics.backend_errors
          + Cardinality(Inside) <= _metrics.submitted

(* Every call of execute ends, also when the pool breaks or is stopped     *)
(* while the call waits for its permit.                                    *)
CallsEnd ==
  \A c \in Calls : call[c].pc \notin {"idle", "ended"} ~> call[c].pc = "ended"

=============================================================================
