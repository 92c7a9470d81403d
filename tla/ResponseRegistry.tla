-------------------------- MODULE ResponseRegistry --------------------------
(***************************************************************************)
(* The response registry of master/async_server.py: _task_responses,       *)
(* _task_futures and the callers of wait_for_tasks, which share one future *)
(* per task.  A caller suspends in asyncio.wait_for(asyncio.gather(...));  *)
(* what those two do to the futures is modelled from their use (external). *)
(*                                                                         *)
(* A response is identified by the life of the master in which it was      *)
(* recorded (the number of clear_dispatch_registry calls before it).       *)
(***************************************************************************)
EXTENDS Naturals

CONSTANTS
  Tasks,
  Callers,     (* calls of wait_for_tasks *)
  Wants,       (* the task_ids argument of each call *)
  Deadlines,   (* callers whose timeout may expire *)
  MaxClears,   (* bound: clear_dispatch_registry calls *)
  None

ASSUME RegistryAssumption ==
  /\ Wants \in [Callers -> SUBSET Tasks]
  /\ Deadlines \subseteq Callers
  /\ MaxClears \in Nat
  /\ None \notin Callers \cup (0 .. MaxClears)

VARIABLES
  task_responses,  (* _task_responses *)
  task_futures,    (* _task_futures: who created the task's future *)
  future,          (* the futures, named by task and creator *)
  caller,          (* the calls *)
  clears           (* lives of the master so far *)

vars == <<task_responses, task_futures, future, caller, clears>>

Lives == 0 .. MaxClears
Response == Lives \cup {None}

FutureState == [state : {"none", "pending", "result", "cancelled"},
                value : Response]

(* got: the responses found at the call; awaits: the creators of the       *)
(* futures the call gathers; life: the life of the master it began in.     *)
CallState == [pc : {"idle", "waiting", "returned", "timeout", "cancelled"},
              got : [Tasks -> Response],
              awaits : [Tasks -> Callers \cup {None}],
              life : Lives]

TypeOK ==
  /\ task_responses \in [Tasks -> Response]
  /\ task_futures \in [Tasks -> Callers \cup {None}]
  /\ future \in [Tasks \X Callers -> FutureState]
  /\ caller \in [Callers -> CallState]
  /\ clears \in Lives

Init ==
  /\ task_responses = [t \in Tasks |-> None]
  /\ task_futures = [t \in Tasks |-> None]
  /\ future = [f \in Tasks \X Callers |-> [state |-> "none", value |-> None]]
  /\ caller = [c \in Callers |->
                 [pc |-> "idle", got |-> [t \in Tasks |-> None],
                  awaits |-> [t \in Tasks |-> None], life |-> 0]]
  /\ clears = 0

-----------------------------------------------------------------------------
(* The registered future of t can still be resolved. *)
Shared(t) ==
  task_futures[t] # None /\ future[<<t, task_futures[t]>>].state = "pending"

(* Mutant: a call never joins the future of another. *)
FutureFor_Fresh(c, t) == c

(* The future a call of c gathers for t. *)
FutureFor(c, t) == IF Shared(t) THEN task_futures[t] ELSE c

pending_ids(c) == {t \in Wants[c] : task_responses[t] = None}

(* wait_for_tasks up to its await; with nothing pending it returns. *)
wait_for_tasks(c) ==
  LET P == pending_ids(c)
  IN /\ caller[c].pc = "idle"
     /\ caller' = [caller EXCEPT ![c] =
          [pc |-> IF P = {} THEN "returned" ELSE "waiting",
           got |-> [t \in Tasks |->
                      IF t \in Wants[c] THEN task_responses[t] ELSE None],
           awaits |-> [t \in Tasks |->
                         IF t \in P THEN FutureFor(c, t) ELSE None],
           life |-> clears]]
     /\ task_futures' = [t \in Tasks |->
          IF t \in P THEN FutureFor(c, t) ELSE task_futures[t]]
     /\ future' = [f \in Tasks \X Callers |->
          IF f[1] \in P /\ f[2] = c /\ FutureFor(c, f[1]) = c
          THEN [state |-> "pending", value |-> None] ELSE future[f]]
     /\ UNCHANGED <<task_responses, clears>>

(* The futures a waiting call gathers. *)
Gathered(c) == {<<t, caller[c].awaits[t]>> :
                  t \in {u \in Tasks : caller[c].awaits[u] # None}}

(* gather ends: with every result, or as soon as one future is cancelled.  *)
Returns(c) ==
  /\ caller[c].pc = "waiting"
  /\ \A f \in Gathered(c) : future[f].state = "result"
  /\ caller' = [caller EXCEPT
       ![c].pc = "returned",
       ![c].got = [t \in Tasks |-> IF caller[c].awaits[t] = None THEN caller[c].got[t]
                                   ELSE future[<<t, caller[c].awaits[t]>>].value]]
  /\ UNCHANGED <<task_responses, task_futures, future, clears>>

Cancelled(c) ==
  /\ caller[c].pc = "waiting"
  /\ \E f \in Gathered(c) : future[f].state = "cancelled"
  /\ caller' = [caller EXCEPT ![c].pc = "cancelled"]
  /\ UNCHANGED <<task_responses, task_futures, future, clears>>

(* Mutant: every future is cancelled, the ones not asked for too. *)
Cancel_All(F) ==
  future' = [f \in Tasks \X Callers |->
               IF future[f].state = "pending"
               THEN [future[f] EXCEPT !.state = "cancelled"] ELSE future[f]]

(* cancel() on every future of F that is not done. *)
Cancel(F) ==
  future' = [f \in Tasks \X Callers |->
               IF f \in F /\ future[f].state = "pending"
               THEN [future[f] EXCEPT !.state = "cancelled"] ELSE future[f]]

(* The call's timeout expires, or its task is cancelled: wait_for cancels  *)
(* the gather, and the gather every future it has not seen done.           *)
TimesOut(c) ==
  /\ c \in Deadlines
  /\ caller[c].pc = "waiting"
  /\ \E f \in Gathered(c) : future[f].state = "pending"
  /\ Cancel(Gathered(c))
  /\ caller' = [caller EXCEPT ![c].pc = "timeout"]
  /\ UNCHANGED <<task_responses, task_futures, clears>>

(* Mutant: the response is stored and no future is resolved. *)
record_task_response_Silent(t) ==
  /\ task_responses[t] = None
  /\ task_responses' = [task_responses EXCEPT ![t] = clears]
  /\ UNCHANGED <<task_futures, future, caller, clears>>

(* _record_task_response, by the one coroutine that ends the task. *)
record_task_response(t) ==
  /\ task_responses[t] = None
  /\ task_responses' = [task_responses EXCEPT ![t] = clears]
  /\ future' = IF Shared(t)
               THEN [future EXCEPT ![<<t, task_futures[t]>>] =
                       [state |-> "result", value |-> clears]]
               ELSE future
  /\ UNCHANGED <<task_futures, caller, clears>>

(* Mutant: the responses survive the clear. *)
clear_dispatch_registry_Keeps ==
  /\ clears < MaxClears
  /\ clears' = clears + 1
  /\ Cancel({<<t, task_futures[t]>> : t \in {u \in Tasks : task_futures[u] # None}})
  /\ task_futures' = [t \in Tasks |-> None]
  /\ UNCHANGED <<task_responses, caller>>

clear_dispatch_registry ==
  /\ clears < MaxClears
  /\ clears' = clears + 1
  /\ task_responses' = [t \in Tasks |-> None]
  /\ Cancel({<<t, task_futures[t]>> : t \in {u \in Tasks : task_futures[u] # None}})
  /\ task_futures' = [t \in Tasks |-> None]
  /\ UNCHANGED caller

Next ==
  \/ \E c \in Callers : \/ wait_for_tasks(c) \/ Returns(c)
                        \/ Cancelled(c) \/ TimesOut(c)
  \/ \E t \in Tasks : record_task_response(t)
  \/ clear_dispatch_registry

Spec == Init /\ [][Next]_vars

(* A call whose futures are done is resumed, and every task is recorded in *)
(* the end (property TasksAnswered of AsyncMaster).                        *)
FairSpec ==
  /\ Spec
  /\ \A c \in Callers : WF_vars(Returns(c)) /\ WF_vars(Cancelled(c))
  /\ \A t \in Tasks : WF_vars(record_task_response(t))

-----------------------------------------------------------------------------
(* No wake-up is lost: a future that a call is still waiting for is the    *)
(* one the registry will resolve, and its task is still unanswered.        *)
NoLostWakeup ==
  \A c \in Callers, t \in Tasks :
    /\ caller[c].pc = "waiting"
    /\ caller[c].awaits[t] # None
    /\ future[<<t, caller[c].awaits[t]>>].state = "pending"
    => task_futures[t] = caller[c].awaits[t] /\ task_responses[t] = None

(* A call that returns has a response for each task it asked for, and none *)
(* was recorded in an earlier life of the master than the call.            *)
AnswersAreFresh ==
  \A c \in Callers :
    caller[c].pc = "returned" =>
      \A t \in Wants[c] :
        /\ caller[c].got[t] # None
        /\ caller[c].got[t] = caller[c].life

(* A call is cancelled only when the master is torn down: not because      *)
(* another caller, waiting for one of the same tasks, gave up.             *)
CallersAreIndependent ==
  \A c \in Callers :
    caller[c].pc = "cancelled" => caller[c].life < clears

(* A call is cancelled only when the master is torn down or when a call    *)
(* that waits for one of the same tasks gives up: calls for disjoint sets  *)
(* of tasks do not disturb each other.                                     *)
CancelledForCause ==
  \A c \in Callers :
    caller[c].pc = "cancelled" =>
      \/ caller[c].life < clears
      \/ \E b \in Callers :
           caller[b].pc = "timeout" /\ Wants[b] \cap Wants[c] # {}

(* Every call ends. *)
CallsEnd ==
  \A c \in Callers : caller[c].pc = "waiting" ~> caller[c].pc # "waiting"

=============================================================================
