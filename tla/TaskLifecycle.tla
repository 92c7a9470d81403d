---------------------------- MODULE TaskLifecycle ----------------------------
(***************************************************************************)
(* What a master promises about each task, whatever its workers and        *)
(* connections do: a task is submitted once, is handed out at most         *)
(* MaxAttempts times, ends COMPLETED or FAILED at most once and never      *)
(* changes afterwards, and is answered at most once, by the attempt that   *)
(* ended it.  A step may advance several tasks, each by one transition.    *)
(***************************************************************************)
EXTENDS Naturals

CONSTANTS Tasks, MaxAttempts, None

VARIABLES
  status,   (* where the task is *)
  attempt,  (* how often it was handed out *)
  response  (* the recorded answer, or None *)

vars == <<status, attempt, response>>

Init ==
  /\ status = [t \in Tasks |-> "ABSENT"]
  /\ attempt = [t \in Tasks |-> 0]
  /\ response = [t \in Tasks |-> None]

(* The task moves from one of the statuses in From to one of those in To. *)
Move(t, From, To) ==
  /\ status[t] \in From
  /\ status'[t] \in To

KeepAttempt(t) == attempt'[t] = attempt[t]
KeepResponse(t) == response'[t] = response[t]

Submit(t) ==
  /\ Move(t, {"ABSENT"}, {"PENDING"})
  /\ KeepAttempt(t) /\ KeepResponse(t)

Assign(t) ==
  /\ Move(t, {"PENDING"}, {"ASSIGNED"})
  /\ attempt[t] < MaxAttempts
  /\ attempt'[t] = attempt[t] + 1
  /\ KeepResponse(t)

Start(t) ==
  /\ Move(t, {"ASSIGNED"}, {"RUNNING"})
  /\ KeepAttempt(t) /\ KeepResponse(t)

(* The worker was lost and attempts are left. *)
Retry(t) ==
  /\ Move(t, {"ASSIGNED", "RUNNING"}, {"PENDING"})
  /\ attempt[t] < MaxAttempts
  /\ KeepAttempt(t) /\ KeepResponse(t)

(* The answer that fits the way the task ends. *)
Answer(t) ==
  /\ response[t] = None
  /\ response'[t] # None
  /\ response'[t].attempt = attempt[t]
  /\ response'[t].kind = "success" <=> status'[t] = "COMPLETED"

(* The worker was lost and no attempt is left; the task may go unanswered. *)
GiveUp(t) ==
  /\ Move(t, {"ASSIGNED", "RUNNING"}, {"FAILED"})
  /\ attempt[t] = MaxAttempts
  /\ KeepAttempt(t)
  /\ KeepResponse(t) \/ Answer(t)

(* The worker reported a result; it is answered now or later. *)
Finish(t) ==
  /\ Move(t, {"RUNNING"}, {"COMPLETED", "FAILED"})
  /\ KeepAttempt(t)
  /\ KeepResponse(t) \/ Answer(t)

Respond(t) ==
  /\ status[t] \in {"COMPLETED", "FAILED"}
  /\ status'[t] = status[t]
  /\ KeepAttempt(t)
  /\ Answer(t)

Step(t) ==
  \/ Submit(t) \/ Assign(t) \/ Start(t) \/ Retry(t)
  \/ GiveUp(t) \/ Finish(t) \/ Respond(t)

Stutter(t) == status'[t] = status[t] /\ KeepAttempt(t) /\ KeepResponse(t)

Next == \A t \in Tasks : Step(t) \/ Stutter(t)

Spec == Init /\ [][Next]_vars
=============================================================================
