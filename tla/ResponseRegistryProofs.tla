----------------------- MODULE ResponseRegistryProofs -----------------------
(***************************************************************************)
(* Proofs about wait_for_tasks and the registry it shares with the         *)
(* dispatch coroutines, for every set of tasks and of calls.               *)
(***************************************************************************)
EXTENDS ResponseRegistry, TLAPS

(* Every future that can still be resolved is the one the registry holds,  *)
(* and its task is unanswered.                                             *)
PendingIsRegistered ==
  \A t \in Tasks, c \in Callers :
    future[<<t, c>>].state = "pending" =>
      task_futures[t] = c /\ task_responses[t] = None

(* A call creates no future before it is made. *)
IdleHasNoFuture ==
  \A t \in Tasks, c \in Callers :
    caller[c].pc = "idle" => future[<<t, c>>].state = "none"

(* The registry holds responses of the present life only. *)
ResponsesAreCurrent ==
  \A t \in Tasks : task_responses[t] \in {None, clears}

(* What a waiting call holds, and what its futures hold, is of its life. *)
WaitingInv ==
  \A c \in Callers :
    caller[c].pc = "waiting" =>
      \A t \in Tasks :
        /\ t \in Wants[c] /\ caller[c].awaits[t] = None =>
             caller[c].got[t] = caller[c].life
        /\ caller[c].awaits[t] # None =>
             LET f == future[<<t, caller[c].awaits[t]>>]
             IN /\ f.state # "none"
                /\ f.state = "pending" => caller[c].life = clears
                /\ f.state = "result" => f.value = caller[c].life

IInv ==
  /\ TypeOK
  /\ PendingIsRegistered
  /\ IdleHasNoFuture
  /\ ResponsesAreCurrent
  /\ WaitingInv
  /\ AnswersAreFresh

-----------------------------------------------------------------------------
(* The initial state satisfies the inductive invariant. *)
LEMMA InitIInv == Init => IInv
<1> SUFFICES ASSUME Init PROVE IInv
  OBVIOUS
<1> USE RegistryAssumption
<1>1. TypeOK
  BY DEF Init, TypeOK, Response, Lives, FutureState, CallState
<1>2. PendingIsRegistered /\ IdleHasNoFuture
  BY DEF Init, PendingIsRegistered, IdleHasNoFuture
<1>3. ResponsesAreCurrent /\ WaitingInv /\ AnswersAreFresh
  BY DEF Init, ResponsesAreCurrent, WaitingInv, AnswersAreFresh
<1>4. QED
  BY <1>1, <1>2, <1>3 DEF IInv

(* The call itself: the futures it creates are new, and those it joins are *)
(* registered.                                                             *)
LEMMA WaitStep ==
  ASSUME IInv, NEW c \in Callers, wait_for_tasks(c)
  PROVE  IInv'
<1> USE RegistryAssumption
<1> DEFINE P == pending_ids(c)
           F(t) == FutureFor(c, t)
<1>1. /\ TypeOK /\ PendingIsRegistered /\ IdleHasNoFuture /\ ResponsesAreCurrent
      /\ WaitingInv /\ AnswersAreFresh
  BY DEF IInv
<1>2. \A t \in Tasks :
        /\ F(t) \in Callers
        /\ F(t) # c => Shared(t) /\ F(t) = task_futures[t]
        /\ Shared(t) => F(t) = task_futures[t]
  BY <1>1 DEF FutureFor, Shared, TypeOK
<1>3. /\ caller[c].pc = "idle"
      /\ caller'[c].pc = IF P = {} THEN "returned" ELSE "waiting"
      /\ caller'[c].life = clears
      /\ \A t \in Tasks :
           /\ caller'[c].got[t] = IF t \in Wants[c] THEN task_responses[t] ELSE None
           /\ caller'[c].awaits[t] = IF t \in P THEN F(t) ELSE None
      /\ \A b \in Callers : b # c => caller'[b] = caller[b]
  BY <1>1 DEF wait_for_tasks, TypeOK
<1>4. \A t \in Tasks : task_futures'[t] = IF t \in P THEN F(t) ELSE task_futures[t]
  BY DEF wait_for_tasks
<1>5. \A t \in Tasks, b \in Callers :
        future'[<<t, b>>] = IF t \in P /\ b = c /\ F(t) = c
                            THEN [state |-> "pending", value |-> None]
                            ELSE future[<<t, b>>]
  BY DEF wait_for_tasks
<1>6. UNCHANGED <<task_responses, clears>>
  BY DEF wait_for_tasks
<1>7. P \subseteq Tasks /\ \A t \in Tasks : t \in P <=> t \in Wants[c] /\ task_responses[t] = None
  BY DEF pending_ids
<1> HIDE DEF P, F
<1>8. TypeOK'
  <2>1. caller' \in [Callers -> CallState]
    <3>1. [t \in Tasks |-> IF t \in Wants[c] THEN task_responses[t] ELSE None]
            \in [Tasks -> Response]
      BY <1>1 DEF TypeOK, Response
    <3>2. [t \in Tasks |-> IF t \in P THEN F(t) ELSE None]
            \in [Tasks -> Callers \cup {None}]
      BY <1>2
    <3>3. QED
      BY <1>1, <3>1, <3>2 DEF wait_for_tasks, TypeOK, CallState, P, F
  <2>2. task_futures' \in [Tasks -> Callers \cup {None}]
    BY <1>1, <1>2 DEF wait_for_tasks, TypeOK, P, F
  <2>3. future' \in [Tasks \X Callers -> FutureState]
    BY <1>1 DEF wait_for_tasks, TypeOK, FutureState, Response, P, F
  <2>4. QED
    BY <1>1, <1>6, <2>1, <2>2, <2>3 DEF TypeOK
<1>9. PendingIsRegistered'
  BY <1>1, <1>2, <1>4, <1>5, <1>6, <1>7 DEF PendingIsRegistered, Shared, TypeOK
<1>10. IdleHasNoFuture'
  BY <1>1, <1>3, <1>5 DEF IdleHasNoFuture
<1>11. ResponsesAreCurrent'
  BY <1>1, <1>6 DEF ResponsesAreCurrent
<1>12. AnswersAreFresh'
  BY <1>1, <1>3, <1>6, <1>7 DEF AnswersAreFresh, ResponsesAreCurrent, TypeOK
<1>13. WaitingInv'
  <2> SUFFICES ASSUME NEW b \in Callers, caller'[b].pc = "waiting", NEW t \in Tasks
               PROVE  /\ t \in Wants[b] /\ caller'[b].awaits[t] = None =>
                           caller'[b].got[t] = caller'[b].life
                      /\ caller'[b].awaits[t] # None =>
                           LET f == future'[<<t, caller'[b].awaits[t]>>]
                           IN /\ f.state # "none"
                              /\ f.state = "pending" => caller'[b].life = clears'
                              /\ f.state = "result" => f.value = caller'[b].life
    BY DEF WaitingInv
  <2>1. CASE b = c
    <3>1. t \in Wants[c] /\ t \notin P => task_responses[t] = clears
      BY <1>1, <1>7 DEF ResponsesAreCurrent
    <3>2. t \in P => future'[<<t, F(t)>>].state = "pending"
      <4>1. t \in P /\ F(t) = c => future'[<<t, F(t)>>] = [state |-> "pending", value |-> None]
        BY <1>5
      <4>2. t \in P /\ F(t) # c => future'[<<t, F(t)>>] = future[<<t, F(t)>>]
        BY <1>2, <1>5
      <4>3. F(t) # c => future[<<t, F(t)>>].state = "pending"
        BY <1>2 DEF Shared
      <4>4. QED
        BY <4>1, <4>2, <4>3
    <3>3. QED
      BY <1>2, <1>3, <1>6, <1>7, <2>1, <3>1, <3>2
  <2>2. CASE b # c
    <3>1. caller'[b] = caller[b] /\ caller[b].awaits[t] \in Callers \cup {None}
      BY <1>1, <1>3, <2>2 DEF TypeOK, CallState
    <3>2. caller[b].awaits[t] # None =>
            future'[<<t, caller[b].awaits[t]>>] = future[<<t, caller[b].awaits[t]>>]
      BY <1>1, <1>3, <1>5, <3>1 DEF WaitingInv, IdleHasNoFuture
    <3>3. QED
      BY <1>1, <1>6, <3>1, <3>2 DEF WaitingInv
  <2>3. QED
    BY <2>1, <2>2
<1>14. QED
  BY <1>8, <1>9, <1>10, <1>11, <1>12, <1>13 DEF IInv

(* Replacing the pc, or the pc and the responses, of a call. *)
LEMMA CallUpdate ==
  ASSUME NEW A, NEW B, NEW C, NEW D, NEW r \in [pc : A, got : B, awaits : C, life : D],
         NEW p \in A, NEW g \in B
  PROVE  /\ [r EXCEPT !.pc = p] \in [pc : A, got : B, awaits : C, life : D]
         /\ [r EXCEPT !.pc = p, !.got = g] \in [pc : A, got : B, awaits : C, life : D]
OBVIOUS

(* A call that ends, in any of the three ways, leaves the registry alone;  *)
(* giving up cancels futures and changes no other.                         *)
LEMMA EndStep ==
  ASSUME IInv, NEW c \in Callers, Returns(c) \/ Cancelled(c) \/ TimesOut(c)
  PROVE  IInv'
<1> USE RegistryAssumption
<1>1. /\ TypeOK /\ PendingIsRegistered /\ IdleHasNoFuture /\ ResponsesAreCurrent
      /\ WaitingInv /\ AnswersAreFresh
  BY DEF IInv
<1>2. UNCHANGED <<task_responses, task_futures, clears>>
  BY DEF Returns, Cancelled, TimesOut
<1>3. \A t \in Tasks, b \in Callers :
        \/ future'[<<t, b>>] = future[<<t, b>>]
        \/ /\ future[<<t, b>>].state = "pending"
           /\ future'[<<t, b>>].state = "cancelled"
  BY <1>1 DEF Returns, Cancelled, TimesOut, Cancel, TypeOK, FutureState
<1>4. /\ caller[c].pc = "waiting"
      /\ caller'[c].pc \in {"returned", "cancelled", "timeout"}
      /\ caller'[c].life = caller[c].life
      /\ \A b \in Callers : b # c => caller'[b] = caller[b]
  BY <1>1 DEF Returns, Cancelled, TimesOut, TypeOK, CallState
<1>5. caller'[c].pc = "returned" => \A t \in Wants[c] : caller'[c].got[t] = caller[c].life
  <2> SUFFICES ASSUME caller'[c].pc = "returned", NEW t \in Wants[c]
               PROVE  caller'[c].got[t] = caller[c].life
    OBVIOUS
  <2>1. Returns(c) /\ t \in Tasks
    <3>1. Cancelled(c) => caller'[c].pc = "cancelled"
      BY <1>1 DEF Cancelled, TypeOK, CallState
    <3>2. TimesOut(c) => caller'[c].pc = "timeout"
      BY <1>1 DEF TimesOut, TypeOK, CallState
    <3>3. Wants[c] \subseteq Tasks
      OBVIOUS
    <3>4. QED
      BY <3>1, <3>2, <3>3
  <2>2. caller'[c].got[t] = IF caller[c].awaits[t] = None THEN caller[c].got[t]
                            ELSE future[<<t, caller[c].awaits[t]>>].value
    BY <1>1, <2>1 DEF Returns, TypeOK, CallState
  <2>3. caller[c].awaits[t] # None => future[<<t, caller[c].awaits[t]>>].state = "result"
    BY <2>1 DEF Returns, Gathered
  <2>4. QED
    BY <1>1, <1>4, <2>1, <2>2, <2>3 DEF WaitingInv
<1>6. TypeOK'
  <2>1. future' \in [Tasks \X Callers -> FutureState]
    BY <1>1 DEF Returns, Cancelled, TimesOut, Cancel, TypeOK, FutureState
  <2>2. caller' \in [Callers -> CallState]
    <3>1. CASE Returns(c)
      <4> DEFINE G == [t \in Tasks |->
                         IF caller[c].awaits[t] = None THEN caller[c].got[t]
                         ELSE future[<<t, caller[c].awaits[t]>>].value]
      <4>1. G \in [Tasks -> Response]
        BY <1>1 DEF TypeOK, CallState, FutureState
      <4>2. caller' = [caller EXCEPT ![c].pc = "returned", ![c].got = G]
        BY <3>1 DEF Returns
      <4> HIDE DEF G
      <4>3. [caller[c] EXCEPT !.pc = "returned", !.got = G] \in CallState
        <5>1. caller[c] \in CallState
          BY <1>1 DEF TypeOK
        <5>2. QED
          BY <4>1, <5>1, CallUpdate DEF CallState
      <4>4. caller' = [caller EXCEPT ![c] = [caller[c] EXCEPT !.pc = "returned", !.got = G]]
        BY <1>1, <4>2 DEF TypeOK
      <4>5. QED
        BY <1>1, <4>3, <4>4 DEF TypeOK
    <3>2. CASE Cancelled(c) \/ TimesOut(c)
      <4>1. PICK p \in {"cancelled", "timeout"} : caller' = [caller EXCEPT ![c].pc = p]
        BY <3>2 DEF Cancelled, TimesOut
      <4>2. [caller[c] EXCEPT !.pc = p] \in CallState
        <5>1. caller[c] \in CallState /\ caller[c].got \in [Tasks -> Response]
          BY <1>1 DEF TypeOK, CallState
        <5>2. QED
          BY <5>1, CallUpdate DEF CallState
      <4>3. QED
        BY <1>1, <4>1, <4>2 DEF TypeOK
    <3>3. QED
      BY <3>1, <3>2
  <2>3. QED
    BY <1>1, <1>2, <2>1, <2>2 DEF TypeOK
<1>7. PendingIsRegistered' /\ IdleHasNoFuture' /\ ResponsesAreCurrent'
  <2>1. \A t \in Tasks, b \in Callers :
          /\ future'[<<t, b>>].state = "pending" => future[<<t, b>>].state = "pending"
          /\ future[<<t, b>>].state = "none" => future'[<<t, b>>].state = "none"
    BY <1>3
  <2>2. PendingIsRegistered'
    BY <1>1, <1>2, <2>1 DEF PendingIsRegistered
  <2>3. IdleHasNoFuture'
    BY <1>1, <1>4, <2>1 DEF IdleHasNoFuture
  <2>4. ResponsesAreCurrent'
    BY <1>1, <1>2 DEF ResponsesAreCurrent
  <2>5. QED
    BY <2>2, <2>3, <2>4
<1>8. WaitingInv'
  <2> SUFFICES ASSUME NEW b \in Callers, caller'[b].pc = "waiting", NEW t \in Tasks
               PROVE  /\ t \in Wants[b] /\ caller'[b].awaits[t] = None =>
                           caller'[b].got[t] = caller'[b].life
                      /\ caller'[b].awaits[t] # None =>
                           LET f == future'[<<t, caller'[b].awaits[t]>>]
                           IN /\ f.state # "none"
                              /\ f.state = "pending" => caller'[b].life = clears'
                              /\ f.state = "result" => f.value = caller'[b].life
    BY DEF WaitingInv
  <2>1. caller'[b] = caller[b] /\ caller[b].awaits[t] \in Callers \cup {None}
    BY <1>1, <1>4 DEF TypeOK, CallState
  <2>2. QED
    BY <1>1, <1>2, <1>3, <2>1 DEF WaitingInv
<1>9. AnswersAreFresh'
  <2>1. caller[c].life # None
    BY <1>1 DEF TypeOK, CallState, Lives
  <2>2. QED
    BY <1>1, <1>4, <1>5, <2>1 DEF AnswersAreFresh
<1>10. QED
  BY <1>6, <1>7, <1>8, <1>9 DEF IInv

(* Recording a response resolves the only future of the task that is left. *)
LEMMA RecordStep ==
  ASSUME IInv, NEW t \in Tasks, record_task_response(t)
  PROVE  IInv'
<1> USE RegistryAssumption
<1>1. /\ TypeOK /\ PendingIsRegistered /\ IdleHasNoFuture /\ ResponsesAreCurrent
      /\ WaitingInv /\ AnswersAreFresh
  BY DEF IInv
<1>2. UNCHANGED <<task_futures, caller, clears>>
  BY DEF record_task_response
<1>3. \A u \in Tasks : task_responses'[u] = IF u = t THEN clears ELSE task_responses[u]
  BY <1>1 DEF record_task_response, TypeOK
<1>4. \A u \in Tasks, b \in Callers :
        \/ /\ u = t /\ future[<<u, b>>].state = "pending"
           /\ future'[<<u, b>>] = [state |-> "result", value |-> clears]
        \/ /\ u # t \/ future[<<u, b>>].state # "pending"
           /\ future'[<<u, b>>] = future[<<u, b>>]
  <2> SUFFICES ASSUME NEW u \in Tasks, NEW b \in Callers
               PROVE  \/ /\ u = t /\ future[<<u, b>>].state = "pending"
                         /\ future'[<<u, b>>] = [state |-> "result", value |-> clears]
                      \/ /\ u # t \/ future[<<u, b>>].state # "pending"
                         /\ future'[<<u, b>>] = future[<<u, b>>]
    OBVIOUS
  <2>1. CASE Shared(t)
    <3>1. task_futures[t] \in Callers /\ future[<<t, task_futures[t]>>].state = "pending"
      BY <1>1, <2>1 DEF Shared, TypeOK
    <3>2. future' = [future EXCEPT ![<<t, task_futures[t]>>] =
                       [state |-> "result", value |-> clears]]
      BY <2>1 DEF record_task_response
    <3>3. CASE u = t /\ b = task_futures[t]
      BY <1>1, <3>1, <3>2, <3>3 DEF TypeOK
    <3>4. CASE ~(u = t /\ b = task_futures[t])
      <4>1. future'[<<u, b>>] = future[<<u, b>>]
        BY <1>1, <3>1, <3>2, <3>4 DEF TypeOK
      <4>2. u # t \/ future[<<u, b>>].state # "pending"
        BY <1>1, <3>4 DEF PendingIsRegistered
      <4>3. QED
        BY <4>1, <4>2
    <3>5. QED
      BY <3>3, <3>4
  <2>2. CASE ~Shared(t)
    <3>1. future' = future
      BY <2>2 DEF record_task_response
    <3>2. u = t => future[<<u, b>>].state # "pending"
      BY <1>1, <2>2 DEF PendingIsRegistered, Shared
    <3>3. QED
      BY <3>1, <3>2
  <2>3. QED
    BY <2>1, <2>2
<1>5. TypeOK'
  <2>1. task_responses' \in [Tasks -> Response]
    BY <1>1 DEF record_task_response, TypeOK, Response
  <2>2. future' \in [Tasks \X Callers -> FutureState]
    BY <1>1 DEF record_task_response, TypeOK, FutureState, Response
  <2>3. QED
    BY <1>1, <1>2, <2>1, <2>2 DEF TypeOK
<1>6. PendingIsRegistered' /\ IdleHasNoFuture'
  <2>1. \A u \in Tasks, b \in Callers :
          /\ future'[<<u, b>>].state = "pending" =>
               u # t /\ future[<<u, b>>].state = "pending"
          /\ future[<<u, b>>].state = "none" => future'[<<u, b>>].state = "none"
    <3> SUFFICES ASSUME NEW u \in Tasks, NEW b \in Callers
                 PROVE  /\ future'[<<u, b>>].state = "pending" =>
                             u # t /\ future[<<u, b>>].state = "pending"
                        /\ future[<<u, b>>].state = "none" => future'[<<u, b>>].state = "none"
      OBVIOUS
    <3>1. CASE u = t /\ future[<<u, b>>].state = "pending"
      <4>1. future'[<<u, b>>].state = "result"
        BY <1>4, <3>1
      <4>2. QED
        BY <3>1, <4>1
    <3>2. CASE ~(u = t /\ future[<<u, b>>].state = "pending")
      <4>1. future'[<<u, b>>] = future[<<u, b>>]
        BY <1>4, <3>2
      <4>2. QED
        BY <3>2, <4>1
    <3>3. QED
      BY <3>1, <3>2
  <2>2. QED
    BY <1>1, <1>2, <1>3, <2>1 DEF PendingIsRegistered, IdleHasNoFuture
<1>7. ResponsesAreCurrent' /\ AnswersAreFresh'
  BY <1>1, <1>2, <1>3 DEF ResponsesAreCurrent, AnswersAreFresh
<1>8. WaitingInv'
  <2> SUFFICES ASSUME NEW b \in Callers, caller[b].pc = "waiting", NEW u \in Tasks
               PROVE  /\ u \in Wants[b] /\ caller[b].awaits[u] = None =>
                           caller[b].got[u] = caller[b].life
                      /\ caller[b].awaits[u] # None =>
                           LET f == future'[<<u, caller[b].awaits[u]>>]
                           IN /\ f.state # "none"
                              /\ f.state = "pending" => caller[b].life = clears
                              /\ f.state = "result" => f.value = caller[b].life
    BY <1>2 DEF WaitingInv
  <2>1. caller[b].awaits[u] \in Callers \cup {None}
    BY <1>1 DEF TypeOK, CallState
  <2>2. QED
    BY <1>1, <1>4, <2>1 DEF WaitingInv
<1>9. QED
  BY <1>5, <1>6, <1>7, <1>8 DEF IInv

(* The clear leaves no future that could be resolved in the next life. *)
LEMMA ClearStep ==
  ASSUME IInv, clear_dispatch_registry
  PROVE  IInv'
<1> USE RegistryAssumption
<1>1. /\ TypeOK /\ PendingIsRegistered /\ IdleHasNoFuture /\ ResponsesAreCurrent
      /\ WaitingInv /\ AnswersAreFresh
  BY DEF IInv
<1>2. UNCHANGED caller
  BY DEF clear_dispatch_registry
<1>3. \A t \in Tasks, b \in Callers :
        /\ future'[<<t, b>>].state # "pending"
        /\ \/ future'[<<t, b>>] = future[<<t, b>>]
           \/ /\ future[<<t, b>>].state = "pending"
              /\ future'[<<t, b>>].state = "cancelled"
  <2> SUFFICES ASSUME NEW t \in Tasks, NEW b \in Callers
               PROVE  /\ future'[<<t, b>>].state # "pending"
                      /\ \/ future'[<<t, b>>] = future[<<t, b>>]
                         \/ /\ future[<<t, b>>].state = "pending"
                            /\ future'[<<t, b>>].state = "cancelled"
    OBVIOUS
  <2>1. CASE future[<<t, b>>].state = "pending"
    <3>1. task_futures[t] = b /\ b # None
      BY <1>1, <2>1 DEF PendingIsRegistered
    <3>2. future'[<<t, b>>] = [future[<<t, b>>] EXCEPT !.state = "cancelled"]
      BY <2>1, <3>1 DEF clear_dispatch_registry, Cancel
    <3>3. QED
      BY <1>1, <2>1, <3>2 DEF TypeOK, FutureState
  <2>2. CASE future[<<t, b>>].state # "pending"
    BY <2>2 DEF clear_dispatch_registry, Cancel
  <2>3. QED
    BY <2>1, <2>2
<1>4. TypeOK'
  <2>1. future' \in [Tasks \X Callers -> FutureState]
    BY <1>1 DEF clear_dispatch_registry, Cancel, TypeOK, FutureState
  <2>2. QED
    BY <1>1, <2>1 DEF clear_dispatch_registry, TypeOK, Response, Lives
<1>5. PendingIsRegistered' /\ ResponsesAreCurrent'
  BY <1>3 DEF clear_dispatch_registry, PendingIsRegistered, ResponsesAreCurrent
<1>6. IdleHasNoFuture' /\ AnswersAreFresh'
  BY <1>1, <1>2, <1>3 DEF IdleHasNoFuture, AnswersAreFresh
<1>7. WaitingInv'
  <2> SUFFICES ASSUME NEW b \in Callers, caller[b].pc = "waiting", NEW t \in Tasks
               PROVE  /\ t \in Wants[b] /\ caller[b].awaits[t] = None =>
                           caller[b].got[t] = caller[b].life
                      /\ caller[b].awaits[t] # None =>
                           LET f == future'[<<t, caller[b].awaits[t]>>]
                           IN /\ f.state # "none"
                              /\ f.state = "pending" => caller[b].life = clears'
                              /\ f.state = "result" => f.value = caller[b].life
    BY <1>2 DEF WaitingInv
  <2>1. caller[b].awaits[t] \in Callers \cup {None}
    BY <1>1 DEF TypeOK, CallState
  <2>2. QED
    BY <1>1, <1>3, <2>1 DEF WaitingInv
<1>8. QED
  BY <1>4, <1>5, <1>6, <1>7 DEF IInv

-----------------------------------------------------------------------------
(* Every state of the registry satisfies the inductive invariant. *)
THEOREM RegistryInvariant == Spec => []IInv
<1>1. IInv /\ [Next]_vars => IInv'
  <2> SUFFICES ASSUME IInv, [Next]_vars PROVE IInv'
    OBVIOUS
  <2>1. CASE UNCHANGED vars
    BY <2>1 DEF vars, IInv, TypeOK, PendingIsRegistered, IdleHasNoFuture,
                ResponsesAreCurrent, WaitingInv, AnswersAreFresh
  <2>2. ASSUME NEW c \in Callers, wait_for_tasks(c) PROVE IInv'
    BY <2>2, WaitStep
  <2>3. ASSUME NEW c \in Callers, Returns(c) \/ Cancelled(c) \/ TimesOut(c) PROVE IInv'
    BY <2>3, EndStep
  <2>4. ASSUME NEW t \in Tasks, record_task_response(t) PROVE IInv'
    BY <2>4, RecordStep
  <2>5. CASE clear_dispatch_registry
    BY <2>5, ClearStep
  <2>6. QED
    BY <2>1, <2>2, <2>3, <2>4, <2>5 DEF Next
<1>2. QED
  BY InitIInv, <1>1, PTL DEF Spec

(* The futures, calls and registry keep their types. *)
THEOREM RegistryTypeCorrect == Spec => []TypeOK
<1>1. IInv => TypeOK
  BY DEF IInv
<1>2. QED
  BY RegistryInvariant, <1>1, PTL

(* No interleaving of calls, responses, timeouts and clears leaves a call  *)
(* waiting for a future that _record_task_response will not resolve.       *)
THEOREM NoLostWakeupHolds == Spec => []NoLostWakeup
<1>1. IInv => NoLostWakeup
  <2> SUFFICES ASSUME IInv, NEW c \in Callers, NEW t \in Tasks,
                      caller[c].awaits[t] # None,
                      future[<<t, caller[c].awaits[t]>>].state = "pending"
               PROVE  task_futures[t] = caller[c].awaits[t] /\ task_responses[t] = None
    BY DEF NoLostWakeup
  <2>1. caller[c].awaits[t] \in Callers
    BY DEF IInv, TypeOK, CallState
  <2>2. QED
    BY <2>1 DEF IInv, PendingIsRegistered
<1>2. QED
  BY RegistryInvariant, <1>1, PTL

(* wait_for_tasks never returns with a task unanswered, nor with a         *)
(* response of a life of the master other than the one it was called in.   *)
THEOREM AnswersAreFreshHolds == Spec => []AnswersAreFresh
<1>1. IInv => AnswersAreFresh
  BY DEF IInv
<1>2. QED
  BY RegistryInvariant, <1>1, PTL

-----------------------------------------------------------------------------
(* Why a future that c waits for may be cancelled: the registry was        *)
(* cleared since the call, or a call for the same task gave up.            *)
Cause(c, t) ==
  \/ caller[c].life < clears
  \/ \E b \in Callers : caller[b].pc = "timeout" /\ t \in Wants[b]

(* A call gathers only futures of tasks it asked for, and each one that is *)
(* cancelled under it has a cause, before the call itself notices.         *)
CauseInv ==
  /\ \A c \in Callers : caller[c].life <= clears
  /\ \A c \in Callers, t \in Tasks :
       caller[c].pc = "waiting" /\ caller[c].awaits[t] # None =>
         /\ t \in Wants[c]
         /\ future[<<t, caller[c].awaits[t]>>].state = "cancelled" => Cause(c, t)
  /\ CancelledForCause

(* A call that starts joins no cancelled future: the ones it shares are    *)
(* pending and its own are new.                                            *)
LEMMA CauseWait ==
  ASSUME IInv, CauseInv, NEW c \in Callers, wait_for_tasks(c)
  PROVE  CauseInv'
<1> USE RegistryAssumption
<1>1. TypeOK /\ IdleHasNoFuture /\ WaitingInv
  BY DEF IInv
<1>2. \A t \in Tasks : /\ FutureFor(c, t) \in Callers
                       /\ FutureFor(c, t) # c =>
                            future[<<t, FutureFor(c, t)>>].state = "pending"
  BY <1>1 DEF FutureFor, Shared, TypeOK
<1>3. /\ caller[c].pc = "idle"
      /\ caller'[c].pc \in {"returned", "waiting"}
      /\ caller'[c].life = clears
      /\ \A t \in Tasks :
           caller'[c].awaits[t] = IF t \in pending_ids(c) THEN FutureFor(c, t) ELSE None
      /\ \A b \in Callers : b # c => caller'[b] = caller[b]
  BY <1>1 DEF wait_for_tasks, TypeOK
<1>4. \A t \in Tasks, b \in Callers :
        future'[<<t, b>>] = IF t \in pending_ids(c) /\ b = c /\ FutureFor(c, t) = c
                            THEN [state |-> "pending", value |-> None]
                            ELSE future[<<t, b>>]
  BY DEF wait_for_tasks
<1>5. clears' = clears /\ clears \in Nat
  BY <1>1 DEF wait_for_tasks, TypeOK, Lives
<1>6. \A b \in Callers : caller'[b].pc = "timeout" <=> caller[b].pc = "timeout"
  BY <1>3
<1>7. ASSUME NEW b \in Callers, NEW t \in Tasks,
             caller'[b].pc = "waiting", caller'[b].awaits[t] # None
      PROVE  /\ t \in Wants[b]
             /\ future'[<<t, caller'[b].awaits[t]>>].state = "cancelled" => Cause(b, t)'
  <2>1. CASE b = c
    <3>1. t \in pending_ids(c) /\ caller'[c].awaits[t] = FutureFor(c, t)
      BY <1>3, <1>7, <2>1
    <3>2. future'[<<t, FutureFor(c, t)>>].state = "pending"
      <4>1. CASE FutureFor(c, t) = c
        BY <1>4, <3>1, <4>1
      <4>2. CASE FutureFor(c, t) # c
        BY <1>2, <1>4, <4>2
      <4>3. QED
        BY <4>1, <4>2
    <3>3. QED
      BY <2>1, <3>1, <3>2 DEF pending_ids
  <2>2. CASE b # c
    <3>1. caller'[b] = caller[b] /\ caller[b].awaits[t] \in Callers
      BY <1>1, <1>3, <1>7, <2>2 DEF TypeOK, CallState
    <3>2. future'[<<t, caller[b].awaits[t]>>] = future[<<t, caller[b].awaits[t]>>]
      BY <1>1, <1>3, <1>4, <1>7, <3>1 DEF WaitingInv, IdleHasNoFuture
    <3>3. QED
      BY <1>5, <1>6, <1>7, <3>1, <3>2 DEF CauseInv, Cause
  <2>3. QED
    BY <2>1, <2>2
<1>8. CancelledForCause'
  BY <1>3, <1>5, <1>6 DEF CauseInv, CancelledForCause
<1>9. QED
  BY <1>3, <1>5, <1>7, <1>8 DEF CauseInv

(* A call that gives up cancels futures of tasks it asked for, and is      *)
(* itself the cause; a call that ends cancelled inherits the cause of one  *)
(* of its futures.                                                         *)
LEMMA CauseEnd ==
  ASSUME IInv, CauseInv, NEW c \in Callers, Returns(c) \/ Cancelled(c) \/ TimesOut(c)
  PROVE  CauseInv'
<1> USE RegistryAssumption
<1>1. TypeOK
  BY DEF IInv
<1>2. clears' = clears
  BY DEF Returns, Cancelled, TimesOut
<1>3. /\ caller[c].pc = "waiting"
      /\ caller'[c].pc \in {"returned", "cancelled", "timeout"}
      /\ caller'[c].pc = "cancelled" => Cancelled(c)
      /\ TimesOut(c) => caller'[c].pc = "timeout"
      /\ caller'[c].life = caller[c].life
      /\ \A b \in Callers : b # c => caller'[b] = caller[b]
  BY <1>1 DEF Returns, Cancelled, TimesOut, TypeOK, CallState
<1>4. \A b \in Callers : caller[b].pc = "timeout" => caller'[b].pc = "timeout"
  BY <1>3
<1>5. \A t \in Tasks, b \in Callers :
        \/ future'[<<t, b>>] = future[<<t, b>>]
        \/ TimesOut(c) /\ caller[c].awaits[t] = b
  BY DEF Returns, Cancelled, TimesOut, Cancel, Gathered
<1>6. ASSUME NEW b \in Callers, NEW t \in Tasks,
             caller'[b].pc = "waiting", caller'[b].awaits[t] # None
      PROVE  /\ t \in Wants[b]
             /\ future'[<<t, caller'[b].awaits[t]>>].state = "cancelled" => Cause(b, t)'
  <2>1. b # c /\ caller'[b] = caller[b] /\ caller[b].awaits[t] \in Callers
    BY <1>1, <1>3, <1>6 DEF TypeOK, CallState
  <2>2. CASE future'[<<t, caller[b].awaits[t]>>] = future[<<t, caller[b].awaits[t]>>]
    BY <1>2, <1>4, <1>6, <2>1, <2>2 DEF CauseInv, Cause
  <2>3. CASE TimesOut(c) /\ caller[c].awaits[t] = caller[b].awaits[t]
    <3>1. t \in Wants[c] /\ caller'[c].pc = "timeout"
      BY <1>3, <1>6, <2>1, <2>3 DEF CauseInv
    <3>2. QED
      BY <1>6, <2>1, <3>1 DEF CauseInv, Cause
  <2>4. QED
    BY <1>5, <2>1, <2>2, <2>3
<1>7. CancelledForCause'
  <2> SUFFICES ASSUME NEW b \in Callers, caller'[b].pc = "cancelled"
               PROVE  \/ caller'[b].life < clears'
                      \/ \E d \in Callers :
                           caller'[d].pc = "timeout" /\ Wants[d] \cap Wants[b] # {}
    BY DEF CancelledForCause
  <2>1. CASE b = c
    <3>1. PICK t \in Tasks : /\ caller[c].awaits[t] # None
                             /\ future[<<t, caller[c].awaits[t]>>].state = "cancelled"
      BY <1>3, <2>1 DEF Cancelled, Gathered
    <3>2. t \in Wants[c] /\ Cause(c, t)
      BY <1>3, <3>1 DEF CauseInv
    <3>3. QED
      BY <1>2, <1>3, <1>4, <2>1, <3>2 DEF Cause
  <2>2. CASE b # c
    BY <1>2, <1>3, <1>4, <2>2 DEF CauseInv, CancelledForCause
  <2>3. QED
    BY <2>1, <2>2
<1>8. QED
  BY <1>2, <1>3, <1>6, <1>7 DEF CauseInv

(* A response resolves futures and cancels none; a clear gives every call  *)
(* that is still waiting a cause.                                          *)
LEMMA CauseRegistry ==
  ASSUME IInv, CauseInv,
         clear_dispatch_registry \/ \E t \in Tasks : record_task_response(t)
  PROVE  CauseInv'
<1> USE RegistryAssumption
<1>1. TypeOK /\ TypeOK'
  BY ClearStep, RecordStep DEF IInv
<1>2. caller' = caller /\ clears \in Nat /\ clears' \in {clears, clears + 1}
  <2>1. clears \in Nat
    BY <1>1 DEF TypeOK, Lives
  <2>2. CASE clear_dispatch_registry
    BY <2>1, <2>2 DEF clear_dispatch_registry
  <2>3. CASE \E t \in Tasks : record_task_response(t)
    BY <2>1, <2>3 DEF record_task_response
  <2>4. QED
    BY <2>1, <2>2, <2>3
<1>3. \A c \in Callers : caller[c].life \in Nat /\ caller[c].life <= clears
  BY <1>1 DEF CauseInv, TypeOK, CallState, Lives
<1>4. CancelledForCause'
  BY <1>2, <1>3 DEF CauseInv, CancelledForCause
<1>5. ASSUME NEW b \in Callers, NEW t \in Tasks,
             caller[b].pc = "waiting", caller[b].awaits[t] # None,
             future'[<<t, caller[b].awaits[t]>>].state = "cancelled"
      PROVE  Cause(b, t)'
  <2>1. CASE clear_dispatch_registry
    BY <1>2, <1>3, <2>1 DEF clear_dispatch_registry, Cause
  <2>2. ASSUME NEW u \in Tasks, record_task_response(u)
        PROVE  Cause(b, t)'
    <3>1. caller[b].awaits[t] \in Callers
      BY <1>1, <1>5 DEF TypeOK, CallState
    <3>2. future[<<t, caller[b].awaits[t]>>].state = "cancelled"
      BY <1>1, <1>5, <2>2, <3>1 DEF record_task_response, TypeOK
    <3>3. QED
      BY <1>2, <1>5, <2>2, <3>2 DEF CauseInv, Cause, record_task_response
  <2>3. QED
    BY <2>1, <2>2
<1>6. QED
  BY <1>2, <1>3, <1>4, <1>5 DEF CauseInv

(* wait_for_tasks ends cancelled only after clear_dispatch_registry or     *)
(* after the timeout of a call that shares a task with it, however long    *)
(* the chain of calls that share futures is.                               *)
THEOREM CancelledForCauseHolds == Spec => []CancelledForCause
<1>1. Init => CauseInv
  <2> SUFFICES ASSUME Init PROVE CauseInv
    OBVIOUS
  <2>1. clears = 0 /\ \A c \in Callers : caller[c].pc = "idle" /\ caller[c].life = 0
    BY DEF Init
  <2>2. QED
    BY <2>1 DEF CauseInv, CancelledForCause
<1>2. IInv /\ CauseInv /\ [Next]_vars => CauseInv'
  <2> SUFFICES ASSUME IInv, CauseInv, [Next]_vars PROVE CauseInv'
    OBVIOUS
  <2>1. CASE UNCHANGED vars
    BY <2>1 DEF vars, CauseInv, Cause, CancelledForCause
  <2>2. ASSUME NEW c \in Callers, wait_for_tasks(c) PROVE CauseInv'
    BY <2>2, CauseWait
  <2>3. ASSUME NEW c \in Callers, Returns(c) \/ Cancelled(c) \/ TimesOut(c) PROVE CauseInv'
    BY <2>3, CauseEnd
  <2>4. CASE clear_dispatch_registry \/ \E t \in Tasks : record_task_response(t)
    BY <2>4, CauseRegistry
  <2>5. QED
    BY <2>1, <2>2, <2>3, <2>4 DEF Next
<1>3. CauseInv => CancelledForCause
  BY DEF CauseInv
<1>4. QED
  BY RegistryInvariant, <1>1, <1>2, <1>3, PTL DEF Spec

=============================================================================
