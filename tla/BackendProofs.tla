---------------------------- MODULE BackendProofs ----------------------------
(***************************************************************************)
(* Proofs about MultiprocessingBackend: permits, the pool and the metrics, *)
(* for every number of calls, permits and lifetimes.                       *)
(***************************************************************************)
EXTENDS Backend, FiniteSetTheorems, SequenceTheorems, TLAPS

(* Most leaves are first-order: they are Zenon's unless they name a prover. *)
USE Zenon

-----------------------------------------------------------------------------
(* The inductive invariant. *)

Statuses == {"idle", "waiting", "ended"} \cup Holding
CallRecord(n) == [pc : Statuses, born : 0 .. n, pool : 0 .. n, ended : 0 .. n]

(* The queue of a semaphore holds each of its waiters once, and nobody     *)
(* else: a permit that is passed on reaches a call that waits for it.      *)
QueueInv ==
  \A l \in Lives :
    /\ \A i \in DOMAIN queue[l] : /\ call[queue[l][i]].pc = "waiting"
                                  /\ call[queue[l][i]].born = l
    /\ \A i, j \in DOMAIN queue[l] : queue[l][i] = queue[l][j] => i = j

(* A call that waits is in the queue of the semaphore it began with. *)
WaiterIsQueued ==
  \A c \in Calls :
    call[c].pc = "waiting" =>
      \E i \in DOMAIN queue[call[c].born] : queue[call[c].born][i] = c

(* A call that is not made yet belongs to no lifetime, and one that is     *)
(* under way to a lifetime that began; what it runs in began too.          *)
CallInv ==
  \A c \in Calls :
    /\ call[c].pc = "idle" => call[c].born = 0
    /\ call[c].pc \notin {"idle", "ended"} => call[c].born \in 1 .. life
    /\ call[c].pc \in InPool => call[c].pool \in 1 .. life

IInv ==
  /\ TypeOK
  /\ QueueInv
  /\ WaiterIsQueued
  /\ CallInv
  /\ IsFiniteSet(Inside)
  /\ PermitsConserved

(* The calls that are in a pool. *)
Pooled == {c \in Calls : call[c].pc \in InPool}

(* The hypothesis of MetricsBalance, and its conclusion. *)
OwnLife ==
  \A c \in Calls : /\ c \in Inside => call[c].born = life
                   /\ call[c].ended = life => call[c].born \in {0, life}

Sums ==
  /\ _metrics.running = Cardinality(Pooled)
  /\ _metrics.completed + _metrics.failed + _metrics.backend_errors
       + Cardinality(Inside) <= _metrics.submitted

-----------------------------------------------------------------------------
(* Operators. *)

(* What is left of a queue that its i-th element has left. *)
Without(s, i) == SubSeq(s, 1, i - 1) \o SubSeq(s, i + 1, Len(s))

(* The elements of t are those of s except the i-th, in the same order. *)
Skips(t, s, i) ==
  \A j \in 1 .. Len(s) - 1 : t[j] = IF j < i THEN s[j] ELSE s[j + 1]

LEMMA LeaveQueue ==
  ASSUME NEW S, NEW s \in Seq(S), NEW i \in 1 .. Len(s), NEW t, t = Without(s, i)
  PROVE  /\ t \in Seq(S)
         /\ Len(t) = Len(s) - 1
         /\ Skips(t, s, i)
<1> DEFINE a == SubSeq(s, 1, i - 1)
           b == SubSeq(s, i + 1, Len(s))
<1>1. Len(s) \in Nat /\ i \in Int /\ i >= 1 /\ i <= Len(s)
  BY SMT
<1>2. /\ a \in Seq(S) /\ Len(a) = i - 1
      /\ \A j \in 1 .. i - 1 : a[j] = s[j]
  <2>1. \A j \in 1 .. i - 1 : s[j] \in S
    BY <1>1, ElementOfSeq, SMT
  <2>2. QED
    BY <1>1, <2>1, SubSeqProperties, SMT
<1>3. /\ b \in Seq(S) /\ Len(b) = Len(s) - i
      /\ \A j \in 1 .. Len(s) - i : b[j] = s[i + j]
  <2>1. \A j \in i + 1 .. Len(s) : s[j] \in S
    BY <1>1, ElementOfSeq, SMT
  <2>2. /\ b \in Seq(S)
        /\ Len(b) = IF i + 1 <= Len(s) THEN Len(s) - (i + 1) + 1 ELSE 0
        /\ \A j \in 1 .. Len(s) - (i + 1) + 1 : b[j] = s[(i + 1) + j - 1]
    BY <1>1, <2>1, SubSeqProperties, SMT
  <2> HIDE DEF b
  <2>3. QED
    BY <1>1, <2>2, SMT
<1> HIDE DEF a, b
<1>4. /\ a \o b \in Seq(S)
      /\ Len(a \o b) = Len(a) + Len(b)
      /\ \A j \in 1 .. Len(a) + Len(b) :
           (a \o b)[j] = IF j <= Len(a) THEN a[j] ELSE b[j - Len(a)]
  BY <1>2, <1>3, ConcatProperties
<1>5. t = a \o b
  BY DEF a, b, Without
<1>6. ASSUME NEW j \in 1 .. Len(s) - 1
      PROVE  (a \o b)[j] = IF j < i THEN s[j] ELSE s[j + 1]
  <2>1. CASE j < i
    BY <1>1, <1>2, <1>3, <1>4, <2>1, SMT
  <2>2. CASE ~(j < i)
    <3>1. j - (i - 1) \in 1 .. Len(s) - i /\ i + (j - (i - 1)) = j + 1
      BY <1>1, <2>2, SMT
    <3>2. (a \o b)[j] = b[j - (i - 1)]
      BY <1>1, <1>2, <1>3, <1>4, <2>2, SMT
    <3>3. QED
      BY <1>3, <2>2, <3>1, <3>2
  <2>3. QED
    BY <2>1, <2>2
<1>7. Len(a) + Len(b) = Len(s) - 1
  BY <1>1, <1>2, <1>3, SMT
<1>8. QED
  BY <1>4, <1>5, <1>6, <1>7 DEF Skips

(* Counting one element more, and one element less. *)
LEMMA CardAdd ==
  ASSUME NEW S, IsFiniteSet(S), NEW x, x \notin S
  PROVE  /\ IsFiniteSet(S \cup {x})
         /\ Cardinality(S) \in Nat
         /\ Cardinality(S \cup {x}) = Cardinality(S) + 1
BY FS_AddElement, FS_CardinalityType

LEMMA CardRemove ==
  ASSUME NEW S, IsFiniteSet(S), NEW x, x \in S
  PROVE  /\ IsFiniteSet(S \ {x})
         /\ Cardinality(S \ {x}) \in Nat
         /\ Cardinality(S) = Cardinality(S \ {x}) + 1
<1>1. IsFiniteSet(S \ {x}) /\ Cardinality(S \ {x}) = Cardinality(S) - 1
  BY FS_RemoveElement
<1>2. Cardinality(S \ {x}) \in Nat /\ Cardinality(S) \in Nat
  BY <1>1, FS_CardinalityType
<1>3. QED
  BY <1>1, <1>2, SMT

(* The types of a state, as the steps below use them. *)
LEMMA Typed ==
  ASSUME TypeOK
  PROVE  /\ life \in Nat /\ life <= MaxLives /\ _pool \in 0 .. life
         /\ call \in [Calls -> CallRecord(life)]
         /\ \A l \in 1 .. life : l \in Lives
         /\ \A l \in Lives : free[l] \in 0 .. max_in_flight /\ queue[l] \in Seq(Calls)
<1> USE BackendAssumption
<1>1. life \in Nat /\ life <= MaxLives
  BY SMT DEF TypeOK
<1>2. QED
  BY <1>1, SMT DEF TypeOK, CallRecord, Statuses, Lives

-----------------------------------------------------------------------------
(* The shape of a step: one call goes on or ends, and at most waiters are  *)
(* granted a permit beside it.                                             *)

Grants(b) ==
  /\ call[b].pc = "waiting"
  /\ call'[b].pc = "granted"
  /\ call'[b].born = call[b].born
  /\ call'[b].pool = call[b].pool
  /\ call'[b].ended = call[b].ended

Moves(c) ==
  /\ call[c].pc # "ended"
  /\ call'[c].pc # "idle"
  /\ call[c].pc # "idle" => call'[c].born = call[c].born
  /\ call'[c].pc = "ended" => call'[c].ended = life
  /\ call'[c].pc # "ended" => call'[c].born \in 1 .. life
  /\ call'[c].pc \in InPool => call'[c].pool \in 1 .. life
  /\ \A b \in Calls \ {c} : call'[b] = call[b] \/ Grants(b)

(* Such a step changes the sets of calls under way by one call, and leaves *)
(* a call of another lifetime recognisable as one.                         *)
LEMMA MoveShape ==
  ASSUME IInv, life' = life, NEW c \in Calls, Moves(c)
  PROVE  /\ CallInv'
         /\ Inside' = IF call'[c].pc = "ended" THEN Inside \ {c} ELSE Inside \cup {c}
         /\ Pooled' = IF call'[c].pc \in InPool THEN Pooled \cup {c} ELSE Pooled \ {c}
         /\ IsFiniteSet(Inside')
         /\ OwnLife' => OwnLife
<1>1. CallInv /\ IsFiniteSet(Inside) /\ life \in Nat
  BY Typed DEF IInv
<1>2. \A b \in Calls \ {c} : /\ b \in Inside' <=> b \in Inside
                             /\ b \in Pooled' <=> b \in Pooled
                             /\ call'[b].born = call[b].born
                             /\ call'[b].pool = call[b].pool
                             /\ call'[b].ended = call[b].ended
                             /\ \/ call'[b].pc = call[b].pc
                                \/ call[b].pc = "waiting" /\ call'[b].pc = "granted"
  <2> SUFFICES ASSUME NEW b \in Calls \ {c}
               PROVE  /\ b \in Inside' <=> b \in Inside
                      /\ b \in Pooled' <=> b \in Pooled
                      /\ call'[b].born = call[b].born
                      /\ call'[b].pool = call[b].pool
                      /\ call'[b].ended = call[b].ended
                      /\ \/ call'[b].pc = call[b].pc
                         \/ call[b].pc = "waiting" /\ call'[b].pc = "granted"
    OBVIOUS
  <2>1. CASE call'[b] = call[b]
    BY <2>1 DEF Inside, Pooled
  <2>2. CASE Grants(b)
    BY <2>2 DEF Grants, Inside, Pooled, InPool
  <2>3. QED
    BY <2>1, <2>2 DEF Moves
<1>3. Inside' = IF call'[c].pc = "ended" THEN Inside \ {c} ELSE Inside \cup {c}
  BY <1>2, SMT DEF Moves, Inside
<1>4. Pooled' = IF call'[c].pc \in InPool THEN Pooled \cup {c} ELSE Pooled \ {c}
  BY <1>2 DEF Pooled
<1>5. IsFiniteSet(Inside')
  BY <1>1, <1>3, FS_AddElement, FS_RemoveElement
<1>6. CallInv'
  <2> SUFFICES ASSUME NEW b \in Calls
               PROVE  /\ call'[b].pc = "idle" => call'[b].born = 0
                      /\ call'[b].pc \notin {"idle", "ended"} => call'[b].born \in 1 .. life
                      /\ call'[b].pc \in InPool => call'[b].pool \in 1 .. life
    BY DEF CallInv
  <2>1. CASE b = c
    BY <2>1 DEF Moves
  <2>2. CASE b # c
    BY <1>1, <1>2, <2>2 DEF CallInv, InPool
  <2>3. QED
    BY <2>1, <2>2
<1>7. OwnLife' => OwnLife
  <2> SUFFICES ASSUME OwnLife', NEW b \in Calls
               PROVE  /\ b \in Inside => call[b].born = life
                      /\ call[b].ended = life => call[b].born \in {0, life}
    BY DEF OwnLife
  <2>1. /\ b \in Inside' => call'[b].born = life
        /\ call'[b].ended = life => call'[b].born \in {0, life}
    BY DEF OwnLife
  <2>2. CASE b # c
    BY <1>2, <2>1, <2>2
  <2>3. CASE b = c /\ call[c].pc = "idle"
    BY <1>1, <2>3 DEF CallInv, Inside
  <2>4. CASE b = c /\ call[c].pc # "idle"
    <3>1. call[c].born \in 1 .. life /\ call'[c].born = call[c].born
      BY <1>1, <2>4 DEF CallInv, Moves
    <3>2. call'[c].pc = "ended" => call[c].born \in {0, life}
      BY <2>1, <2>4, <3>1 DEF Moves
    <3>3. call'[c].pc # "ended" => call[c].born = life
      BY <1>3, <2>1, <2>4, <3>1
    <3>4. QED
      BY <1>1, <2>4, <3>1, <3>2, <3>3, SMT
  <2>5. QED
    BY <2>2, <2>3, <2>4
<1>8. QED
  BY <1>3, <1>4, <1>5, <1>6, <1>7

(* A step that neither takes nor gives back a permit. *)
LEMMA PermitsKept ==
  ASSUME PermitsConserved, UNCHANGED <<life, free>>,
         \A b \in Calls : /\ call'[b].pc \in Holding <=> call[b].pc \in Holding
                          /\ call[b].pc \in Holding => call'[b].born = call[b].born
  PROVE  PermitsConserved'
<1>1. \A l \in 1 .. life : Holders(l)' = Holders(l)
  BY DEF Holders
<1>2. QED
  BY <1>1 DEF PermitsConserved

(* A step in which nobody joins or leaves a queue. *)
LEMMA QueueKept ==
  ASSUME TypeOK, QueueInv, WaiterIsQueued, queue' = queue,
         \A b \in Calls : /\ call'[b].pc = "waiting" <=> call[b].pc = "waiting"
                          /\ call[b].pc = "waiting" => call'[b].born = call[b].born
  PROVE  QueueInv' /\ WaiterIsQueued'
<1>1. \A l \in Lives : \A i \in DOMAIN queue[l] : queue[l][i] \in Calls
  BY Typed, ElementOfSeq, LenProperties
<1>2. QueueInv'
  BY <1>1, SMT DEF QueueInv
<1>3. WaiterIsQueued'
  BY SMT DEF WaiterIsQueued
<1>4. QED
  BY <1>2, <1>3

-----------------------------------------------------------------------------
(* A call that ends: the fields that the end sets. *)
LEMMA EndedCall ==
  ASSUME TypeOK, NEW c \in Calls
  PROVE  /\ Ended(c) \in CallRecord(life)
         /\ Ended(c).pc = "ended" /\ Ended(c).ended = life
         /\ Ended(c).born = call[c].born
<1>1. call[c] \in CallRecord(life) /\ life \in Nat /\ life \in 0 .. life
  BY Typed, SMT
<1>2. "ended" \in Statuses
  BY DEF Statuses
<1>3. QED
  BY <1>1, <1>2 DEF Ended, CallRecord

(* The end of the async with block: the permit of the call goes to the     *)
(* first waiter of the same semaphore, or back to that semaphore.          *)
LEMMA ReleaseStep ==
  ASSUME IInv, NEW c \in Calls, call[c].pc \in Holding, Release(c, Ended(c)),
         UNCHANGED <<life, _pool, broken>>, _metrics' \in [DOMAIN NoMetrics -> Int]
  PROVE  IInv' /\ Moves(c) /\ call'[c].pc = "ended"
<1> USE BackendAssumption
<1>0. PICK l : l = call[c].born
  OBVIOUS
<1>1. TypeOK /\ QueueInv /\ WaiterIsQueued /\ CallInv /\ PermitsConserved
  BY DEF IInv
<1>2. /\ life \in Nat /\ call \in [Calls -> CallRecord(life)]
      /\ \A m \in Lives : free[m] \in 0 .. max_in_flight /\ queue[m] \in Seq(Calls)
  BY <1>1, Typed
<1>3. l \in 1 .. life /\ l \in Lives
  BY <1>0, <1>1, Typed DEF CallInv, Holding, InPool
<1>4. /\ Ended(c) \in CallRecord(life) /\ Ended(c).pc = "ended"
      /\ Ended(c).ended = life /\ Ended(c).born = l
  BY <1>0, <1>1, EndedCall
<1>5. c \in Holders(l) /\ IsFiniteSet(Holders(l))
      /\ free[l] + Cardinality(Holders(l)) = max_in_flight
  <2>1. Holders(l) \subseteq Inside
    BY DEF Holders, Inside, Holding, InPool
  <2>2. QED
    BY <1>0, <1>1, <1>3, <2>1, FS_Subset DEF IInv, Holders, PermitsConserved
<1>6. /\ IsFiniteSet(Holders(l) \ {c}) /\ Cardinality(Holders(l) \ {c}) \in Nat
      /\ Cardinality(Holders(l)) = Cardinality(Holders(l) \ {c}) + 1
  BY <1>5, CardRemove
<1>7. \A m \in Lives : \A i \in DOMAIN queue[m] : queue[m][i] \in Calls
  BY <1>2, ElementOfSeq, LenProperties, SMT
<1>8. CASE queue[l] = <<>>
  <2>1. /\ call' = [call EXCEPT ![c] = Ended(c)]
        /\ free' = [free EXCEPT ![l] = @ + 1]
        /\ queue' = queue
    BY <1>0, <1>8 DEF Release
  <2>2. /\ call' \in [Calls -> CallRecord(life)]
        /\ call'[c] = Ended(c)
        /\ \A b \in Calls \ {c} : call'[b] = call[b]
    BY <1>2, <1>4, <2>1
  <2>3. /\ free'[l] = free[l] + 1
        /\ \A m \in Lives \ {l} : free'[m] = free[m]
    BY <1>1, <1>3, <2>1 DEF TypeOK
  <2>4. free' \in [Lives -> 0 .. max_in_flight]
    <3>1. free[l] + 1 \in 0 .. max_in_flight
      BY <1>2, <1>3, <1>5, <1>6, SMT
    <3>2. QED
      BY <1>1, <1>3, <2>1, <3>1 DEF TypeOK
  <2>5. TypeOK'
    BY <1>1, <2>1, <2>2, <2>4 DEF TypeOK, CallRecord, Statuses
  <2>6. Moves(c)
    BY <1>0, <1>3, <1>4, <2>2 DEF Moves, Holding, InPool
  <2>7. QueueInv' /\ WaiterIsQueued'
    <3>1. \A b \in Calls : /\ call'[b].pc = "waiting" <=> call[b].pc = "waiting"
                           /\ call[b].pc = "waiting" => call'[b].born = call[b].born
      BY <1>4, <2>2 DEF Holding, InPool
    <3>2. QED
      BY <1>1, <2>1, <3>1, QueueKept
  <2>8. PermitsConserved'
    <3>1. Holders(l)' = Holders(l) \ {c}
      BY <1>0, <1>4, <2>2 DEF Holders, Holding, InPool
    <3>2. \A m \in 1 .. life : m # l => Holders(m)' = Holders(m)
      BY <1>0, <1>4, <2>2 DEF Holders, Holding, InPool
    <3>3. \A m \in 1 .. life : m \in Lives
      BY <1>1, Typed
    <3>4. free'[l] + Cardinality(Holders(l)') = max_in_flight
      <4>1. Cardinality(Holders(l)') = Cardinality(Holders(l) \ {c})
        BY <3>1
      <4>2. free[l] \in Nat
        BY <1>2, <1>3, SMT
      <4>3. QED
        BY <1>5, <1>6, <2>3, <4>1, <4>2, SMT
    <3>5. ASSUME NEW m \in 1 .. life
          PROVE  free'[m] + Cardinality(Holders(m)') = max_in_flight
      BY <1>1, <2>3, <3>2, <3>3, <3>4 DEF PermitsConserved
    <3>6. QED
      BY <3>5 DEF PermitsConserved
  <2>9. QED
    BY <1>4, <2>2, <2>5, <2>6, <2>7, <2>8, MoveShape DEF IInv
<1>9. CASE queue[l] # <<>>
  <2>0. PICK h : h = Head(queue[l])
    OBVIOUS
  <2>1. /\ h \in Calls /\ h = Head(queue[l]) /\ Tail(queue[l]) \in Seq(Calls)
        /\ Len(queue[l]) \in Nat \ {0} /\ h = queue[l][1]
        /\ Len(Tail(queue[l])) = Len(queue[l]) - 1
        /\ \A i \in 1 .. Len(queue[l]) - 1 : Tail(queue[l])[i] = queue[l][i + 1]
    BY <1>2, <1>3, <1>9, <2>0, HeadTailProperties, EmptySeq, LenProperties, SMT
  <2>2. \A m \in Lives : DOMAIN queue[m] = 1 .. Len(queue[m]) /\ Len(queue[m]) \in Nat
    BY <1>2, LenProperties
  <2>3. call[h].pc = "waiting" /\ call[h].born = l /\ h # c
    BY <1>1, <1>3, <2>1, <2>2, SMT DEF QueueInv, Holding, InPool
  <2>4. /\ call' = [call EXCEPT ![c] = Ended(c), ![h].pc = "granted"]
        /\ queue' = [queue EXCEPT ![l] = Tail(@)]
        /\ free' = free
    BY <1>0, <1>9, <2>1 DEF Release
  <2>5. /\ [call[h] EXCEPT !.pc = "granted"] \in CallRecord(life)
        /\ [call[h] EXCEPT !.pc = "granted"].pc = "granted"
        /\ [call[h] EXCEPT !.pc = "granted"].born = call[h].born
        /\ [call[h] EXCEPT !.pc = "granted"].pool = call[h].pool
        /\ [call[h] EXCEPT !.pc = "granted"].ended = call[h].ended
    <3>1. call[h] \in CallRecord(life) /\ "granted" \in Statuses /\ life \in 0 .. life
      BY <1>2, <2>1, SMT DEF Statuses, Holding
    <3>2. QED
      BY <1>2, <3>1 DEF CallRecord
  <2>6. /\ call' \in [Calls -> CallRecord(life)]
        /\ call'[c] = Ended(c)
        /\ call'[h] = [call[h] EXCEPT !.pc = "granted"]
        /\ \A b \in Calls \ {c, h} : call'[b] = call[b]
    BY <1>2, <1>4, <2>1, <2>3, <2>4, <2>5
  <2>7. /\ queue'[l] = Tail(queue[l])
        /\ \A m \in Lives \ {l} : queue'[m] = queue[m]
        /\ queue' \in [Lives -> Seq(Calls)]
    BY <1>1, <1>3, <2>1, <2>4 DEF TypeOK
  <2>8. TypeOK'
    BY <1>1, <2>4, <2>6, <2>7 DEF TypeOK, CallRecord, Statuses
  <2>9. Grants(h)
    BY <2>3, <2>5, <2>6 DEF Grants
  <2>10. Moves(c)
    BY <1>0, <1>3, <1>4, <2>6, <2>9 DEF Moves, Holding, InPool
  <2>11. QueueInv'
    <3> SUFFICES ASSUME NEW m \in Lives
                 PROVE  /\ \A i \in DOMAIN queue'[m] : /\ call'[queue'[m][i]].pc = "waiting"
                                                       /\ call'[queue'[m][i]].born = m
                        /\ \A i, j \in DOMAIN queue'[m] : queue'[m][i] = queue'[m][j] => i = j
      BY DEF QueueInv
    <3>1. CASE m = l
      <4>1. DOMAIN queue'[l] = 1 .. Len(queue[l]) - 1
        BY <2>1, <2>7, LenProperties
      <4>2. \A i \in 1 .. Len(queue[l]) - 1 :
              /\ queue'[l][i] = queue[l][i + 1]
              /\ i + 1 \in 1 .. Len(queue[l])
              /\ i + 1 # 1
        BY <2>1, <2>7, SMT
      <4>3. \A i \in 1 .. Len(queue[l]) - 1 :
              /\ queue[l][i + 1] \notin {h, c}
              /\ queue[l][i + 1] \in Calls
              /\ call[queue[l][i + 1]].pc = "waiting"
              /\ call[queue[l][i + 1]].born = l
        BY <1>1, <1>3, <1>7, <2>1, <2>2, <4>2, SMT DEF QueueInv, Holding, InPool
      <4>4. \A i \in DOMAIN queue'[l] : /\ call'[queue'[l][i]].pc = "waiting"
                                        /\ call'[queue'[l][i]].born = l
        <5> SUFFICES ASSUME NEW i \in 1 .. Len(queue[l]) - 1
                     PROVE  /\ call'[queue'[l][i]].pc = "waiting"
                            /\ call'[queue'[l][i]].born = l
          BY <4>1
        <5>1. call'[queue[l][i + 1]] = call[queue[l][i + 1]]
          BY <2>6, <4>3
        <5>2. QED
          BY <4>2, <4>3, <5>1
      <4>5. \A i, j \in DOMAIN queue'[l] : queue'[l][i] = queue'[l][j] => i = j
        <5> SUFFICES ASSUME NEW i \in 1 .. Len(queue[l]) - 1, NEW j \in 1 .. Len(queue[l]) - 1,
                            queue'[l][i] = queue'[l][j]
                     PROVE  i = j
          BY <4>1
        <5>1. /\ queue[l][i + 1] = queue[l][j + 1]
              /\ i + 1 \in DOMAIN queue[l] /\ j + 1 \in DOMAIN queue[l]
          BY <1>3, <2>2, <4>2
        <5>2. i + 1 = j + 1
          BY <1>1, <1>3, <5>1 DEF QueueInv
        <5>3. QED
          BY <5>2, SMT
      <4>6. QED
        BY <3>1, <4>4, <4>5
    <3>2. CASE m # l
      <4>1. \A i \in DOMAIN queue[m] : queue[m][i] \notin {h, c} /\ queue[m][i] \in Calls
        BY <1>1, <1>7, <2>3, <3>2, SMT DEF QueueInv, Holding, InPool
      <4>2. queue'[m] = queue[m]
        BY <2>7, <3>2
      <4>3. QED
        BY <1>1, <2>6, <4>1, <4>2, SMT DEF QueueInv
    <3>3. QED
      BY <3>1, <3>2
  <2>12. WaiterIsQueued'
    <3> SUFFICES ASSUME NEW b \in Calls, call'[b].pc = "waiting"
                 PROVE  \E i \in DOMAIN queue'[call'[b].born] : queue'[call'[b].born][i] = b
      BY DEF WaiterIsQueued
    <3>1. b \notin {c, h} /\ call'[b] = call[b]
      BY <1>4, <2>5, <2>6
    <3>2. PICK i \in DOMAIN queue[call[b].born] : queue[call[b].born][i] = b
      BY <1>1, <3>1 DEF WaiterIsQueued
    <3>3. call[b].born \in Lives
      BY <1>1, <3>1, Typed DEF CallInv
    <3>4. CASE call[b].born # l
      BY <2>7, <3>1, <3>2, <3>3, <3>4
    <3>5. CASE call[b].born = l
      <4>1. i \in 1 .. Len(queue[l]) /\ i # 1
        BY <1>3, <2>1, <2>2, <3>1, <3>2, <3>5
      <4>2. i - 1 \in 1 .. Len(queue[l]) - 1 /\ (i - 1) + 1 = i
        BY <2>1, <4>1, SMT
      <4>3. i - 1 \in DOMAIN queue'[l] /\ queue'[l][i - 1] = b
        <5>1. DOMAIN queue'[l] = 1 .. Len(queue[l]) - 1
          BY <2>1, <2>7, LenProperties
        <5>2. queue'[l][i - 1] = queue[l][(i - 1) + 1]
          BY <2>1, <2>7, <4>2
        <5>3. QED
          BY <3>2, <3>5, <4>2, <5>1, <5>2
      <4>4. QED
        BY <3>1, <3>5, <4>3
    <3>6. QED
      BY <3>4, <3>5
  <2>13. PermitsConserved'
    <3>0. /\ call'[c].pc \notin Holding
          /\ call'[h].pc \in Holding /\ call'[h].born = l
          /\ call[h].pc \notin Holding
      BY <1>4, <2>3, <2>5, <2>6 DEF Holding, InPool
    <3>1. Holders(l)' = (Holders(l) \ {c}) \cup {h} /\ h \notin Holders(l) \ {c}
      BY <2>1, <2>6, <3>0, SMT DEF Holders
    <3>2. \A m \in 1 .. life : m # l => Holders(m)' = Holders(m)
      <4> SUFFICES ASSUME NEW m \in 1 .. life, m # l
                   PROVE  Holders(m)' = Holders(m)
        OBVIOUS
      <4>1. \A b \in Calls : b \notin {c, h} => call'[b] = call[b]
        BY <2>6
      <4>2. call[c].born # m /\ call'[h].born # m
        BY <1>0, <3>0
      <4>3. QED
        BY <3>0, <4>1, <4>2 DEF Holders
    <3>3. Cardinality(Holders(l)') = Cardinality(Holders(l))
      BY <1>6, <3>1, CardAdd
    <3>4. ASSUME NEW m \in 1 .. life
          PROVE  free'[m] + Cardinality(Holders(m)') = max_in_flight
      BY <1>1, <1>5, <2>4, <3>2, <3>3 DEF PermitsConserved
    <3>5. QED
      BY <3>4 DEF PermitsConserved
  <2>14. QED
    BY <1>4, <2>6, <2>8, <2>10, <2>11, <2>12, <2>13, MoveShape, SMT DEF IInv
<1>10. QED
  BY <1>8, <1>9

(* What the updates of the metrics do to the running calls, the submitted *)
(* ones and the outcomes counted.                                          *)
Outcomes(m) == m.completed + m.failed + m.backend_errors

LEMMA MetricsUpdates ==
  ASSUME _metrics \in [DOMAIN NoMetrics -> Int], NEW n,
         NEW r \in {-1, 0, 1}, NEW u \in {0, 1}, NEW o \in {0, 1},
         \/ n = _metrics /\ r = 0 /\ u = 0 /\ o = 0
         \/ n = [_metrics EXCEPT !.submitted = @ + 1] /\ r = 0 /\ u = 1 /\ o = 0
         \/ n = [_metrics EXCEPT !.submitted = @ + 1, !.running = @ + 1]
              /\ r = 1 /\ u = 1 /\ o = 0
         \/ n = [_metrics EXCEPT !.submitted = @ + 1, !.backend_errors = @ + 1]
              /\ r = 0 /\ u = 1 /\ o = 1
         \/ n = [_metrics EXCEPT !.running = @ + 1] /\ r = 1 /\ u = 0 /\ o = 0
         \/ n = [_metrics EXCEPT !.backend_errors = @ + 1] /\ r = 0 /\ u = 0 /\ o = 1
         \/ n = [_metrics EXCEPT !.running = @ - 1] /\ r = -1 /\ u = 0 /\ o = 0
         \/ (\E field \in {"completed", "failed", "backend_errors"} : n = Counted(field))
              /\ r = -1 /\ u = 0 /\ o = 1
  PROVE  /\ n \in [DOMAIN NoMetrics -> Int]
         /\ n.running = _metrics.running + r
         /\ n.submitted = _metrics.submitted + u
         /\ Outcomes(n) = Outcomes(_metrics) + o
<1>1. CASE n = _metrics /\ r = 0 /\ u = 0 /\ o = 0
  BY <1>1, SMT DEF NoMetrics, Outcomes
<1>2. CASE n = [_metrics EXCEPT !.submitted = @ + 1] /\ r = 0 /\ u = 1 /\ o = 0
  BY <1>2, SMT DEF NoMetrics, Outcomes
<1>3. CASE n = [_metrics EXCEPT !.submitted = @ + 1, !.running = @ + 1]
             /\ r = 1 /\ u = 1 /\ o = 0
  <2>1. PICK m : m = [_metrics EXCEPT !.submitted = @ + 1]
    OBVIOUS
  <2>2. /\ m \in [DOMAIN NoMetrics -> Int] /\ m.submitted = _metrics.submitted + 1
        /\ m.running = _metrics.running /\ m.completed = _metrics.completed
        /\ m.failed = _metrics.failed /\ m.backend_errors = _metrics.backend_errors
    BY <2>1, SMT DEF NoMetrics
  <2>3. n = [m EXCEPT !.running = @ + 1]
    BY <1>3, <2>1, <2>2
  <2>4. QED
    BY <1>3, <2>2, <2>3, SMT DEF NoMetrics, Outcomes
<1>4. CASE n = [_metrics EXCEPT !.submitted = @ + 1, !.backend_errors = @ + 1]
             /\ r = 0 /\ u = 1 /\ o = 1
  <2>1. PICK m : m = [_metrics EXCEPT !.submitted = @ + 1]
    OBVIOUS
  <2>2. /\ m \in [DOMAIN NoMetrics -> Int] /\ m.submitted = _metrics.submitted + 1
        /\ m.running = _metrics.running /\ m.completed = _metrics.completed
        /\ m.failed = _metrics.failed /\ m.backend_errors = _metrics.backend_errors
    BY <2>1, SMT DEF NoMetrics
  <2>3. n = [m EXCEPT !.backend_errors = @ + 1]
    BY <1>4, <2>1, <2>2
  <2>4. QED
    BY <1>4, <2>2, <2>3, SMT DEF NoMetrics, Outcomes
<1>5. CASE n = [_metrics EXCEPT !.running = @ + 1] /\ r = 1 /\ u = 0 /\ o = 0
  BY <1>5, SMT DEF NoMetrics, Outcomes
<1>6. CASE n = [_metrics EXCEPT !.backend_errors = @ + 1] /\ r = 0 /\ u = 0 /\ o = 1
  BY <1>6, SMT DEF NoMetrics, Outcomes
<1>7. CASE n = [_metrics EXCEPT !.running = @ - 1] /\ r = -1 /\ u = 0 /\ o = 0
  BY <1>7, SMT DEF NoMetrics, Outcomes
<1>8. CASE (\E field \in {"completed", "failed", "backend_errors"} : n = Counted(field))
             /\ r = -1 /\ u = 0 /\ o = 1
  <2>1. CASE n = Counted("completed")
    BY <1>8, <2>1, SMT DEF NoMetrics, Outcomes, Counted
  <2>2. CASE n = Counted("failed")
    BY <1>8, <2>2, SMT DEF NoMetrics, Outcomes, Counted
  <2>3. CASE n = Counted("backend_errors")
    BY <1>8, <2>3, SMT DEF NoMetrics, Outcomes, Counted
  <2>4. QED
    BY <1>8, <2>1, <2>2, <2>3
<1>9. QED
  BY <1>1, <1>2, <1>3, <1>4, <1>5, <1>6, <1>7, <1>8

(* execute: a call that is refused, that finds a permit, or that waits. *)
LEMMA ExecuteStep ==
  ASSUME IInv, NEW c \in Calls, execute(c)
  PROVE  IInv' /\ Moves(c) /\ life' = life /\ call[c].pc = "idle"
<1> USE BackendAssumption
<1>1. TypeOK /\ QueueInv /\ WaiterIsQueued /\ CallInv /\ PermitsConserved
  BY DEF IInv
<1>2. /\ life \in Nat /\ call \in [Calls -> CallRecord(life)] /\ _pool \in 0 .. life
      /\ \A m \in 1 .. life : m \in Lives
      /\ \A m \in Lives : free[m] \in 0 .. max_in_flight /\ queue[m] \in Seq(Calls)
  BY <1>1, Typed
<1>3. life' = life /\ _pool' = _pool /\ broken' = broken /\ call[c].pc = "idle"
  BY DEF execute, execute_Rejected, execute_Submits, execute_Raises, execute_Waits
<1>4. _metrics' \in [DOMAIN NoMetrics -> Int]
  <2>0. _metrics \in [DOMAIN NoMetrics -> Int]
    BY <1>1 DEF TypeOK
  <2>1. \/ _metrics' = _metrics
        \/ _metrics' = [_metrics EXCEPT !.submitted = @ + 1]
        \/ _metrics' = [_metrics EXCEPT !.submitted = @ + 1, !.running = @ + 1]
        \/ _metrics' = [_metrics EXCEPT !.submitted = @ + 1, !.backend_errors = @ + 1]
    BY DEF execute, execute_Rejected, execute_Submits, execute_Raises, execute_Waits
  <2>2. QED
    BY <2>0, <2>1, MetricsUpdates
<1>5. broken \subseteq Lives /\ 0 \notin Lives
  BY <1>1, SMT DEF TypeOK, Lives
<1>6. /\ Ended(c) \in CallRecord(life) /\ Ended(c).pc = "ended"
      /\ Ended(c).ended = life /\ Ended(c).born = call[c].born
  BY <1>1, EndedCall
<1>7. CASE execute_Rejected(c) \/ execute_Raises(c)
  <2>1. PICK e \in CallRecord(life) : /\ call' = [call EXCEPT ![c] = e]
                                      /\ e.pc = "ended" /\ e.ended = life
    <3>1. CASE execute_Rejected(c)
      BY <1>6, <3>1 DEF execute_Rejected
    <3>2. CASE execute_Raises(c)
      <4>1. PICK e : e = [Ended(c) EXCEPT !.born = _pool]
        OBVIOUS
      <4>2. e \in CallRecord(life) /\ e.pc = "ended" /\ e.ended = life
        BY <1>2, <1>6, <4>1 DEF CallRecord
      <4>3. QED
        BY <3>2, <4>1, <4>2 DEF execute_Raises
    <3>3. QED
      BY <1>7, <3>1, <3>2
  <2>2. /\ call' \in [Calls -> CallRecord(life)] /\ call'[c] = e
        /\ \A b \in Calls \ {c} : call'[b] = call[b]
    BY <1>2, <2>1
  <2>3. UNCHANGED <<free, queue>>
    BY <1>7 DEF execute_Rejected, execute_Raises
  <2>4. TypeOK'
    BY <1>1, <1>3, <1>4, <2>2, <2>3 DEF TypeOK, CallRecord, Statuses
  <2>5. Moves(c)
    BY <1>3, <2>1, <2>2 DEF Moves, InPool
  <2>6. QueueInv' /\ WaiterIsQueued'
    BY <1>1, <1>3, <2>1, <2>2, <2>3, QueueKept
  <2>7. PermitsConserved'
    BY <1>1, <1>3, <2>1, <2>2, <2>3, PermitsKept DEF Holding, InPool
  <2>8. QED
    BY <1>3, <2>4, <2>5, <2>6, <2>7, MoveShape DEF IInv
<1>8. CASE execute_Submits(c)
  <2>1. PICK p : p = _pool
    OBVIOUS
  <2>2. p \in 1 .. life /\ p \in Lives /\ free[p] > 0
    BY <1>2, <1>8, <2>1, SMT DEF execute_Submits
  <2>3. PICK e \in CallRecord(life) : /\ call' = [call EXCEPT ![c] = e]
                                      /\ e.pc = "submitted" /\ e.born = p /\ e.pool = p
    <3>1. PICK d : d = InPoolNow(c)
      OBVIOUS
    <3>2. "submitted" \in Statuses
      BY DEF Statuses, Holding, InPool
    <3>3. d \in CallRecord(life) /\ d.pc = "submitted" /\ d.pool = p
      BY <1>2, <2>1, <3>1, <3>2 DEF InPoolNow, CallRecord
    <3>4. PICK e : e = [d EXCEPT !.born = p]
      OBVIOUS
    <3>5. e \in CallRecord(life) /\ e.pc = "submitted" /\ e.born = p /\ e.pool = p
      BY <1>2, <2>1, <3>3, <3>4 DEF CallRecord
    <3>6. QED
      BY <1>8, <2>1, <3>1, <3>4, <3>5 DEF execute_Submits
  <2>4. /\ call' \in [Calls -> CallRecord(life)] /\ call'[c] = e
        /\ \A b \in Calls \ {c} : call'[b] = call[b]
    BY <1>2, <2>3
  <2>5. /\ free' \in [Lives -> 0 .. max_in_flight] /\ queue' = queue
        /\ free'[p] = free[p] - 1 /\ \A m \in Lives \ {p} : free'[m] = free[m]
    <3>1. free[p] - 1 \in 0 .. max_in_flight
      BY <1>2, <2>2, SMT
    <3>2. QED
      BY <1>1, <1>8, <2>1, <2>2, <3>1 DEF execute_Submits, Acquired, TypeOK
  <2>6. TypeOK'
    BY <1>1, <1>3, <1>4, <2>4, <2>5 DEF TypeOK, CallRecord, Statuses
  <2>7. Moves(c)
    BY <1>3, <2>2, <2>3, <2>4 DEF Moves, InPool
  <2>8. QueueInv' /\ WaiterIsQueued'
    BY <1>1, <1>3, <2>3, <2>4, <2>5, QueueKept
  <2>9. PermitsConserved'
    <3>1. Holders(p)' = Holders(p) \cup {c} /\ c \notin Holders(p)
      BY <1>3, <2>3, <2>4 DEF Holders, Holding, InPool
    <3>2. \A m \in 1 .. life : m # p => Holders(m)' = Holders(m)
      BY <1>3, <2>3, <2>4 DEF Holders, Holding, InPool
    <3>3. IsFiniteSet(Holders(p)) /\ free[p] + Cardinality(Holders(p)) = max_in_flight
      <4>1. Holders(p) \subseteq Inside
        BY DEF Holders, Inside, Holding, InPool
      <4>2. QED
        BY <1>1, <2>2, <4>1, FS_Subset DEF IInv, PermitsConserved
    <3>4. Cardinality(Holders(p)) \in Nat /\ Cardinality(Holders(p)') = Cardinality(Holders(p)) + 1
      BY <3>1, <3>3, CardAdd
    <3>5. free'[p] + Cardinality(Holders(p)') = max_in_flight
      <4>1. free[p] \in Nat
        BY <1>2, <2>2, SMT
      <4>2. QED
        BY <2>5, <3>3, <3>4, <4>1, SMT
    <3>6. ASSUME NEW m \in 1 .. life
          PROVE  free'[m] + Cardinality(Holders(m)') = max_in_flight
      BY <1>1, <1>2, <2>5, <3>2, <3>5 DEF PermitsConserved
    <3>7. QED
      BY <1>3, <3>6 DEF PermitsConserved
  <2>10. QED
    BY <1>3, <2>6, <2>7, <2>8, <2>9, MoveShape DEF IInv
<1>9. CASE execute_Waits(c)
  <2>1. PICK p : p = _pool
    OBVIOUS
  <2>2. p \in 1 .. life /\ p \in Lives
    BY <1>2, <1>9, <2>1, SMT DEF execute_Waits
  <2>3. PICK e \in CallRecord(life) : /\ call' = [call EXCEPT ![c] = e]
                                      /\ e.pc = "waiting" /\ e.born = p
    <3>1. PICK d : d = [call[c] EXCEPT !.pc = "waiting"]
      OBVIOUS
    <3>2. d \in CallRecord(life) /\ d.pc = "waiting"
      BY <1>2, <3>1, SMTT(30) DEF CallRecord, Statuses
    <3>3. PICK e : e = [d EXCEPT !.born = p]
      OBVIOUS
    <3>4. e \in CallRecord(life) /\ e.pc = "waiting" /\ e.born = p
      BY <1>2, <2>1, <3>2, <3>3 DEF CallRecord
    <3>5. call' = [call EXCEPT ![c] = e]
      BY <1>2, <1>9, <2>1, <3>1, <3>3 DEF execute_Waits, CallRecord
    <3>6. QED
      BY <3>4, <3>5
  <2>4. /\ call' \in [Calls -> CallRecord(life)] /\ call'[c] = e
        /\ \A b \in Calls \ {c} : call'[b] = call[b]
    BY <1>2, <2>3
  <2>5. /\ free' = free
        /\ queue'[p] = Append(queue[p], c) /\ queue' \in [Lives -> Seq(Calls)]
        /\ \A m \in Lives \ {p} : queue'[m] = queue[m]
    BY <1>1, <1>9, <2>1, <2>2, SMT DEF execute_Waits, TypeOK
  <2>6. /\ Len(queue[p]) \in Nat /\ DOMAIN queue[p] = 1 .. Len(queue[p])
        /\ DOMAIN queue'[p] = 1 .. Len(queue[p]) + 1
        /\ \A i \in 1 .. Len(queue[p]) : queue'[p][i] = queue[p][i]
        /\ queue'[p][Len(queue[p]) + 1] = c
    <3>1. Append(queue[p], c) \in Seq(Calls) /\ Len(Append(queue[p], c)) = Len(queue[p]) + 1
      BY <1>2, <2>2, AppendProperties, SMT
    <3>2. QED
      BY <1>2, <2>2, <2>5, <3>1, AppendProperties, LenProperties, SMT
  <2>7. TypeOK'
    BY <1>1, <1>3, <1>4, <2>4, <2>5 DEF TypeOK, CallRecord, Statuses
  <2>8. Moves(c)
    BY <1>3, <2>2, <2>3, <2>4 DEF Moves, InPool
  <2>9. \A m \in Lives : \A i \in DOMAIN queue[m] :
          /\ queue[m][i] \in Calls \ {c}
          /\ call'[queue[m][i]].pc = "waiting" /\ call'[queue[m][i]].born = m
    <3> SUFFICES ASSUME NEW m \in Lives, NEW i \in DOMAIN queue[m]
                 PROVE  /\ queue[m][i] \in Calls \ {c}
                        /\ call'[queue[m][i]].pc = "waiting" /\ call'[queue[m][i]].born = m
      OBVIOUS
    <3>1. queue[m][i] \in Calls
      BY <1>2, ElementOfSeq, LenProperties
    <3>2. call[queue[m][i]].pc = "waiting" /\ call[queue[m][i]].born = m
      BY <1>1 DEF QueueInv
    <3>3. queue[m][i] # c
      BY <1>3, <3>2
    <3>4. QED
      BY <2>4, <3>1, <3>2, <3>3
  <2>10. QueueInv'
    <3> SUFFICES ASSUME NEW m \in Lives
                 PROVE  /\ \A i \in DOMAIN queue'[m] : /\ call'[queue'[m][i]].pc = "waiting"
                                                       /\ call'[queue'[m][i]].born = m
                        /\ \A i, j \in DOMAIN queue'[m] : queue'[m][i] = queue'[m][j] => i = j
      BY DEF QueueInv
    <3>1. CASE m = p
      <4>1. \A i \in DOMAIN queue'[p] :
              \/ i \in DOMAIN queue[p] /\ queue'[p][i] = queue[p][i]
              \/ i = Len(queue[p]) + 1 /\ queue'[p][i] = c
        BY <2>6, SMT
      <4>2. \A i \in DOMAIN queue'[p] : /\ call'[queue'[p][i]].pc = "waiting"
                                        /\ call'[queue'[p][i]].born = p
        BY <2>2, <2>3, <2>4, <2>9, <4>1, SMT
      <4>3. \A i, j \in DOMAIN queue'[p] : queue'[p][i] = queue'[p][j] => i = j
        BY <1>1, <2>2, <2>9, <4>1, SMT DEF QueueInv
      <4>4. QED
        BY <3>1, <4>2, <4>3
    <3>2. CASE m # p
      <4>1. queue'[m] = queue[m]
        BY <2>5, <3>2
      <4>2. QED
        BY <1>1, <2>9, <4>1, SMT DEF QueueInv
    <3>3. QED
      BY <3>1, <3>2
  <2>11. WaiterIsQueued'
    <3> SUFFICES ASSUME NEW b \in Calls, call'[b].pc = "waiting"
                 PROVE  \E i \in DOMAIN queue'[call'[b].born] : queue'[call'[b].born][i] = b
      BY DEF WaiterIsQueued
    <3>1. CASE b = c
      <4>1. Len(queue[p]) + 1 \in DOMAIN queue'[p] /\ call'[b].born = p
        BY <2>3, <2>4, <2>6, <3>1, SMT
      <4>2. QED
        BY <2>6, <3>1, <4>1
    <3>2. CASE b # c
      <4>1. call'[b] = call[b] /\ call[b].born \in Lives
        BY <1>1, <1>2, <2>4, <3>2 DEF CallInv
      <4>2. PICK i \in DOMAIN queue[call[b].born] : queue[call[b].born][i] = b
        BY <1>1, <4>1 DEF WaiterIsQueued
      <4>3. i \in DOMAIN queue'[call[b].born] /\ queue'[call[b].born][i] = b
        <5>1. CASE call[b].born = p
          BY <2>6, <4>2, <5>1, SMT
        <5>2. CASE call[b].born # p
          BY <2>5, <4>1, <4>2, <5>2
        <5>3. QED
          BY <5>1, <5>2
      <4>4. QED
        BY <4>1, <4>3
    <3>3. QED
      BY <3>1, <3>2
  <2>12. PermitsConserved'
    BY <1>1, <1>3, <2>3, <2>4, <2>5, PermitsKept DEF Holding, InPool
  <2>13. QED
    BY <1>3, <2>7, <2>8, <2>10, <2>11, <2>12, MoveShape DEF IInv
<1>10. QED
  BY <1>7, <1>8, <1>9 DEF execute

(* A call that has its permit goes on: into the pool, and into a child. *)
LEMMA GoesOnStep ==
  ASSUME IInv, NEW c \in Calls, Submits(c) \/ ChildStarts(c)
  PROVE  /\ IInv' /\ Moves(c) /\ life' = life
         /\ call[c].pc \in Holding /\ call'[c].pc \in InPool
<1> USE BackendAssumption
<1>1. TypeOK /\ QueueInv /\ WaiterIsQueued /\ CallInv /\ PermitsConserved
  BY DEF IInv
<1>2. life \in Nat /\ call \in [Calls -> CallRecord(life)] /\ _pool \in 0 .. life
  BY <1>1, Typed
<1>3. UNCHANGED <<life, _pool, broken, free, queue>> /\ call[c].pc \in Holding
  BY DEF Submits, ChildStarts, Holding, InPool
<1>4. _metrics' \in [DOMAIN NoMetrics -> Int]
  <2>0. _metrics \in [DOMAIN NoMetrics -> Int]
    BY <1>1 DEF TypeOK
  <2>1. _metrics' = _metrics \/ _metrics' = [_metrics EXCEPT !.running = @ + 1]
    BY DEF Submits, ChildStarts
  <2>2. QED
    BY <2>0, <2>1, MetricsUpdates
<1>5. PICK e \in CallRecord(life) : /\ call' = [call EXCEPT ![c] = e]
                                    /\ e.pc \in InPool /\ e.born = call[c].born
                                    /\ e.pool \in 1 .. life
  <2>1. CASE Submits(c)
    <3>1. PICK e : e = InPoolNow(c)
      OBVIOUS
    <3>2. "submitted" \in Statuses /\ _pool \in 1 .. life
      BY <1>2, <2>1, SMT DEF Statuses, Holding, InPool, Submits, CanSubmit
    <3>3. /\ e \in CallRecord(life) /\ e.pc = "submitted" /\ e.pool = _pool
          /\ e.born = call[c].born
      BY <1>2, <3>1, <3>2 DEF InPoolNow, CallRecord
    <3>4. QED
      BY <2>1, <3>1, <3>2, <3>3 DEF Submits, InPool
  <2>2. CASE ChildStarts(c)
    <3>1. PICK e : e = [call[c] EXCEPT !.pc = "executing"]
      OBVIOUS
    <3>2. "executing" \in Statuses /\ call[c].pool \in 1 .. life
      BY <1>1, <2>2 DEF Statuses, Holding, InPool, ChildStarts, CallInv
    <3>3. /\ e \in CallRecord(life) /\ e.pc = "executing" /\ e.pool = call[c].pool
          /\ e.born = call[c].born
      BY <1>2, <3>1, <3>2 DEF CallRecord
    <3>4. call' = [call EXCEPT ![c] = e]
      BY <2>2, <3>1 DEF ChildStarts
    <3>5. QED
      BY <3>2, <3>3, <3>4 DEF InPool
  <2>3. QED
    BY <2>1, <2>2
<1>6. /\ call' \in [Calls -> CallRecord(life)] /\ call'[c] = e
      /\ \A b \in Calls \ {c} : call'[b] = call[b]
  BY <1>2, <1>5
<1>7. TypeOK'
  BY <1>1, <1>3, <1>4, <1>6 DEF TypeOK, CallRecord, Statuses
<1>8. call[c].pc \notin {"idle", "ended", "waiting"} /\ call[c].born \in 1 .. life
  BY <1>1, <1>3 DEF Holding, InPool, CallInv
<1>9. Moves(c)
  BY <1>3, <1>5, <1>6, <1>8 DEF Moves, InPool
<1>10. QueueInv' /\ WaiterIsQueued'
  BY <1>1, <1>3, <1>5, <1>6, <1>8, QueueKept DEF InPool
<1>11. PermitsConserved'
  BY <1>1, <1>3, <1>5, <1>6, PermitsKept DEF Holding
<1>12. QED
  BY <1>3, <1>5, <1>6, <1>7, <1>9, <1>10, <1>11, MoveShape DEF IInv

(* A call that is cancelled while it waits leaves the queue; the others    *)
(* keep their places in it.                                                *)
LEMMA CancelledWaitingStep ==
  ASSUME IInv, NEW c \in Calls, CancelledWaiting(c)
  PROVE  IInv' /\ Moves(c) /\ call[c].pc = "waiting" /\ call'[c].pc = "ended"
<1> USE BackendAssumption
<1>1. TypeOK /\ QueueInv /\ WaiterIsQueued /\ CallInv /\ PermitsConserved
  BY DEF IInv
<1>2. /\ life \in Nat /\ call \in [Calls -> CallRecord(life)]
      /\ \A m \in 1 .. life : m \in Lives
      /\ \A m \in Lives : queue[m] \in Seq(Calls)
  BY <1>1, Typed
<1>3. UNCHANGED <<life, _pool, broken, free, _metrics>> /\ call[c].pc = "waiting"
  BY DEF CancelledWaiting
<1>4. PICK e \in CallRecord(life) : /\ call' = [call EXCEPT ![c] = e]
                                    /\ e.pc = "ended" /\ e.ended = life
                                    /\ e.born = call[c].born
  BY <1>1, EndedCall DEF CancelledWaiting
<1>5. /\ call' \in [Calls -> CallRecord(life)] /\ call'[c] = e
      /\ \A b \in Calls \ {c} : call'[b] = call[b]
  BY <1>2, <1>4
<1>6. PICK p : p = call[c].born
  OBVIOUS
<1>7. p \in 1 .. life /\ p \in Lives
  BY <1>1, <1>2, <1>3, <1>6 DEF CallInv
<1>8. PICK q : q = queue[p]
  OBVIOUS
<1>9. q \in Seq(Calls) /\ Len(q) \in Nat /\ DOMAIN q = 1 .. Len(q)
  BY <1>2, <1>7, <1>8, LenProperties
<1>10. PICK i \in DOMAIN q :
         /\ q[i] = c
         /\ queue' = [queue EXCEPT ![p] = Without(q, i)]
  BY <1>6, <1>8 DEF CancelledWaiting, Without
<1>11. PICK t : t = Without(q, i)
  OBVIOUS
<1>12. /\ t \in Seq(Calls) /\ Len(t) = Len(q) - 1
       /\ \A j \in 1 .. Len(q) - 1 : t[j] = IF j < i THEN q[j] ELSE q[j + 1]
  <2>1. i \in 1 .. Len(q) /\ q \in Seq(Calls)
    BY <1>9
  <2>2. t \in Seq(Calls) /\ Len(t) = Len(q) - 1 /\ Skips(t, q, i)
    BY <1>11, <2>1, LeaveQueue
  <2>3. QED
    BY <2>2 DEF Skips
<1>13. /\ queue' \in [Lives -> Seq(Calls)] /\ queue'[p] = t
       /\ \A m \in Lives \ {p} : queue'[m] = queue[m]
  BY <1>1, <1>7, <1>10, <1>11, <1>12 DEF TypeOK
<1>14. DOMAIN t = 1 .. Len(q) - 1
  BY <1>12, LenProperties
<1>15. TypeOK'
  BY <1>1, <1>3, <1>5, <1>13 DEF TypeOK, CallRecord, Statuses
<1>16. Moves(c)
  BY <1>3, <1>4, <1>5 DEF Moves, InPool
<1>17. /\ \A j \in DOMAIN q : call[q[j]].pc = "waiting" /\ call[q[j]].born = p
       /\ \A j, k \in DOMAIN q : q[j] = q[k] => j = k
  BY <1>1, <1>7, <1>8, SMT DEF QueueInv
<1>18. ASSUME NEW m \in Lives \ {p}, NEW j \in DOMAIN queue[m]
       PROVE  queue[m][j] \in Calls \ {c}
  <2>1. queue[m][j] \in Calls /\ call[queue[m][j]].born = m
    BY <1>1, <1>2, ElementOfSeq, LenProperties, SMT DEF QueueInv
  <2>2. QED
    BY <1>6, <2>1
<1>19. ASSUME NEW j \in DOMAIN t
       PROVE  \E k \in DOMAIN q : /\ k # i /\ t[j] = q[k] /\ t[j] \in Calls \ {c}
                                  /\ k = IF j < i THEN j ELSE j + 1
  <2>1. PICK k : k = IF j < i THEN j ELSE j + 1
    OBVIOUS
  <2>2. k \in DOMAIN q /\ k # i /\ t[j] = q[k]
    BY <1>9, <1>10, <1>12, <1>14, <2>1, SMT
  <2>3. q[k] \in Calls
    BY <1>9, <2>2, ElementOfSeq
  <2>4. q[k] # c
    BY <1>10, <1>17, <2>2
  <2>5. QED
    BY <2>1, <2>2, <2>3, <2>4
<1>20. QueueInv'
  <2> SUFFICES ASSUME NEW m \in Lives
               PROVE  /\ \A j \in DOMAIN queue'[m] : /\ call'[queue'[m][j]].pc = "waiting"
                                                     /\ call'[queue'[m][j]].born = m
                      /\ \A j, k \in DOMAIN queue'[m] : queue'[m][j] = queue'[m][k] => j = k
    BY DEF QueueInv
  <2>1. CASE m # p
    BY <1>1, <1>5, <1>13, <1>18, <2>1, SMT DEF QueueInv
  <2>2. CASE m = p
    <3>1. \A j \in DOMAIN t : call'[t[j]].pc = "waiting" /\ call'[t[j]].born = p
      BY <1>5, <1>17, <1>19, SMT
    <3>2. ASSUME NEW j \in DOMAIN t, NEW k \in DOMAIN t, t[j] = t[k]
          PROVE  j = k
      <4>1. (IF j < i THEN j ELSE j + 1) = (IF k < i THEN k ELSE k + 1)
        BY <1>17, <1>19, <3>2
      <4>2. j \in Int /\ k \in Int /\ i \in Int
        BY <1>9, <1>10, <1>14, SMT
      <4>3. QED
        BY <4>1, <4>2, SMT
    <3>3. QED
      BY <1>13, <2>2, <3>1, <3>2
  <2>3. QED
    BY <2>1, <2>2
<1>21. WaiterIsQueued'
  <2> SUFFICES ASSUME NEW b \in Calls, call'[b].pc = "waiting"
               PROVE  \E j \in DOMAIN queue'[call'[b].born] : queue'[call'[b].born][j] = b
    BY DEF WaiterIsQueued
  <2>1. b # c /\ call'[b] = call[b] /\ call[b].born \in Lives
    BY <1>1, <1>2, <1>4, <1>5 DEF CallInv
  <2>2. PICK j \in DOMAIN queue[call[b].born] : queue[call[b].born][j] = b
    BY <1>1, <2>1 DEF WaiterIsQueued
  <2>3. CASE call[b].born # p
    BY <1>13, <2>1, <2>2, <2>3
  <2>4. CASE call[b].born = p
    <3>1. j \in DOMAIN q /\ q[j] = b /\ j # i
      BY <1>8, <1>10, <2>1, <2>2, <2>4
    <3>2. PICK k : k = IF j < i THEN j ELSE j - 1
      OBVIOUS
    <3>3. k \in DOMAIN t /\ t[k] = q[j]
      BY <1>9, <1>10, <1>12, <1>14, <3>1, <3>2, SMT
    <3>4. QED
      BY <1>13, <2>1, <2>4, <3>1, <3>3
  <2>5. QED
    BY <2>3, <2>4
<1>22. PermitsConserved'
  BY <1>1, <1>3, <1>4, <1>5, PermitsKept DEF Holding, InPool
<1>23. QED
  BY <1>3, <1>4, <1>5, <1>15, <1>16, <1>20, <1>21, <1>22, MoveShape DEF IInv

(* A new lifetime has a full semaphore, and no call of it is under way. *)
LEMMA StartStep ==
  ASSUME IInv, start
  PROVE  IInv' /\ MetricsBalance'
<1> USE BackendAssumption
<1>1. TypeOK /\ QueueInv /\ WaiterIsQueued /\ CallInv /\ PermitsConserved
  BY DEF IInv
<1>2. /\ life \in Nat /\ call \in [Calls -> CallRecord(life)]
      /\ \A m \in 1 .. life : m \in Lives
  BY <1>1, Typed
<1>3. PICK n : n = life + 1
  OBVIOUS
<1>4. /\ life' = n /\ _pool' = n /\ _metrics' = NoMetrics
      /\ UNCHANGED <<broken, queue, call>> /\ n \in Lives
  BY <1>2, <1>3, SMT DEF start, Lives
<1>5. /\ free' \in [Lives -> 0 .. max_in_flight] /\ free'[n] = max_in_flight
      /\ \A m \in 1 .. life : free'[m] = free[m]
  BY <1>1, <1>2, <1>3, <1>4, SMT DEF start, TypeOK
<1>6. NoMetrics \in [DOMAIN NoMetrics -> Int]
  BY SMT DEF NoMetrics
<1>7. call \in [Calls -> CallRecord(n)]
  <2>1. \A c \in Calls : call[c] \in CallRecord(n)
    BY <1>2, <1>3, SMT DEF CallRecord
  <2>2. QED
    BY <1>2, <2>1
<1>8. TypeOK'
  BY <1>1, <1>4, <1>5, <1>6, <1>7, SMT DEF TypeOK, CallRecord, Statuses, Lives
<1>9. Inside' = Inside /\ Pooled' = Pooled
  BY <1>4 DEF Inside, Pooled
<1>10. CallInv'
  BY <1>1, <1>2, <1>3, <1>4, SMT DEF CallInv
<1>11. QueueInv' /\ WaiterIsQueued'
  BY <1>1, <1>4, QueueKept
<1>12. PermitsConserved'
  <2> SUFFICES ASSUME NEW m \in 1 .. n
               PROVE  free'[m] + Cardinality(Holders(m)') = max_in_flight
    BY <1>4 DEF PermitsConserved
  <2>1. Holders(m)' = Holders(m)
    BY <1>4 DEF Holders
  <2>2. CASE m = n
    <3>1. Holders(n) = {}
      BY <1>1, <1>2, <1>3, SMT DEF Holders, CallInv, Holding, InPool
    <3>2. QED
      BY <1>5, <2>1, <2>2, <3>1, FS_EmptySet, SMT
  <2>3. CASE m # n
    BY <1>1, <1>2, <1>3, <1>5, <2>1, <2>3, SMT DEF PermitsConserved
  <2>4. QED
    BY <2>2, <2>3
<1>13. MetricsBalance'
  <2> SUFFICES ASSUME OwnLife'
               PROVE  Sums'
    BY DEF MetricsBalance, OwnLife, Sums, Pooled
  <2>1. Inside' = {}
    BY <1>1, <1>2, <1>3, <1>4, SMT DEF OwnLife, Inside, CallInv
  <2>2. Pooled' = {}
    BY <2>1 DEF Pooled, Inside, InPool
  <2>3. Cardinality({}) = 0
    BY FS_EmptySet
  <2>4. QED
    BY <1>4, <2>1, <2>2, <2>3, SMT DEF Sums, NoMetrics
<1>14. QED
  BY <1>8, <1>9, <1>10, <1>11, <1>12, <1>13 DEF IInv

(* The sums stay right when a call that enters the pool counts as running, *)
(* one that leaves it no longer does, one that enters counts as submitted, *)
(* and an outcome is counted only for a call that ends.                    *)
LEMMA BalanceKept ==
  ASSUME IInv, MetricsBalance, life' = life, NEW c \in Calls, Moves(c),
         NEW r \in {-1, 0, 1}, NEW u \in {0, 1}, NEW o \in {0, 1},
         _metrics'.running = _metrics.running + r,
         _metrics'.submitted = _metrics.submitted + u,
         Outcomes(_metrics') = Outcomes(_metrics) + o,
         _metrics' \in [DOMAIN NoMetrics -> Int],
         r = (IF call'[c].pc \in InPool THEN 1 ELSE 0)
               - (IF call[c].pc \in InPool THEN 1 ELSE 0),
         o + (IF call'[c].pc = "ended" THEN 0 ELSE 1)
           <= u + (IF call[c].pc = "idle" THEN 0 ELSE 1)
  PROVE  MetricsBalance'
<1> SUFFICES ASSUME OwnLife'
             PROVE  Sums'
  BY DEF MetricsBalance, OwnLife, Sums, Pooled
<1>1. /\ Inside' = IF call'[c].pc = "ended" THEN Inside \ {c} ELSE Inside \cup {c}
      /\ Pooled' = IF call'[c].pc \in InPool THEN Pooled \cup {c} ELSE Pooled \ {c}
      /\ OwnLife
  BY MoveShape
<1>2. Sums /\ IsFiniteSet(Inside) /\ _metrics \in [DOMAIN NoMetrics -> Int]
  BY <1>1 DEF MetricsBalance, OwnLife, Sums, Pooled, IInv, TypeOK
<1>3. Pooled \subseteq Inside /\ IsFiniteSet(Pooled)
  <2>1. Pooled \subseteq Inside
    BY DEF Pooled, Inside, InPool
  <2>2. QED
    BY <1>2, <2>1, FS_Subset
<1>4. /\ c \in Inside <=> call[c].pc # "idle"
      /\ c \in Pooled <=> call[c].pc \in InPool
  BY DEF Moves, Inside, Pooled
<1>5. /\ Cardinality(Inside) \in Nat /\ Cardinality(Pooled) \in Nat
      /\ Cardinality(Inside') \in Nat /\ Cardinality(Pooled') \in Nat
  <2>1. IsFiniteSet(Inside') /\ IsFiniteSet(Pooled')
    BY <1>1, <1>2, <1>3, FS_AddElement, FS_RemoveElement, SMTT(30)
  <2>2. QED
    BY <1>2, <1>3, <2>1, FS_CardinalityType
<1>6. Cardinality(Pooled') = Cardinality(Pooled) + r
  <2>1. CASE call'[c].pc \in InPool /\ c \notin Pooled
    BY <1>1, <1>3, <1>4, <2>1, CardAdd, SMT
  <2>2. CASE call'[c].pc \in InPool /\ c \in Pooled
    <3>1. Pooled' = Pooled /\ r = 0
      BY <1>1, <1>4, <2>2, SMT
    <3>2. QED
      BY <1>5, <3>1, SMT
  <2>3. CASE call'[c].pc \notin InPool /\ c \in Pooled
    <3>1. Pooled' = Pooled \ {c} /\ r = -1
      BY <1>1, <1>4, <2>3, SMT
    <3>2. Cardinality(Pooled) = Cardinality(Pooled \ {c}) + 1
      BY <1>3, <2>3, CardRemove
    <3>3. QED
      BY <1>5, <3>1, <3>2, SMT
  <2>4. CASE call'[c].pc \notin InPool /\ c \notin Pooled
    <3>1. Pooled' = Pooled /\ r = 0
      BY <1>1, <1>4, <2>4, SMT
    <3>2. QED
      BY <1>5, <3>1, SMT
  <2>5. QED
    BY <2>1, <2>2, <2>3, <2>4
<1>7. Cardinality(Inside') = Cardinality(Inside)
        + (IF call'[c].pc = "ended" THEN 0 ELSE 1) - (IF call[c].pc = "idle" THEN 0 ELSE 1)
  <2>1. CASE call'[c].pc # "ended" /\ c \notin Inside
    BY <1>1, <1>2, <1>4, <2>1, CardAdd, SMT
  <2>2. CASE call'[c].pc # "ended" /\ c \in Inside
    <3>1. Inside' = Inside
      BY <1>1, <2>2
    <3>2. QED
      BY <1>4, <1>5, <2>2, <3>1, SMT
  <2>3. CASE call'[c].pc = "ended" /\ c \in Inside
    <3>1. Cardinality(Inside) = Cardinality(Inside \ {c}) + 1
      BY <1>2, <2>3, CardRemove
    <3>2. QED
      BY <1>1, <1>4, <1>5, <2>3, <3>1, SMT
  <2>4. CASE call'[c].pc = "ended" /\ c \notin Inside
    <3>1. Inside' = Inside
      BY <1>1, <2>4
    <3>2. QED
      BY <1>4, <1>5, <2>4, <3>1, SMT
  <2>5. QED
    BY <2>1, <2>2, <2>3, <2>4
<1>8. /\ Outcomes(_metrics) \in Int /\ Outcomes(_metrics') \in Int
      /\ _metrics.submitted \in Int /\ _metrics'.submitted \in Int
      /\ _metrics.running \in Int
  BY <1>2, SMT DEF Outcomes, NoMetrics
<1>9. _metrics'.running = Cardinality(Pooled')
  BY <1>2, <1>6 DEF Sums
<1>10. Outcomes(_metrics') + Cardinality(Inside') <= _metrics'.submitted
  <2>1. Outcomes(_metrics) + Cardinality(Inside) <= _metrics.submitted
    BY <1>2 DEF Sums, Outcomes
  <2>2. QED
    BY <1>5, <1>7, <1>8, <2>1, SMT
<1>11. QED
  BY <1>9, <1>10 DEF Sums, Outcomes

-----------------------------------------------------------------------------
(* The steps together. *)

LEMMA InitBalanced == Init => IInv /\ MetricsBalance
<1> SUFFICES ASSUME Init
             PROVE  IInv /\ MetricsBalance
  OBVIOUS
<1> USE BackendAssumption
<1>1. /\ life = 0 /\ \A c \in Calls : call[c] = Idle
      /\ \A l \in Lives : queue[l] = <<>>
  BY DEF Init
<1>2. TypeOK
  <2>1. Idle \in CallRecord(0)
    BY SMT DEF Idle, CallRecord, Statuses
  <2>2. call \in [Calls -> CallRecord(0)]
    BY <2>1 DEF Init
  <2>3. queue \in [Lives -> Seq(Calls)] /\ free \in [Lives -> 0 .. max_in_flight]
    BY SMT DEF Init
  <2>4. _metrics \in [DOMAIN NoMetrics -> Int]
    BY SMT DEF Init, NoMetrics
  <2>5. QED
    BY <2>2, <2>3, <2>4, SMT DEF Init, TypeOK, CallRecord, Statuses
<1>3. QueueInv /\ WaiterIsQueued /\ CallInv
  <2>1. \A l \in Lives : DOMAIN queue[l] = {}
    BY <1>1, SMT
  <2>2. QED
    BY <1>1, <2>1, SMT DEF QueueInv, WaiterIsQueued, CallInv, Idle, InPool
<1>4. Inside = {} /\ Pooled = {}
  BY <1>1, SMT DEF Inside, Pooled, Idle, InPool
<1>5. IsFiniteSet({}) /\ Cardinality({}) = 0
  BY FS_EmptySet
<1>6. PermitsConserved
  BY <1>1, SMT DEF PermitsConserved
<1>7. Sums
  BY <1>4, <1>5, SMT DEF Sums, Init, NoMetrics
<1>8. QED
  BY <1>2, <1>3, <1>4, <1>5, <1>6, <1>7 DEF IInv, MetricsBalance, Sums, Pooled

(* A call that ends with its permit: it raises, returns or is cancelled. *)
LEMMA EndsStep ==
  ASSUME IInv, MetricsBalance, NEW c \in Calls,
         \/ SubmitRaises(c) \/ Raises(c) \/ CancelledInPool(c) \/ CancelledGranted(c)
         \/ \E outcome \in {"completed", "failed"} : Returns(c, outcome)
  PROVE  IInv' /\ MetricsBalance'
<1>1. _metrics \in [DOMAIN NoMetrics -> Int]
  BY DEF IInv, TypeOK
<1>2. /\ call[c].pc \in Holding /\ Release(c, Ended(c))
      /\ UNCHANGED <<life, _pool, broken>>
  BY DEF SubmitRaises, Raises, CancelledInPool, CancelledGranted, Returns, Holding, InPool
<1>3. PICK r \in {-1, 0, 1}, o \in {0, 1} :
        /\ r = (IF call[c].pc \in InPool THEN -1 ELSE 0)
        /\ \/ _metrics' = _metrics /\ r = 0 /\ o = 0
           \/ _metrics' = [_metrics EXCEPT !.backend_errors = @ + 1] /\ r = 0 /\ o = 1
           \/ _metrics' = [_metrics EXCEPT !.running = @ - 1] /\ r = -1 /\ o = 0
           \/ (\E field \in {"completed", "failed", "backend_errors"} :
                 _metrics' = Counted(field)) /\ r = -1 /\ o = 1
  <2>1. CASE SubmitRaises(c)
    BY <2>1 DEF SubmitRaises, InPool
  <2>2. CASE Raises(c)
    BY <2>2 DEF Raises, InPool
  <2>3. CASE CancelledInPool(c)
    BY <2>3 DEF CancelledInPool, InPool
  <2>4. CASE CancelledGranted(c)
    BY <2>4 DEF CancelledGranted, InPool
  <2>5. CASE \E outcome \in {"completed", "failed"} : Returns(c, outcome)
    BY <2>5 DEF Returns, InPool
  <2>6. QED
    BY <2>1, <2>2, <2>3, <2>4, <2>5
<1>4. /\ _metrics' \in [DOMAIN NoMetrics -> Int]
      /\ _metrics'.running = _metrics.running + r
      /\ _metrics'.submitted = _metrics.submitted + 0
      /\ Outcomes(_metrics') = Outcomes(_metrics) + o
  BY <1>1, <1>3, MetricsUpdates, SMT
<1>5. IInv' /\ Moves(c) /\ call'[c].pc = "ended"
  BY <1>2, <1>4, ReleaseStep
<1>6. /\ r = (IF call'[c].pc \in InPool THEN 1 ELSE 0)
               - (IF call[c].pc \in InPool THEN 1 ELSE 0)
      /\ o + (IF call'[c].pc = "ended" THEN 0 ELSE 1)
           <= 0 + (IF call[c].pc = "idle" THEN 0 ELSE 1)
  BY <1>2, <1>3, <1>5, SMT DEF Holding, InPool
<1>7. QED
  BY <1>2, <1>4, <1>5, <1>6, BalanceKept

(* Every other step of a call. *)
LEMMA OtherCallStep ==
  ASSUME IInv, MetricsBalance, NEW c \in Calls,
         execute(c) \/ Submits(c) \/ ChildStarts(c) \/ CancelledWaiting(c)
  PROVE  IInv' /\ MetricsBalance'
<1>1. _metrics \in [DOMAIN NoMetrics -> Int]
  BY DEF IInv, TypeOK
<1>2. IInv' /\ Moves(c) /\ life' = life
  BY ExecuteStep, GoesOnStep, CancelledWaitingStep DEF CancelledWaiting
<1>3. PICK r \in {-1, 0, 1}, u \in {0, 1}, o \in {0, 1} :
        /\ r = (IF call'[c].pc \in InPool THEN 1 ELSE 0)
                 - (IF call[c].pc \in InPool THEN 1 ELSE 0)
        /\ o + (IF call'[c].pc = "ended" THEN 0 ELSE 1)
             <= u + (IF call[c].pc = "idle" THEN 0 ELSE 1)
        /\ \/ _metrics' = _metrics /\ r = 0 /\ u = 0 /\ o = 0
           \/ _metrics' = [_metrics EXCEPT !.submitted = @ + 1] /\ r = 0 /\ u = 1 /\ o = 0
           \/ _metrics' = [_metrics EXCEPT !.submitted = @ + 1, !.running = @ + 1]
                /\ r = 1 /\ u = 1 /\ o = 0
           \/ _metrics' = [_metrics EXCEPT !.submitted = @ + 1, !.backend_errors = @ + 1]
                /\ r = 0 /\ u = 1 /\ o = 1
           \/ _metrics' = [_metrics EXCEPT !.running = @ + 1] /\ r = 1 /\ u = 0 /\ o = 0
  <2>0. call \in [Calls -> CallRecord(life)]
    BY Typed DEF IInv
  <2>1. CASE execute_Rejected(c)
    <3>1. call'[c].pc = "ended" /\ call[c].pc = "idle" /\ _metrics' = _metrics
      BY <2>0, <2>1, EndedCall DEF execute_Rejected, IInv
    <3>2. QED
      BY <3>1, SMT DEF InPool
  <2>2. CASE execute_Submits(c)
    <3>1. /\ call'[c].pc = "submitted" /\ call[c].pc = "idle"
          /\ _metrics' = [_metrics EXCEPT !.submitted = @ + 1, !.running = @ + 1]
      BY <2>0, <2>2 DEF execute_Submits, InPoolNow, CallRecord
    <3>2. QED
      BY <3>1, SMT DEF InPool
  <2>3. CASE execute_Raises(c)
    <3>1. /\ call'[c].pc = "ended" /\ call[c].pc = "idle"
          /\ _metrics' = [_metrics EXCEPT !.submitted = @ + 1, !.backend_errors = @ + 1]
      BY <2>0, <2>3, EndedCall DEF execute_Raises, IInv, CallRecord
    <3>2. QED
      BY <3>1, SMT DEF InPool
  <2>4. CASE execute_Waits(c)
    <3>1. /\ call'[c].pc = "waiting" /\ call[c].pc = "idle"
          /\ _metrics' = [_metrics EXCEPT !.submitted = @ + 1]
      BY <2>0, <2>4 DEF execute_Waits, CallRecord
    <3>2. QED
      BY <3>1, SMT DEF InPool
  <2>5. CASE Submits(c)
    <3>1. /\ call'[c].pc \in InPool /\ call[c].pc = "granted"
          /\ _metrics' = [_metrics EXCEPT !.running = @ + 1]
      BY <2>5, GoesOnStep DEF Submits
    <3>2. QED
      BY <3>1, SMT DEF InPool
  <2>6. CASE ChildStarts(c)
    <3>1. call'[c].pc \in InPool /\ call[c].pc = "submitted" /\ _metrics' = _metrics
      BY <2>6, GoesOnStep DEF ChildStarts
    <3>2. QED
      BY <3>1, SMT DEF InPool
  <2>7. CASE CancelledWaiting(c)
    <3>1. call'[c].pc = "ended" /\ call[c].pc = "waiting" /\ _metrics' = _metrics
      BY <2>7, CancelledWaitingStep DEF CancelledWaiting
    <3>2. QED
      BY <3>1, SMT DEF InPool
  <2>8. QED
    BY <2>1, <2>2, <2>3, <2>4, <2>5, <2>6, <2>7 DEF execute
<1>4. /\ _metrics' \in [DOMAIN NoMetrics -> Int]
      /\ _metrics'.running = _metrics.running + r
      /\ _metrics'.submitted = _metrics.submitted + u
      /\ Outcomes(_metrics') = Outcomes(_metrics) + o
  BY <1>1, <1>3, MetricsUpdates, SMT
<1>5. QED
  BY <1>2, <1>3, <1>4, BalanceKept, SMT

LEMMA NextBalanced == IInv /\ MetricsBalance /\ [Next]_vars => IInv' /\ MetricsBalance'
<1> SUFFICES ASSUME IInv, MetricsBalance, [Next]_vars
             PROVE  IInv' /\ MetricsBalance'
  OBVIOUS
<1>1. CASE start
  BY <1>1, StartStep
<1>2. CASE stop \/ UNCHANGED vars \/ \E l \in Lives : PoolBreaks(l)
  <2>1. UNCHANGED <<life, free, queue, call, _metrics>>
    BY <1>2 DEF stop, PoolBreaks, vars
  <2>2. TypeOK'
    BY <1>2, <2>1 DEF IInv, TypeOK, stop, PoolBreaks, vars
  <2>3. QueueInv' /\ WaiterIsQueued' /\ CallInv' /\ IsFiniteSet(Inside')
    <3>1. QueueInv' /\ WaiterIsQueued'
      BY <2>1, QueueKept DEF IInv
    <3>2. CallInv'
      BY <2>1 DEF IInv, CallInv
    <3>3. Inside' = Inside
      BY <2>1 DEF Inside
    <3>4. QED
      BY <3>1, <3>2, <3>3 DEF IInv
  <2>4. PermitsConserved'
    BY <2>1 DEF IInv, PermitsConserved, Holders
  <2>5. MetricsBalance'
    BY <2>1 DEF MetricsBalance, Inside
  <2>6. QED
    BY <2>2, <2>3, <2>4, <2>5 DEF IInv
<1>3. ASSUME NEW c \in Calls, execute(c) \/ Resumes(c) \/ Cancelled(c)
      PROVE  IInv' /\ MetricsBalance'
  BY <1>3, EndsStep, OtherCallStep DEF Resumes, Cancelled
<1>4. QED
  BY <1>1, <1>2, <1>3 DEF Next

-----------------------------------------------------------------------------
(* The theorems. *)

(* The inductive invariant holds of every execution of the backend, over   *)
(* any number of lifetimes: the types, and the queues that hold exactly    *)
(* the calls that wait.                                                    *)
THEOREM BackendInvariant == Spec => [](IInv /\ MetricsBalance)
BY InitBalanced, NextBalanced, PTL DEF Spec

(* No permit of the semaphore is lost or made: through every raise, return *)
(* and cancellation, free permits and holders add up to max_in_flight.     *)
THEOREM PermitsConservedHolds == Spec => []PermitsConserved
<1>1. IInv => PermitsConserved
  BY DEF IInv
<1>2. QED
  BY <1>1, BackendInvariant, PTL

(* A call that stop() overtook is never run outside a process pool. *)
THEOREM OnlyInPoolHolds == Spec => []OnlyInPool
<1>1. IInv => OnlyInPool
  <2> SUFFICES ASSUME IInv, NEW c \in Calls, call[c].pc \in InPool
               PROVE  call[c].pool # 0
    BY DEF OnlyInPool
  <2>1. call[c].pool \in 1 .. life
    BY DEF IInv, CallInv
  <2>2. QED
    BY <2>1, SMT
<1>2. QED
  BY <1>1, BackendInvariant, PTL

(* The metrics account for every call of the lifetime: what is in a pool   *)
(* is running, and outcomes never exceed what was submitted and is over.   *)
THEOREM MetricsBalanceHolds == Spec => []MetricsBalance
BY BackendInvariant, PTL

==============================================================================
