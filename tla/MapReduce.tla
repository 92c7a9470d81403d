----------------------------- MODULE MapReduce ------------------------------
(***************************************************************************)
(* run_map_reduce of jobs/map_reduce.py, with jobs/map.py, jobs/shuffle.py *)
(* and jobs/reduce.py: a job partitions its data into MAP tasks, groups    *)
(* the pairs they return by key and runs one REDUCE task per key.          *)
(*                                                                         *)
(* dispatch, the function that has the tasks run, is drain_tasks_for or    *)
(* wait_for_tasks of the master.  It returns a list of responses in the    *)
(* order in which they came: for a task, those of the attempts that were   *)
(* given up on, which may be successes that came too late, then that of    *)
(* the attempt that decided it, if its deadline did not overtake it.  The  *)
(* map operation emits one pair per item and the reduce operation is SUM.  *)
(***************************************************************************)
EXTENDS Naturals, Sequences, FiniteSets, SequencesExt

CONSTANTS
  Items,          (* what the input data consist of *)
  Emits,          (* the pair the map operation returns for an item *)
  Names,          (* str(key), which names the REDUCE task of a key *)
  MaxLen,         (* bound: length of the data *)
  MaxPartitions,  (* bound: num_partitions *)
  MaxRetried      (* bound: responses of given-up attempts in a dispatch *)

ASSUME MapReduceAssumption ==
  /\ \A x \in Items : Emits[x].key \in DOMAIN Names /\ Emits[x].value \in Nat
  /\ MaxLen \in Nat /\ MaxPartitions \in Nat /\ MaxRetried \in Nat

VARIABLES
  pc,              (* where run_map_reduce is *)
  data,            (* its arguments *)
  num_partitions,
  tasks,           (* the payloads of the tasks of the phase, by task_id *)
  responses,       (* what dispatch has received so far *)
  grouped,         (* the output of shuffle *)
  result,          (* the value returned *)
  mapped           (* history: the partitions that were answered last with *)
                   (* a success                                            *)

vars == <<pc, data, num_partitions, tasks, responses, grouped, result, mapped>>

Nothing == <<>>

Init ==
  /\ pc = "start"
  /\ data \in UNION {[1 .. n -> Items] : n \in 0 .. MaxLen}
  /\ num_partitions \in 0 .. MaxPartitions
  /\ tasks = Nothing
  /\ responses = <<>>
  /\ grouped = Nothing
  /\ result = Nothing
  /\ mapped = {}

-----------------------------------------------------------------------------
(* Mutant: the remainder is dropped. *)
ChunkSize_Floor(len, n, i) == len \div n

(* The size of chunk i, counted from 1. *)
ChunkSize(len, n, i) == len \div n + (IF i <= len % n THEN 1 ELSE 0)

(* Where each chunk starts: the sum of the sizes before. *)
ChunkStart(len, n) ==
  LET start[i \in 1 .. n] ==
        IF i = 1 THEN 0 ELSE start[i - 1] + ChunkSize(len, n, i - 1)
  IN start

partition(s, num) ==
  LET n == IF num <= Len(s) THEN num ELSE Len(s)
      start == ChunkStart(Len(s), n)
  IN [i \in 1 .. n |->
        SubSeq(s, start[i] + 1, start[i] + ChunkSize(Len(s), n, i))]

(* Mutant: the first response for a task is kept. *)
ResponsesFor_First(rs, t) ==
  LET mine == {i \in DOMAIN rs : rs[i].task = t}
  IN IF mine = {} THEN <<>> ELSE <<rs[Min(mine)]>>

(* _index_responses_by_task_id: the last response for t, if any. *)
ResponsesFor(rs, t) ==
  LET mine == {i \in DOMAIN rs : rs[i].task = t}
  IN IF mine = {} THEN <<>> ELSE <<rs[Max(mine)]>>

Succeeded(rs, t) ==
  LET r == ResponsesFor(rs, t) IN r # <<>> /\ r[1].status = "success"

(* collect_map_results raises unless every task succeeded. *)
collect_map_results(ts, rs) ==
  FlattenSeq([i \in DOMAIN ts |-> ResponsesFor(rs, i)[1].result])

(* Mutant: the results are taken in the order of arrival. *)
build_intermediate_results_Arrived(ts, rs) ==
  LET good == SelectSeq(rs, LAMBDA r : r.status = "success")
  IN [i \in DOMAIN good |-> [status |-> "SUCCESS", data |-> good[i].result]]

(* One result per partition, in partition order: SUCCESS with the data, or *)
(* ERROR for an error and for a missing response.                          *)
build_intermediate_results(ts, rs) ==
  [i \in DOMAIN ts |->
     IF Succeeded(rs, i)
     THEN [status |-> "SUCCESS", data |-> ResponsesFor(rs, i)[1].result]
     ELSE [status |-> "ERROR", data |-> <<>>]]

(* grouped.setdefault(key, []).append(value) *)
AddPair(g, p) ==
  [k \in DOMAIN g \cup {p.key} |->
     IF k # p.key THEN g[k]
     ELSE IF k \in DOMAIN g THEN Append(g[k], p.value) ELSE <<p.value>>]

(* The loop of shuffle over the pairs of one result. *)
AddPairs(g, pairs) ==
  LET at[i \in 0 .. Len(pairs)] ==
        IF i = 0 THEN g ELSE AddPair(at[i - 1], pairs[i])
  IN at[Len(pairs)]

(* The pairs of the successful results, each appended to its key's list. *)
shuffle(results) ==
  LET at[i \in 0 .. Len(results)] ==
        IF i = 0 THEN Nothing
        ELSE IF results[i].status = "SUCCESS"
        THEN AddPairs(at[i - 1], results[i].data) ELSE at[i - 1]
  IN at[Len(results)]

(* What the worker answers: execute_map and execute_reduce. *)
execute_map(chunk) == [i \in DOMAIN chunk |-> Emits[chunk[i]]]

execute_reduce(values) ==
  LET sum[i \in 0 .. Len(values)] == IF i = 0 THEN 0 ELSE sum[i - 1] + values[i]
  IN sum[Len(values)]

Execute(t) ==
  IF pc = "mapping" THEN execute_map(tasks[t]) ELSE execute_reduce(tasks[t])

-----------------------------------------------------------------------------
(* build_map_job; partition refuses num_partitions < 1. *)
build_map_job ==
  /\ pc = "start"
  /\ IF num_partitions < 1
     THEN pc' = "raised" /\ UNCHANGED tasks
     ELSE pc' = "mapping" /\ tasks' = partition(data, num_partitions)
  /\ UNCHANGED <<data, num_partitions, responses, grouped, result, mapped>>

Retried == SelectSeq(responses, LAMBDA r : ~r.over)

(* dispatch receives a response for task t.  It is over with t when the    *)
(* attempt is the current one and decides the task.  Otherwise the attempt *)
(* was lost, or its reply is stale: dispatch_assigned_task returns that    *)
(* too, whatever it says, and drain_tasks_for hands the task out again.    *)
Responds(t, s, over) ==
  /\ pc \in {"mapping", "reducing"}
  /\ \A i \in DOMAIN responses : responses[i].task = t => ~responses[i].over
  /\ ~over => Len(Retried) < MaxRetried
  /\ responses' = Append(responses,
       [task |-> t, status |-> s, over |-> over,
        result |-> IF s = "success" THEN Execute(t) ELSE Nothing])
  /\ UNCHANGED <<pc, data, num_partitions, tasks, grouped, result, mapped>>

(* The deadline of wait_for_tasks, or an exception out of a gather, ends   *)
(* the job.                                                                *)
DispatchRaises ==
  /\ pc \in {"mapping", "reducing"}
  /\ pc' = "raised"
  /\ UNCHANGED <<data, num_partitions, tasks, responses, grouped, result, mapped>>

(* Of the responses for t, the last one is a success. *)
LastSucceeds(rs, t) ==
  \E i \in DOMAIN rs :
    /\ rs[i].task = t /\ rs[i].status = "success"
    /\ \A j \in DOMAIN rs : rs[j].task = t => j <= i

(* Mutant: the second of two tasks with one id replaces the first. *)
Collides_Never(g) == FALSE

(* Two keys of one name have one task_id, which submit_task refuses. *)
Collides(g) == \E k, l \in DOMAIN g : k # l /\ Names[k] = Names[l]

(* One REDUCE task per key, named after it. *)
build_reduce_job(g) ==
  [id \in {Names[k] : k \in DOMAIN g} |-> g[CHOOSE k \in DOMAIN g : Names[k] = id]]

(* dispatch returns; the pairs are grouped and the REDUCE tasks submitted. *)
ShuffleAndSubmit ==
  LET g == shuffle(build_intermediate_results(tasks, responses))
  IN /\ pc = "mapping"
     /\ grouped' = g
     /\ tasks' = build_reduce_job(g)
     /\ responses' = <<>>
     /\ mapped' = {t \in DOMAIN tasks : LastSucceeds(responses, t)}
     /\ pc' = IF Collides(g) THEN "raised" ELSE "reducing"
     /\ UNCHANGED <<data, num_partitions, result>>

(* dispatch returns, and collect_reduce_results with it, which raises      *)
(* unless the task of every key succeeded.                                 *)
collect_reduce_results ==
  /\ pc = "reducing"
  /\ IF \A k \in DOMAIN grouped : Succeeded(responses, Names[k])
     THEN /\ pc' = "done"
          /\ result' = [k \in DOMAIN grouped |->
                          ResponsesFor(responses, Names[k])[1].result]
     ELSE pc' = "raised" /\ UNCHANGED result
  /\ UNCHANGED <<data, num_partitions, tasks, responses, grouped, mapped>>

Next ==
  \/ build_map_job
  \/ \E t \in DOMAIN tasks, s \in {"success", "error"}, over \in BOOLEAN :
       Responds(t, s, over)
  \/ DispatchRaises
  \/ ShuffleAndSubmit
  \/ collect_reduce_results

Spec == Init /\ [][Next]_vars

-----------------------------------------------------------------------------
(* partition splits the data into runs whose sizes differ by one at most,  *)
(* none of them empty, the larger ones first, and no more of them than     *)
(* asked for or than there are items.                                      *)
PartitionIsSplit ==
  pc = "mapping" =>
    /\ FlattenSeq(tasks) = data
    /\ Len(tasks) = Cardinality((1 .. num_partitions) \cap DOMAIN data)
    /\ \A i, j \in DOMAIN tasks :
         /\ tasks[i] # <<>>
         /\ i <= j => Len(tasks[i]) - Len(tasks[j]) \in {0, 1}

(* When the last response of every MAP task is a success, the map job's    *)
(* output is the mapped data in their own order, in whichever order the    *)
(* responses came and whatever those of given-up attempts said.            *)
MapJobInOrder ==
  pc = "mapping" /\ (\A t \in DOMAIN tasks : LastSucceeds(responses, t))
  => collect_map_results(tasks, responses) = execute_map(data)

(* The positions of the data in the partitions in M. *)
PositionsIn(M) ==
  LET chunks == partition(data, num_partitions)
      Before(i) == Len(FlattenSeq(SubSeq(chunks, 1, i - 1)))
  IN UNION {Before(i) + 1 .. Before(i) + Len(chunks[i]) : i \in M}

(* Those whose partition was answered last with a success. *)
Answered == PositionsIn(mapped)

(* The sum of the values emitted at the positions in P. *)
SumOver(P) ==
  LET v == [p \in DOMAIN data |-> IF p \in P THEN Emits[data[p]].value ELSE 0]
      sum[p \in 0 .. Len(data)] == IF p = 0 THEN 0 ELSE sum[p - 1] + v[p]
  IN sum[Len(data)]

KeysAnswered == {Emits[data[p]].key : p \in Answered}

PositionsOf(k) == {p \in Answered : Emits[data[p]].key = k}

(* shuffle gives every key the values its items emitted, in the order of   *)
(* the data, from every partition whose last response is a success and     *)
(* from no other.                                                          *)
GroupedInOrder ==
  pc \in {"reducing", "done"} =>
    /\ DOMAIN grouped = KeysAnswered
    /\ \A k \in KeysAnswered :
         /\ Len(grouped[k]) = Cardinality(PositionsOf(k))
         /\ \A p \in PositionsOf(k) :
              grouped[k][Cardinality({q \in PositionsOf(k) : q <= p})]
                = Emits[data[p]].value

(* A job that returns has a value for each key of the partitions answered  *)
(* and it is the sum over the data: no key and no value is dropped, counted *)
(* twice or moved to another key of the same name, whatever failed or was  *)
(* retried.                                                                *)
ResultIsReference ==
  pc = "done" =>
    /\ DOMAIN result = KeysAnswered
    /\ \A k \in KeysAnswered :
         result[k] = SumOver(PositionsOf(k))

=============================================================================
