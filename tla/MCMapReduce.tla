----------------------------- MODULE MCMapReduce -----------------------------
(* An instance of MapReduce for TLC: the keys k1 and k3 have the same      *)
(* name, as 1 and "1" do in Python.                                        *)
EXTENDS MapReduce

CONSTANTS k1, k2, k3

MCEmits == <<[key |-> k1, value |-> 1], [key |-> k2, value |-> 2],
             [key |-> k1, value |-> 4], [key |-> k3, value |-> 8]>>

MCNames == [k \in {k1, k2, k3} |-> IF k = k2 THEN "two" ELSE "one"]

=============================================================================
