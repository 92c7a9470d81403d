---------------------------- MODULE MCAsyncMaster ----------------------------
(* The asyncio master for TLC.  Tasks that can be sent are interchangeable, *)
(* and so are the workers: nothing orders them but the order of arrival.    *)
EXTENDS AsyncMaster, TLC

CONSTANTS t1, t2, t3, w1, w2

Symmetry == Permutations(Tasks \ Unencodable) \cup Permutations(Workers)
=============================================================================
