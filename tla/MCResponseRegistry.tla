------------------------- MODULE MCResponseRegistry -------------------------
(* Calls for TLC: the first two share a task, and so do the last two. *)
EXTENDS ResponseRegistry, TLC

CONSTANTS t1, t2, t3, c1, c2, c3

SharedWants == (c1 :> {t1, t2}) @@ (c2 :> {t2, t3}) @@ (c3 :> {t3})
=============================================================================
