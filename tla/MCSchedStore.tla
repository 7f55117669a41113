----------------------------- MODULE MCSchedStore -----------------------------
(* SchedStore for TLC: three lists, a shorter one among them.               *)
EXTENDS SchedStore

CONSTANTS p1, p2, p3

Sizes == [p \in Puts |-> IF p = p1 THEN 1 ELSE 2]
=============================================================================
