--------------------------- MODULE MCSchedClient ---------------------------
(* Three processes of two priorities, two callers.                         *)
EXTENDS SchedClient

CONSTANTS p1, p2, p3

MCProc == {p1, p2, p3}
\* p1 and p2 share the more urgent priority
MCprio == [p \in MCProc |-> IF p = p3 THEN 1 ELSE 0]
=============================================================================
