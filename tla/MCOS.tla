-------------------------------- MODULE MCOS --------------------------------
(* Small configuration files for OS.tla.                                   *)
EXTENDS OS

CONSTANTS p1, p2, p3

\* As in input/sched: processes of different priorities and start times
MCProc == {p1, p2, p3}
MCLd == <<p1, p2, p3>>
MCprio == (p1 :> 1) @@ (p2 :> 0) @@ (p3 :> 0)
MCstart == (p1 :> 0) @@ (p2 :> 2) @@ (p3 :> 2)
MCsize == (p1 :> 4) @@ (p2 :> 3) @@ (p3 :> 3)

\* Two processes of one priority
TwoProc == {p1, p2}
TwoLd == <<p1, p2>>
Twoprio == (p1 :> 0) @@ (p2 :> 0)
Twostart == (p1 :> 0) @@ (p2 :> 0)
Twosize == (p1 :> 2) @@ (p2 :> 2)

\* With 4 priorities a round has a slot for each quantum, with one it has not
ASSUME QueueRoom /\ (EnoughSlots <=> MAX_PRIO = 4)
=============================================================================
