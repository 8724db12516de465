---------------------------- MODULE SlotBarrier ----------------------------
(***************************************************************************)
(* What timer.c promises to the CPU threads and the loader thread: time    *)
(* advances in slots, and a slot ends only when every attached device has  *)
(* either finished its work of this slot (next_slot) or has left for good  *)
(* (detach_event).  Nothing is said of mutexes, condition variables or     *)
(* the order in which the timer thread looks at the devices; Timer.tla     *)
(* says that, and implements this module.                                  *)
(***************************************************************************)
EXTENDS Naturals

CONSTANT Device    \* the attached devices: one per CPU, one for the loader

VARIABLES
    time,          \* the current time slot
    st             \* st[d]: what device d still owes to the current slot

bvars == <<time, st>>

Status == {"work", "arrived", "gone"}

BTypeOK ==
    /\ time \in Nat
    /\ st \in [Device -> Status]

BInit ==
    /\ time = 0
    /\ st = [d \in Device |-> "work"]

\* d has done its work of the current slot
Arrive(d) ==
    /\ st[d] = "work"
    /\ st' = [st EXCEPT ![d] = "arrived"]
    /\ UNCHANGED time

\* d takes no part in any further slot
Leave(d) ==
    /\ st[d] = "work"
    /\ st' = [st EXCEPT ![d] = "gone"]
    /\ UNCHANGED time

\* Nobody is still at work, and those who stay start over
Release ==
    /\ \A d \in Device : st[d] # "work"
    /\ st' = [d \in Device |-> IF st[d] = "arrived" THEN "work" ELSE st[d]]

\* The slot ends
Tick == Release /\ time' = time + 1

BNext ==
    \/ \E d \in Device : Arrive(d) \/ Leave(d)
    \/ Tick

BSpec == BInit /\ [][BNext]_bvars
=============================================================================
