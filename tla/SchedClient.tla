---------------------------- MODULE SchedClient ----------------------------
(***************************************************************************)
(* The scheduler under concurrent use.  Any number of callers take a       *)
(* process with get_proc, keep it for a while, and either put it back or   *)
(* see it finish; somebody adds each process once.  The two critical       *)
(* sections of put_proc and add_proc interleave with the calls of all the  *)
(* others.  OS.tla is shown to be such a use of the scheduler.             *)
(***************************************************************************)
EXTENDS Sched

CONSTANT Caller        \* the threads that call get_proc and put_proc

VARIABLES
    hand,              \* hand[c]: the process caller c holds, or NoProc
    putting,           \* callers between the two halves of put_proc
    fresh,             \* processes add_proc has not been called for
    adding,            \* the process between the two halves of add_proc
    over               \* processes that ran to their end

cvars == <<sched, hand, putting, fresh, adding, over>>

CInit ==
    /\ SchedInit
    /\ hand = [c \in Caller |-> NoProc]
    /\ putting = {}
    /\ fresh = Proc
    /\ adding = NoProc
    /\ over = {}

\* get_proc, by a caller that holds nothing
Get(c) ==
    /\ hand[c] = NoProc
    /\ \E res \in Proc \cup {NoProc} :
          /\ GetProc(res)
          /\ hand' = [hand EXCEPT ![c] = res]
    /\ UNCHANGED <<putting, fresh, adding, over>>

\* The process of c has executed its last instruction and is freed
Discard(c) ==
    /\ hand[c] # NoProc
    /\ c \notin putting
    /\ over' = over \cup {hand[c]}
    /\ hand' = [hand EXCEPT ![c] = NoProc]
    /\ UNCHANGED <<sched, putting, fresh, adding>>

\* put_proc, first half
PutFirst(c) ==
    /\ hand[c] # NoProc
    /\ c \notin putting
    /\ PutReady(hand[c])
    /\ putting' = putting \cup {c}
    /\ UNCHANGED <<hand, fresh, adding, over>>

\* Mutant: put_proc forgets its second half
BadPutSecond(c) ==
    /\ c \in putting
    /\ hand' = [hand EXCEPT ![c] = NoProc]
    /\ putting' = putting \ {c}
    /\ UNCHANGED <<sched, fresh, adding, over>>

\* put_proc, second half
PutSecond(c) ==
    /\ c \in putting
    /\ EnqueueMlq(hand[c])
    /\ hand' = [hand EXCEPT ![c] = NoProc]
    /\ putting' = putting \ {c}
    /\ UNCHANGED <<fresh, adding, over>>

\* add_proc, first half
AddFirst(p) ==
    /\ p \in fresh
    /\ adding = NoProc
    /\ AddRunning(p)
    /\ fresh' = fresh \ {p}
    /\ adding' = p
    /\ UNCHANGED <<hand, putting, over>>

\* Mutant: add_proc puts the process into the queue in its first half, too
BadAddSecond ==
    /\ adding # NoProc
    /\ mlq_ready_queue' = [mlq_ready_queue EXCEPT ![prio[adding]] =
                              enqueue(enqueue(@, adding), adding)]
    /\ adding' = NoProc
    /\ UNCHANGED <<slot, ready_queue, running_list, hand, putting, fresh, over>>

\* add_proc, second half
AddSecond ==
    /\ adding # NoProc
    /\ EnqueueMlq(adding)
    /\ adding' = NoProc
    /\ UNCHANGED <<hand, putting, fresh, over>>

CallerStep(c) == Get(c) \/ Discard(c) \/ PutFirst(c) \/ PutSecond(c)

CNext ==
    \/ \E c \in Caller : CallerStep(c)
    \/ \E p \in Proc : AddFirst(p)
    \/ AddSecond

CSpec == CInit /\ [][CNext]_cvars

\* Every caller keeps calling, as cpu_routine does slot after slot
CFairness ==
    /\ \A c \in Caller : WF_cvars(CallerStep(c))
    /\ WF_cvars(AddSecond)

CFairSpec == CSpec /\ CFairness

----------------------------------------------------------------------------
(* Properties.                                                             *)

CTypeOK ==
    /\ SchedTypeOK
    /\ hand \in [Caller -> Proc \cup {NoProc}]
    /\ putting \in SUBSET Caller
    /\ fresh \in SUBSET Proc
    /\ adding \in Proc \cup {NoProc}
    /\ over \in SUBSET Proc

\* How often p is to be found: in its queue, in hands, about to be added
\* by the loader, or not there yet
Holders(p) == {c \in Caller : hand[c] = p}
Positions(p) ==
    {w \in Prio \X (1 .. MAX_QUEUE_SIZE) :
        /\ w[2] \in DOMAIN mlq_ready_queue[w[1]]
        /\ mlq_ready_queue[w[1]][w[2]] = p}
Outside(p) ==
    {w \in {"fresh", "adding", "over"} :
        \/ w = "fresh" /\ p \in fresh
        \/ w = "adding" /\ p = adding
        \/ w = "over" /\ p \in over}

\* No process is in two hands, or in a queue and in a hand, or twice in the
\* queues: two CPUs never run the same pcb
Exclusive ==
    \A p \in Proc :
        Cardinality(Holders(p)) + Cardinality(Positions(p))
            + Cardinality(Outside(p)) <= 1

\* "Put a process back to run queue": a process that was added and has not
\* finished is in the queues or in somebody's hands
NoProcessLost ==
    \A p \in Proc :
        Holders(p) \cup Positions(p) \cup Outside(p) # {}

\* The place of p in its queue, and who stands nearer to the head than another
\* of his priority
Position(p) == CHOOSE k \in DOMAIN mlq_ready_queue[prio[p]] :
                   mlq_ready_queue[prio[p]][k] = p
Ahead(p, q) ==
    Ready(p) /\ Ready(q) /\ prio[p] = prio[q] /\ Position(p) < Position(q)

\* Within a priority the order of put_proc and add_proc is that of get_proc: as
\* long as p waits, no q of its priority that is not ahead of it, because it
\* stands behind p or is put back or added later, gets ahead of it or is
\* dispatched
FifoWithinPriority ==
    [][\A p, q \in Proc :
          (p # q /\ prio[p] = prio[q] /\ Ready(p) /\ ~Ahead(q, p)) =>
              \/ ~Ready(p)'
              \/ /\ ~Ahead(q, p)'
                 /\ ~\E c \in Caller : hand[c] # q /\ hand'[c] = q]_cvars

\* Dispatches that are left in this round, and those of a whole one
Tickets == {w \in Prio \X (1 .. MAX_PRIO) : w[2] <= slot[w[1]]}
RoundLength == Cardinality({w \in Prio \X (1 .. MAX_PRIO) : w[2] <= Share(w[1])})

\* After how many calls of get_proc p comes at the latest: the others of its
\* queue may each take a round, one more passes if its priority has no slot,
\* and then there is what is left of this one
Rounds(p) == Position(p) - (IF slot[prio[p]] > 0 THEN 1 ELSE 0)
Wait(p) == (RoundLength + 1) * Rounds(p) + Cardinality(Tickets)

\* While p is ready no step makes it wait longer, and each call of get_proc
\* dispatches it or brings it nearer to that, also one that returns NULL
BoundedWait ==
    [][\A p \in Proc : Ready(p) =>
          \/ \E c \in Caller : hand[c] # p /\ hand'[c] = p
          \/ /\ Ready(p)'
             /\ Wait(p)' <= Wait(p)
             /\ (\E c \in Caller : Get(c)) => Wait(p)' < Wait(p)]_cvars

\* A ready process is dispatched sooner or later, whatever its priority:
\* the slots keep the more urgent queues from starving it
NoStarvation ==
    \A p \in Proc : Ready(p) ~> \E c \in Caller : hand[c] = p
=============================================================================
