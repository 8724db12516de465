------------------------------- MODULE Sched -------------------------------
(***************************************************************************)
(* The multi-level queue scheduler: queue.c and the MLQ_SCHED half of      *)
(* sched.c.  Every operator below is one critical section under            *)
(* queue_lock, so it is one step; put_proc and add_proc consist of two of  *)
(* them each, and whoever calls them may be interrupted in between.        *)
(*                                                                         *)
(* The module says what the calls do to the queues.  Who calls them is     *)
(* said by SchedClient.tla (any threads that use the scheduler as it is    *)
(* meant to be used) and by OS.tla (cpu_routine and ld_routine).           *)
(***************************************************************************)
EXTENDS Integers, Sequences, SequencesExt

CONSTANTS
    Proc,              \* the processes
    MAX_PRIO,          \* number of priorities; 0 is the most urgent
    MAX_QUEUE_SIZE,    \* capacity of every queue_t
    prio,              \* prio[p]: the priority of p in the configuration file
    NoProc             \* the NULL pointer

Prio == 0 .. MAX_PRIO - 1

ASSUME SchedAssumption ==
    /\ MAX_PRIO \in Nat \ {0}
    /\ MAX_QUEUE_SIZE \in Nat
    /\ prio \in [Proc -> Prio]
    /\ NoProc \notin Proc

VARIABLES
    mlq_ready_queue,   \* one queue per priority
    slot,              \* dispatches a priority has left in this round
    ready_queue,       \* only ever written: nothing dequeues from it
    running_list       \* only ever written by the scheduler

sched == <<mlq_ready_queue, slot, ready_queue, running_list>>

----------------------------------------------------------------------------
(* queue.c                                                                 *)

empty(q) == q = <<>>

\* Mutant: the newest process goes to the front
BadEnqueue(q, p) == IF Len(q) < MAX_QUEUE_SIZE THEN <<p>> \o q ELSE q

\* Mutant: the capacity check lets one process too many in
BadCapacity(q, p) == IF Len(q) <= MAX_QUEUE_SIZE THEN Append(q, p) ELSE q

\* A full queue drops the process without a word
enqueue(q, p) == IF Len(q) < MAX_QUEUE_SIZE THEN Append(q, p) ELSE q

\* Mutant: `<=' for `<' in the search for the smallest priority
BadHighest(q) ==
    CHOOSE i \in DOMAIN q :
        \A j \in DOMAIN q :
            \/ prio[q[i]] < prio[q[j]]
            \/ prio[q[i]] = prio[q[j]] /\ i >= j

\* highest_num in dequeue: the first among the most urgent
Highest(q) ==
    CHOOSE i \in DOMAIN q :
        \A j \in DOMAIN q :
            \/ prio[q[i]] < prio[q[j]]
            \/ prio[q[i]] = prio[q[j]] /\ i <= j

\* What dequeue returns and what it leaves in the queue, for a queue that
\* is not empty
dequeued(q) == q[Highest(q)]
remaining(q) == RemoveAt(q, Highest(q))

----------------------------------------------------------------------------
(* sched.c                                                                 *)

\* A round gives priority i this many dispatches
Share(i) == MAX_PRIO - i

SchedInit ==
    /\ mlq_ready_queue = [i \in Prio |-> <<>>]
    /\ slot = [i \in Prio |-> Share(i)]
    /\ ready_queue = <<>>
    /\ running_list = <<>>

\* queue_empty() = -1
QueuesEmpty == \A i \in Prio : empty(mlq_ready_queue[i])

\* The priorities get_mlq_proc may serve
Servable == {i \in Prio : ~empty(mlq_ready_queue[i]) /\ slot[i] > 0}

\* Mutant: slots are never given back
BadGetProc(res) ==
    IF Servable = {}
    THEN res = NoProc /\ UNCHANGED sched
    ELSE LET i == CHOOSE i \in Servable : \A j \in Servable : i <= j IN
           /\ res = dequeued(mlq_ready_queue[i])
           /\ mlq_ready_queue' = [mlq_ready_queue EXCEPT ![i] = remaining(@)]
           /\ slot' = [slot EXCEPT ![i] = @ - 1]
           /\ UNCHANGED <<ready_queue, running_list>>

\* get_mlq_proc returns res.  When no priority with a process has a slot
\* left, every priority gets its share back, and the caller gets nothing
\* this time, although processes are ready
GetProc(res) ==
    CASE QueuesEmpty ->
           res = NoProc /\ UNCHANGED sched
      [] ~QueuesEmpty /\ Servable = {} ->
           /\ res = NoProc
           /\ slot' = [i \in Prio |-> Share(i)]
           /\ UNCHANGED <<mlq_ready_queue, ready_queue, running_list>>
      [] OTHER ->
           LET i == CHOOSE i \in Servable : \A j \in Servable : i <= j IN
           /\ res = dequeued(mlq_ready_queue[i])
           /\ mlq_ready_queue' = [mlq_ready_queue EXCEPT ![i] = remaining(@)]
           /\ slot' = [slot EXCEPT ![i] = @ - 1]
           /\ UNCHANGED <<ready_queue, running_list>>

\* The first critical section of put_proc
PutReady(p) ==
    /\ ready_queue' = enqueue(ready_queue, p)
    /\ UNCHANGED <<mlq_ready_queue, slot, running_list>>

\* The first critical section of add_proc
AddRunning(p) ==
    /\ running_list' = enqueue(running_list, p)
    /\ UNCHANGED <<mlq_ready_queue, slot, ready_queue>>

\* put_mlq_proc and add_mlq_proc, the second critical section of both
EnqueueMlq(p) ==
    /\ mlq_ready_queue' = [mlq_ready_queue EXCEPT ![prio[p]] = enqueue(@, p)]
    /\ UNCHANGED <<slot, ready_queue, running_list>>

----------------------------------------------------------------------------
\* p waits in the queue of its priority
Ready(p) == p \in Range(mlq_ready_queue[prio[p]])

SchedTypeOK ==
    /\ mlq_ready_queue \in [Prio -> Seq(Proc)]
    /\ slot \in [Prio -> Nat]
    /\ \A i \in Prio : slot[i] <= Share(i)
    /\ \A q \in {ready_queue, running_list} \cup Range(mlq_ready_queue) :
          Len(q) <= MAX_QUEUE_SIZE
    /\ {ready_queue, running_list} \subseteq Seq(Proc)
=============================================================================
