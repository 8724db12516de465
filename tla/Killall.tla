------------------------------ MODULE Killall ------------------------------
(***************************************************************************)
(* __sys_killall of sys_killall.c on the queues of the scheduler, kept as  *)
(* the arrays of queue.h.  It walks and shifts mlq_ready_queue, that is    *)
(* the queue of priority 0, and running_list without queue_lock, while the *)
(* other CPUs and the loader work on them under that lock; so killall is   *)
(* taken statement by statement, with size-- and size++ in two accesses,   *)
(* and so is everything it can meet.                                       *)
(*                                                                         *)
(* The module shows one time slot, in which one CPU executes the system    *)
(* call and each other thread has its turn once: the slot ends only when   *)
(* the system call has returned.  No killall came before.  The memory the  *)
(* call gives back is the matter of VMem.tla.                              *)
(***************************************************************************)
EXTENDS Integers, Sequences, FiniteSets, SequencesExt

CONSTANTS
    Proc,              \* the processes
    Killer,            \* the one that executes the system call
    CPU,               \* the other CPU threads
    Loader,            \* the loader thread
    MAX_QUEUE_SIZE,    \* capacity of a queue_t
    NoProc             \* the NULL pointer

ASSUME KillallAssumption ==
    /\ Killer \in Proc
    /\ NoProc \notin Proc
    /\ CPU \cap {Loader, "queue", "elsewhere", "over", "fresh"} = {}
    /\ IsFiniteSet(Proc)
    /\ MAX_QUEUE_SIZE \in Nat
    /\ Cardinality(Proc) <= MAX_QUEUE_SIZE

Victim == Proc \ {Killer}
Actor == CPU \cup {Loader}
List == {"ready", "running"}      \* mlq_ready_queue[0] and running_list
Slot == 0 .. MAX_QUEUE_SIZE - 1

VARIABLES
    arr, size,         \* the two fields of both queues
    target,            \* the process whose name the memory region holds
    kpc, klist,        \* where the system call is, and on which list
    idx, kp, ki,       \* its idx, its p, the i of remove_from_queue
    kn, kv,            \* the value of size and the pointer it has read
    turn,              \* what each other thread does next in this slot
    hand,              \* the process each of them holds
    sec,               \* the critical section under queue_lock
    over,              \* processes whose pcb has been freed
    away,              \* processes in the queues of other priorities
    given,             \* how often the memory of the target was given back
    broken,            \* why the program means nothing any more, or "no"
    met,               \* history: lists a critical section met the call on
    ideal              \* history: the lists, had each of them been atomic

lists == <<arr, size>>
killer == <<kpc, klist, idx, kp, ki, kn, kv, given>>
others == <<turn, hand, sec, over>>
vars == <<lists, target, away, killer, others, broken, met, ideal>>

\* The registers of whoever holds queue_lock
Section(a, pc, L, p) ==
    [holder |-> a, pc |-> pc, list |-> L, proc |-> p, i |-> 0, n |-> 0,
     v |-> NoProc]
NoSection == Section(NoProc, "free", "ready", NoProc)

----------------------------------------------------------------------------
(* Where the processes may be when the slot begins: in the queue of        *)
(* priority 0, on another CPU, in a queue of another priority, finished,   *)
(* or still to be loaded.  All but the last are in running_list.           *)

Orders(S) == {s \in [1 .. Cardinality(S) -> S] : IsInjective(s)}

Filled(s) == [k \in Slot |-> IF k < Len(s) THEN s[k + 1] ELSE NoProc]

Init ==
    /\ target \in Proc
    /\ \E where \in [Victim -> {"queue", "elsewhere", "over", "fresh"} \cup CPU] :
          LET At(w) == {p \in Victim : where[p] = w} IN
          /\ \A a \in CPU \cup {"fresh"} : Cardinality(At(a)) <= 1
          /\ \E q \in Orders(At("queue")), r \in Orders(Proc \ At("fresh")) :
                /\ ideal = [L \in List |-> IF L = "ready" THEN q ELSE r]
                /\ arr = [L \in List |-> Filled(ideal[L])]
                /\ size = [L \in List |-> Len(ideal[L])]
          /\ LET Sole(a) == IF At(a) = {} THEN NoProc ELSE CHOOSE p \in At(a) : TRUE IN
             hand = [a \in Actor |-> Sole(IF a = Loader THEN "fresh" ELSE a)]
          /\ over = At("over")
          /\ away = At("elsewhere")
    /\ turn = [a \in Actor |->
                 IF a # Loader THEN "first" ELSE IF hand[a] = NoProc THEN "done" ELSE "add"]
    /\ kpc = "read" /\ klist = "ready"
    /\ idx = 0 /\ kp = NoProc /\ ki = 0 /\ kn = 0 /\ kv = NoProc /\ given = 0
    /\ sec = NoSection
    /\ broken = "no"
    /\ met = {}

----------------------------------------------------------------------------
(* __sys_killall.                                                          *)

\* The name is read from memory, byte by byte
ReadName ==
    /\ kpc = "read"
    /\ kpc' = "test"
    /\ UNCHANGED <<lists, klist, idx, kp, ki, kn, kv, given, others, broken, ideal>>

\* A finished process does not match: free() has overwritten its pid
Matches(p) == p = target /\ p \notin over

\* Mutant: the place after the last one is looked at, too
BadTestIdx ==
    /\ kpc = "test"
    /\ idx <= size[klist]
    /\ kpc' = "load"
    /\ UNCHANGED <<lists, klist, idx, kp, ki, kn, kv, given, others, broken, ideal>>

\* idx < size
TestIdx ==
    /\ kpc = "test"
    /\ idx < size[klist]
    /\ kpc' = "load"
    /\ UNCHANGED <<lists, klist, idx, kp, ki, kn, kv, given, others, broken, ideal>>

\* The end of a loop: running_list after mlq_ready_queue, then the return
EndOfList ==
    /\ kpc = "test"
    /\ idx >= size[klist]
    /\ IF klist = "ready"
       THEN klist' = "running" /\ idx' = 0 /\ UNCHANGED kpc
       ELSE kpc' = "end" /\ UNCHANGED <<klist, idx>>
    /\ UNCHANGED <<lists, kp, ki, kn, kv, given, others, broken, ideal>>

\* p = proc[idx]
LoadProc ==
    /\ kpc = "load"
    /\ kp' = arr[klist][idx]
    /\ kpc' = "match"
    /\ UNCHANGED <<lists, klist, idx, ki, kn, kv, given, others, broken, ideal>>

\* The name of p is another one
NoMatch ==
    /\ kpc = "match"
    /\ kp # NoProc
    /\ ~Matches(kp)
    /\ idx' = idx + 1
    /\ kpc' = "test"
    /\ UNCHANGED <<lists, klist, kp, ki, kn, kv, given, others, broken, ideal>>

\* Bound: whatever is given back thrice or oftener counts as three
More(n) == IF n < 3 THEN n + 1 ELSE n

\* The list s without process p, as an atomic operation would leave it
Without(s, p) ==
    IF p \in Range(s) THEN RemoveAt(s, CHOOSE k \in DOMAIN s : s[k] = p) ELSE s

\* It is the target: libfree and free_pcb_memph, then remove_from_queue
Match ==
    /\ kpc = "match"
    /\ kp # NoProc
    /\ Matches(kp)
    /\ given' = More(given)
    /\ ki' = idx
    /\ kpc' = "shift"
    /\ ideal' = [ideal EXCEPT ![klist] = Without(@, kp)]
    /\ UNCHANGED <<lists, klist, idx, kp, kn, kv, others, broken>>

\* p->pid of a NULL pointer
MatchNull ==
    /\ kpc = "match"
    /\ kp = NoProc
    /\ broken' = "null pointer"
    /\ UNCHANGED <<lists, killer, others, ideal>>

\* The loop of remove_from_queue: i < size - 1
Shift ==
    /\ kpc = "shift"
    /\ kpc' = IF ki < size[klist] - 1 THEN "copy" ELSE "dec"
    /\ UNCHANGED <<lists, klist, idx, kp, ki, kn, kv, given, others, broken, ideal>>

\* proc[i] = proc[i + 1]: the pointer is read ...
ShiftRead ==
    /\ kpc = "copy"
    /\ kv' = arr[klist][ki + 1]
    /\ kpc' = "put"
    /\ UNCHANGED <<lists, klist, idx, kp, ki, kn, given, others, broken, ideal>>

\* ... and written one place down
ShiftWrite ==
    /\ kpc = "put"
    /\ arr' = [arr EXCEPT ![klist][ki] = kv]
    /\ ki' = ki + 1
    /\ kv' = NoProc
    /\ kpc' = "shift"
    /\ UNCHANGED <<size, klist, idx, kp, kn, given, others, broken, ideal>>

\* size--: the value is read ...
DecRead ==
    /\ kpc = "dec"
    /\ kn' = size[klist]
    /\ kpc' = "store"
    /\ UNCHANGED <<lists, klist, idx, kp, ki, kv, given, others, broken, ideal>>

\* Mutant: size-- is forgotten
BadDecWrite ==
    /\ kpc = "store"
    /\ kpc' = "clear"
    /\ UNCHANGED <<lists, klist, idx, kp, ki, kn, kv, given, others, broken, ideal>>

\* ... and written
DecWrite ==
    /\ kpc = "store"
    /\ size' = [size EXCEPT ![klist] = kn - 1]
    /\ kpc' = "clear"
    /\ UNCHANGED <<arr, klist, idx, kp, ki, kn, kv, given, others, broken, ideal>>

\* Mutant: the place that became free keeps its pointer
BadClear ==
    /\ kpc = "clear"
    /\ kpc' = "test"
    /\ UNCHANGED <<lists, klist, idx, kp, ki, kn, kv, given, others, broken, ideal>>

\* Mutant: idx-- although nothing adds to idx
BadStep ==
    /\ kpc = "clear"
    /\ IF size[klist] \in Slot
       THEN /\ arr' = [arr EXCEPT ![klist][size[klist]] = NoProc]
            /\ UNCHANGED broken
       ELSE broken' = "outside the array" /\ UNCHANGED arr
    /\ idx' = idx - 1
    /\ kpc' = "test"
    /\ UNCHANGED <<size, klist, kp, ki, kn, kv, given, others, ideal>>

\* proc[size] = NULL; idx-- makes up for the idx++ of the loop
Clear ==
    /\ kpc = "clear"
    /\ IF size[klist] \in Slot
       THEN /\ arr' = [arr EXCEPT ![klist][size[klist]] = NoProc]
            /\ UNCHANGED broken
       ELSE broken' = "outside the array" /\ UNCHANGED arr
    /\ kpc' = "test"
    /\ UNCHANGED <<size, klist, idx, kp, ki, kn, kv, given, others, ideal>>

KillerStep ==
    \/ ReadName \/ TestIdx \/ EndOfList \/ LoadProc \/ NoMatch \/ Match
    \/ MatchNull \/ Shift \/ ShiftRead \/ ShiftWrite \/ DecRead \/ DecWrite \/ Clear

----------------------------------------------------------------------------
(* The turns of cpu_routine and ld_routine.                                *)

\* Some of the quantum is left
Stay(c) ==
    /\ turn[c] = "first"
    /\ hand[c] # NoProc
    /\ turn' = [turn EXCEPT ![c] = "done"]
    /\ UNCHANGED <<lists, killer, hand, sec, over, broken, ideal>>

\* The process has executed all its code: its pcb is freed
Finish(c) ==
    /\ turn[c] = "first"
    /\ hand[c] # NoProc
    /\ over' = over \cup {hand[c]}
    /\ hand' = [hand EXCEPT ![c] = NoProc]
    /\ turn' = [turn EXCEPT ![c] = "get"]
    /\ UNCHANGED <<lists, killer, sec, broken, ideal>>

\* put_mlq_proc of a process of priority 0
PutBack(c) ==
    /\ turn[c] = "first"
    /\ hand[c] # NoProc
    /\ sec = NoSection
    /\ sec' = Section(c, "etest", "ready", hand[c])
    /\ hand' = [hand EXCEPT ![c] = NoProc]
    /\ turn' = [turn EXCEPT ![c] = "get"]
    /\ UNCHANGED <<lists, killer, over, broken, ideal>>

\* get_mlq_proc
GetProc(c) ==
    /\ turn[c] = "get" \/ (turn[c] = "first" /\ hand[c] = NoProc)
    /\ sec = NoSection
    /\ sec' = Section(c, "gtest", "ready", NoProc)
    /\ turn' = [turn EXCEPT ![c] = "done"]
    /\ UNCHANGED <<lists, killer, hand, over, broken, ideal>>

\* The two critical sections of add_proc
AddProc ==
    /\ turn[Loader] = "add"
    /\ sec = NoSection
    /\ sec' = Section(Loader, "etest", "running", hand[Loader])
    /\ turn' = [turn EXCEPT ![Loader] = "addmlq"]
    /\ UNCHANGED <<lists, killer, hand, over, broken, ideal>>

AddMlqProc ==
    /\ turn[Loader] = "addmlq"
    /\ sec = NoSection
    /\ sec' = Section(Loader, "etest", "ready", hand[Loader])
    /\ hand' = [hand EXCEPT ![Loader] = NoProc]
    /\ turn' = [turn EXCEPT ![Loader] = "done"]
    /\ UNCHANGED <<lists, killer, over, broken, ideal>>

TurnStep == (\E c \in CPU : Stay(c) \/ Finish(c) \/ PutBack(c) \/ GetProc(c))
                \/ AddProc \/ AddMlqProc

----------------------------------------------------------------------------
(* enqueue and dequeue of queue.c, in the critical section.                *)

\* enqueue: size < MAX_QUEUE_SIZE; a full queue drops the process
EnqTest ==
    /\ sec.pc = "etest"
    /\ sec' = IF size[sec.list] < MAX_QUEUE_SIZE THEN [sec EXCEPT !.pc = "eread"]
              ELSE NoSection
    /\ UNCHANGED <<lists, turn, hand, broken, ideal>>

\* proc[size++] = proc: size is read, ...
EnqRead ==
    /\ sec.pc = "eread"
    /\ sec' = [sec EXCEPT !.pc = "ewrite", !.n = size[sec.list]]
    /\ UNCHANGED <<lists, turn, hand, broken, ideal>>

\* ... written, ...
EnqWrite ==
    /\ sec.pc = "ewrite"
    /\ size' = [size EXCEPT ![sec.list] = sec.n + 1]
    /\ sec' = [sec EXCEPT !.pc = "estore"]
    /\ UNCHANGED <<arr, turn, hand, broken, ideal>>

\* ... and the pointer stored
EnqStore ==
    /\ sec.pc = "estore"
    /\ IF sec.n \in Slot
       THEN arr' = [arr EXCEPT ![sec.list][sec.n] = sec.proc] /\ UNCHANGED broken
       ELSE broken' = "outside the array" /\ UNCHANGED arr
    /\ ideal' = [ideal EXCEPT ![sec.list] = Append(@, sec.proc)]
    /\ sec' = NoSection
    /\ UNCHANGED <<size, turn, hand>>

\* get_mlq_proc takes nothing from this queue: it is empty, or its slots of
\* this round are used up.  A process of another queue is not followed
GetNothing ==
    /\ sec.pc = "gtest"
    /\ sec' = NoSection
    /\ UNCHANGED <<lists, turn, hand, broken, ideal>>

GetSome ==
    /\ sec.pc = "gtest"
    /\ size[sec.list] # 0
    /\ sec' = [sec EXCEPT !.pc = "dtest"]
    /\ UNCHANGED <<lists, turn, hand, broken, ideal>>

\* dequeue: size == 0
DeqTest ==
    /\ sec.pc = "dtest"
    /\ sec' = IF size[sec.list] = 0 THEN NoSection ELSE [sec EXCEPT !.pc = "scan"]
    /\ UNCHANGED <<lists, turn, hand, broken, ideal>>

\* The first pointer that is not NULL: all the processes of this queue are
\* of one priority.  Without any, highest_num stays -1
DeqScan ==
    /\ sec.pc = "scan"
    /\ IF sec.i >= size[sec.list]
       THEN broken' = "outside the array" /\ UNCHANGED sec
       ELSE /\ sec' = IF arr[sec.list][sec.i] # NoProc THEN [sec EXCEPT !.pc = "take"]
                      ELSE [sec EXCEPT !.i = @ + 1]
            /\ UNCHANGED broken
    /\ UNCHANGED <<lists, turn, hand, ideal>>

\* prio_proc = proc[highest_num]
DeqTake ==
    /\ sec.pc = "take"
    /\ sec' = [sec EXCEPT !.pc = "dec", !.proc = arr[sec.list][sec.i]]
    /\ UNCHANGED <<lists, turn, hand, broken, ideal>>

\* size--: read ...
DeqDecRead ==
    /\ sec.pc = "dec"
    /\ sec' = [sec EXCEPT !.pc = "store", !.n = size[sec.list]]
    /\ UNCHANGED <<lists, turn, hand, broken, ideal>>

\* ... and written
DeqDecWrite ==
    /\ sec.pc = "store"
    /\ size' = [size EXCEPT ![sec.list] = sec.n - 1]
    /\ sec' = [sec EXCEPT !.pc = "shift"]
    /\ UNCHANGED <<arr, turn, hand, broken, ideal>>

\* Mutant: one round of the loop is missing, and the last place cleared
BadDeqShift ==
    /\ sec.pc = "shift"
    /\ sec' = [sec EXCEPT !.pc = IF sec.i < size[sec.list] - 1 THEN "copy" ELSE "clear"]
    /\ UNCHANGED <<lists, turn, hand, broken, ideal>>

\* The loop that closes the gap: i < size
DeqShift ==
    /\ sec.pc = "shift"
    /\ sec' = [sec EXCEPT !.pc = IF sec.i < size[sec.list] THEN "copy" ELSE "clear"]
    /\ UNCHANGED <<lists, turn, hand, broken, ideal>>

\* proc[i] = proc[i + 1]: read ...
DeqShiftRead ==
    /\ sec.pc = "copy"
    /\ sec' = [sec EXCEPT !.pc = "put", !.v = arr[sec.list][sec.i + 1]]
    /\ UNCHANGED <<lists, turn, hand, broken, ideal>>

\* ... and written
DeqShiftWrite ==
    /\ sec.pc = "put"
    /\ arr' = [arr EXCEPT ![sec.list][sec.i] = sec.v]
    /\ sec' = [sec EXCEPT !.pc = "shift", !.i = @ + 1, !.v = NoProc]
    /\ UNCHANGED <<size, turn, hand, broken, ideal>>

\* proc[size] = NULL, and the process is returned
DeqClear ==
    /\ sec.pc = "clear"
    /\ IF size[sec.list] \in Slot
       THEN arr' = [arr EXCEPT ![sec.list][size[sec.list]] = NoProc] /\ UNCHANGED broken
       ELSE broken' = "outside the array" /\ UNCHANGED arr
    /\ hand' = [hand EXCEPT ![sec.holder] = sec.proc]
    /\ ideal' = [ideal EXCEPT ![sec.list] = IF @ = <<>> THEN @ ELSE Tail(@)]
    /\ sec' = NoSection
    /\ UNCHANGED <<size, turn>>

SectionStep ==
    /\ \/ EnqTest \/ EnqRead \/ EnqWrite \/ EnqStore
       \/ GetNothing \/ GetSome
       \/ DeqTest \/ DeqScan \/ DeqTake \/ DeqDecRead \/ DeqDecWrite
       \/ DeqShift \/ DeqShiftRead \/ DeqShiftWrite \/ DeqClear
    /\ UNCHANGED <<killer, over>>

----------------------------------------------------------------------------
\* The system call is in its loop over list L
Scanning(L) == kpc \notin {"read", "end"} /\ klist = L

\* A critical section is on list L
Locked(L) == sec # NoSection /\ sec.list = L

Move(A) ==
    /\ broken = "no"
    /\ A
    /\ UNCHANGED <<target, away>>
    /\ met' = met \cup {L \in List : Scanning(L)' /\ Locked(L)'}

Next == Move(KillerStep) \/ Move(TurnStep) \/ Move(SectionStep)

\* The thread of the killer runs; the others may stop for as long as they like
Spec == Init /\ [][Next]_vars /\ WF_vars(Move(KillerStep))

----------------------------------------------------------------------------
(* Properties.                                                             *)

\* A stale size-- can lead below zero, once for each other thread it meets, but
\* no stale size++ above the capacity
Count == {n \in Int : n <= MAX_QUEUE_SIZE}

TypeOK ==
    /\ arr \in [List -> [Slot -> Proc \cup {NoProc}]]
    /\ size \in [List -> Count]
    /\ idx \in 0 .. MAX_QUEUE_SIZE
    /\ ki \in 0 .. MAX_QUEUE_SIZE
    /\ kn \in Count
    /\ {kp, kv, sec.v} \subseteq Proc \cup {NoProc}
    /\ hand \in [Actor -> Proc \cup {NoProc}]
    /\ sec.holder \in Actor \cup {NoProc}
    /\ sec.i \in 0 .. MAX_QUEUE_SIZE
    /\ sec.n \in Count
    /\ over \subseteq Proc
    /\ given \in 0 .. 3

\* Where no critical section met the system call, nothing shows that it took
\* no lock: the list is what atomic operations would have left, packed, and
\* NULL above its size
ListsExact ==
    \A L \in List :
        (L \notin met /\ ~Scanning(L) /\ ~Locked(L)) =>
            /\ size[L] = Len(ideal[L])
            /\ arr[L] = Filled(ideal[L])

\* The system call follows no NULL pointer and leaves the array nowhere, unless
\* a critical section met it in the walk of one of the lists
BreaksOnlyTogether == broken # "no" => met # {}

\* The places of p: the queue, the other CPUs, the caller of enqueue or
\* dequeue that is on its way with it
Places(p) ==
    {<<"ready", k>> : k \in {k \in Slot : arr["ready"][k] = p}}
        \cup {<<"hand", a>> : a \in {a \in Actor : hand[a] = p}}

\* p is in one place at most, and in one if it belongs to the queue
KeepsPlace(p) ==
    /\ Cardinality(Places(p)) <= 1
    /\ p \in Range(ideal["ready"]) => Cardinality(Places(p)) = 1

\* A process killall does not name keeps its only place in the scheduler,
\* when the walk of the ready queue is undisturbed
BystandersKept ==
    \A p \in Victim \ {target} :
        ("ready" \notin met /\ ~Scanning("ready") /\ sec = NoSection) => KeepsPlace(p)

\* The system call returns, even if other threads keep moving the lists
\* under it, unless it breaks on what they left there
KillReturns == <>(kpc = "end" \/ broken # "no")
=============================================================================
