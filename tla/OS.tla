--------------------------------- MODULE OS ---------------------------------
(***************************************************************************)
(* os.c: the CPU threads (cpu_routine), the loader thread (ld_routine with *)
(* load of loader.c) and main from the creation of the threads on,         *)
(* composed with the scheduler (Sched.tla) and with the time slots         *)
(* (SlotBarrier.tla, which Timer.tla implements).                          *)
(*                                                                         *)
(* One step is one critical section of the scheduler, one call of the      *)
(* timer, one read or write of `done' or the execution of one instruction; *)
(* the statements between them touch only locals.  What an instruction     *)
(* does to memory is the matter of the memory modules.                     *)
(***************************************************************************)
EXTENDS Sched

CONSTANTS
    CPU,               \* the CPU threads
    Loader,            \* the loader thread
    time_slot,         \* quantum, in time slots
    ld_processes,      \* the processes, in the order of the configuration file
    start_time,        \* start_time[p]
    size,              \* size[p]: number of instructions of p
    Horizon            \* the clock of the model stops here

num_processes == Len(ld_processes)

ASSUME OSAssumption ==
    /\ Loader \notin CPU
    /\ time_slot \in Nat \ {0}
    /\ ld_processes \in Seq(Proc)
    /\ IsInjective(ld_processes)
    /\ Range(ld_processes) = Proc
    /\ size \in [Proc -> Nat]
    /\ start_time \in [Proc -> Nat]
    /\ Horizon \in Nat
    /\ \A p \in Proc : start_time[p] <= Horizon

Device == CPU \cup {Loader}

VARIABLES
    time, st,          \* the time slots, as in SlotBarrier
    cpc,               \* where each CPU thread is
    proc,              \* the local `proc' of each CPU thread
    time_left,         \* the local `time_left' of each CPU thread
    pid,               \* pid of each process, 0 until it is loaded
    avail_pid,         \* the pid load gives next
    pc,                \* program counter of each process
    over,              \* processes that finished and were freed
    lpc,               \* where the loader is
    li,                \* its index `i', counted from 1
    done,              \* set by the loader, read by the CPUs, no lock
    mpc,               \* main: creating the threads, joining them, or past it
    ran                \* history: who executed an instruction in this slot

cpu  == <<cpc, proc, time_left>>
ld   == <<lpc, li, done, pid, avail_pid>>
slots == <<time, st>>
vars == <<sched, slots, cpu, pc, over, ld, mpc, ran>>

Slots == INSTANCE SlotBarrier

CpuPC == {"new", "top", "get", "put", "check", "slot", "wait", "detach", "exit"}
LoaderPC == {"new", "load", "until", "uwait", "add", "slot", "wait", "quit", "exit"}

Init ==
    /\ SchedInit
    /\ Slots!BInit
    /\ cpc = [c \in CPU |-> "new"]
    /\ proc = [c \in CPU |-> NoProc]
    /\ time_left = [c \in CPU |-> 0]
    /\ pid = [p \in Proc |-> 0]
    /\ avail_pid = 1
    /\ pc = [p \in Proc |-> 0]
    /\ over = {}
    /\ lpc = "new"
    /\ li = 1
    /\ done = FALSE
    /\ mpc = "spawn"
    /\ ran = {}

----------------------------------------------------------------------------
(* cpu_routine.                                                            *)

\* No process: try to get one, and sit this slot out if there is none
GetFirst(c) ==
    /\ cpc[c] = "top"
    /\ proc[c] = NoProc
    /\ \E res \in Proc \cup {NoProc} :
          /\ GetProc(res)
          /\ proc' = [proc EXCEPT ![c] = res]
          /\ cpc' = [cpc EXCEPT ![c] = IF res = NoProc THEN "slot" ELSE "check"]
    /\ UNCHANGED <<slots, time_left, pc, over, ld, mpc, ran>>

\* Mutant: the next process inherits what was left of the quantum
BadFinish(c) ==
    /\ cpc[c] = "top"
    /\ proc[c] # NoProc
    /\ pc[proc[c]] = size[proc[c]]
    /\ over' = over \cup {proc[c]}
    /\ proc' = [proc EXCEPT ![c] = NoProc]
    /\ cpc' = [cpc EXCEPT ![c] = "get"]
    /\ UNCHANGED <<sched, slots, time_left, pc, ld, mpc, ran>>

\* The process has executed all its code: it is freed, and time_left reset
Finish(c) ==
    /\ cpc[c] = "top"
    /\ proc[c] # NoProc
    /\ pc[proc[c]] = size[proc[c]]
    /\ over' = over \cup {proc[c]}
    /\ proc' = [proc EXCEPT ![c] = NoProc]
    /\ time_left' = [time_left EXCEPT ![c] = 0]
    /\ cpc' = [cpc EXCEPT ![c] = "get"]
    /\ UNCHANGED <<sched, slots, pc, ld, mpc, ran>>

\* The quantum is over: first half of put_proc
PutBack(c) ==
    /\ cpc[c] = "top"
    /\ proc[c] # NoProc
    /\ pc[proc[c]] # size[proc[c]]
    /\ time_left[c] = 0
    /\ PutReady(proc[c])
    /\ cpc' = [cpc EXCEPT ![c] = "put"]
    /\ UNCHANGED <<slots, proc, time_left, pc, over, ld, mpc, ran>>

\* Mutant: the CPU keeps running the process it has just put back
BadPutBackMlq(c) ==
    /\ cpc[c] = "put"
    /\ EnqueueMlq(proc[c])
    /\ cpc' = [cpc EXCEPT ![c] = "check"]
    /\ UNCHANGED <<slots, proc, time_left, pc, over, ld, mpc, ran>>

\* Second half of put_proc
PutBackMlq(c) ==
    /\ cpc[c] = "put"
    /\ EnqueueMlq(proc[c])
    /\ proc' = [proc EXCEPT ![c] = NoProc]
    /\ cpc' = [cpc EXCEPT ![c] = "get"]
    /\ UNCHANGED <<slots, time_left, pc, over, ld, mpc, ran>>

\* get_proc after the last process finished or was put back
GetNext(c) ==
    /\ cpc[c] = "get"
    /\ \E res \in Proc \cup {NoProc} :
          /\ GetProc(res)
          /\ proc' = [proc EXCEPT ![c] = res]
    /\ cpc' = [cpc EXCEPT ![c] = "check"]
    /\ UNCHANGED <<slots, time_left, pc, over, ld, mpc, ran>>

\* Some of the quantum is left: go on with the same process
Stay(c) ==
    /\ cpc[c] = "top"
    /\ proc[c] # NoProc
    /\ pc[proc[c]] # size[proc[c]]
    /\ time_left[c] # 0
    /\ cpc' = [cpc EXCEPT ![c] = "check"]
    /\ UNCHANGED <<sched, slots, proc, time_left, pc, over, ld, mpc, ran>>

\* No process to run, exit
Stop(c) ==
    /\ cpc[c] = "check"
    /\ proc[c] = NoProc
    /\ done
    /\ cpc' = [cpc EXCEPT ![c] = "detach"]
    /\ UNCHANGED <<sched, slots, proc, time_left, pc, over, ld, mpc, ran>>

\* There may be new processes to run in next time slots
Idle(c) ==
    /\ cpc[c] = "check"
    /\ proc[c] = NoProc
    /\ ~done
    /\ cpc' = [cpc EXCEPT ![c] = "slot"]
    /\ UNCHANGED <<sched, slots, proc, time_left, pc, over, ld, mpc, ran>>

\* Mutant: a dispatched process gets no quantum
BadRun(c) ==
    /\ cpc[c] = "check"
    /\ proc[c] # NoProc
    /\ time_left' = [time_left EXCEPT ![c] = @ - 1]
    /\ IF pc[proc[c]] < size[proc[c]]
       THEN /\ pc' = [pc EXCEPT ![proc[c]] = @ + 1]
            /\ ran' = ran \cup {proc[c]}
       ELSE UNCHANGED <<pc, ran>>
    /\ cpc' = [cpc EXCEPT ![c] = "slot"]
    /\ UNCHANGED <<sched, slots, proc, over, ld, mpc>>

\* run(proc): one instruction, of a full quantum if proc was just dispatched
Run(c) ==
    /\ cpc[c] = "check"
    /\ proc[c] # NoProc
    /\ time_left' = [time_left EXCEPT ![c] = (IF @ = 0 THEN time_slot ELSE @) - 1]
    /\ IF pc[proc[c]] < size[proc[c]]
       THEN /\ pc' = [pc EXCEPT ![proc[c]] = @ + 1]
            /\ ran' = ran \cup {proc[c]}
       ELSE UNCHANGED <<pc, ran>>
    /\ cpc' = [cpc EXCEPT ![c] = "slot"]
    /\ UNCHANGED <<sched, slots, proc, over, ld, mpc>>

\* next_slot is called ...
CpuArrive(c) ==
    /\ cpc[c] = "slot"
    /\ Slots!Arrive(c)
    /\ cpc' = [cpc EXCEPT ![c] = "wait"]
    /\ UNCHANGED <<sched, proc, time_left, pc, over, ld, mpc, ran>>

\* Mutant: next_slot does not wait for the end of the slot
BadCpuReturn(c) ==
    /\ cpc[c] = "wait"
    /\ cpc' = [cpc EXCEPT ![c] = "top"]
    /\ UNCHANGED <<sched, slots, proc, time_left, pc, over, ld, mpc, ran>>

\* ... and returns in the next slot
CpuReturn(c) ==
    /\ cpc[c] = "wait"
    /\ st[c] = "work"
    /\ cpc' = [cpc EXCEPT ![c] = "top"]
    /\ UNCHANGED <<sched, slots, proc, time_left, pc, over, ld, mpc, ran>>

\* detach_event and the end of the thread
CpuDetach(c) ==
    /\ cpc[c] = "detach"
    /\ Slots!Leave(c)
    /\ cpc' = [cpc EXCEPT ![c] = "exit"]
    /\ UNCHANGED <<sched, proc, time_left, pc, over, ld, mpc, ran>>

CpuStep(c) ==
    \/ GetFirst(c) \/ Finish(c) \/ PutBack(c) \/ PutBackMlq(c) \/ GetNext(c)
    \/ Stay(c) \/ Stop(c) \/ Idle(c) \/ Run(c)
    \/ CpuArrive(c) \/ CpuReturn(c) \/ CpuDetach(c)

----------------------------------------------------------------------------
(* ld_routine.                                                             *)

\* load: a pcb with the next pid, at the start of its code.  A program file
\* that cannot be read ends the whole program; the files are right here
LoaderLoad ==
    /\ lpc = "load"
    /\ li <= num_processes
    /\ LET p == ld_processes[li] IN
       /\ pid' = [pid EXCEPT ![p] = avail_pid]
       /\ avail_pid' = avail_pid + 1
       /\ pc' = [pc EXCEPT ![p] = 0]
    /\ lpc' = "until"
    /\ UNCHANGED <<sched, slots, cpu, over, li, done, mpc, ran>>

\* The start time of the next process is still to come: next_slot
LoaderWait ==
    /\ lpc = "until"
    /\ time < start_time[ld_processes[li]]
    /\ Slots!Arrive(Loader)
    /\ lpc' = "uwait"
    /\ UNCHANGED <<sched, cpu, pc, over, li, done, pid, avail_pid, mpc, ran>>

\* The start time has come: first half of add_proc
LoaderAdd ==
    /\ lpc = "until"
    /\ time >= start_time[ld_processes[li]]
    /\ AddRunning(ld_processes[li])
    /\ lpc' = "add"
    /\ UNCHANGED <<slots, cpu, pc, over, li, done, pid, avail_pid, mpc, ran>>

\* Mutant: the loader adds the same process again
BadLoaderAddMlq ==
    /\ lpc = "add"
    /\ EnqueueMlq(ld_processes[li])
    /\ lpc' = "slot"
    /\ UNCHANGED <<slots, cpu, pc, over, li, done, pid, avail_pid, mpc, ran>>

\* Second half of add_proc
LoaderAddMlq ==
    /\ lpc = "add"
    /\ EnqueueMlq(ld_processes[li])
    /\ li' = li + 1
    /\ lpc' = "slot"
    /\ UNCHANGED <<slots, cpu, pc, over, done, pid, avail_pid, mpc, ran>>

\* next_slot after each process
LoaderArrive ==
    /\ lpc = "slot"
    /\ Slots!Arrive(Loader)
    /\ lpc' = "wait"
    /\ UNCHANGED <<sched, cpu, pc, over, li, done, pid, avail_pid, mpc, ran>>

\* It returns to the test of the start time, or to the head of the loop
LoaderReturn ==
    /\ lpc \in {"uwait", "wait"}
    /\ st[Loader] = "work"
    /\ lpc' = IF lpc = "uwait" THEN "until" ELSE "load"
    /\ UNCHANGED <<sched, slots, cpu, pc, over, li, done, pid, avail_pid, mpc, ran>>

\* Mutant: the loader stops one process too early
BadSetDone ==
    /\ lpc = "load"
    /\ li >= num_processes
    /\ done' = TRUE
    /\ lpc' = "quit"
    /\ UNCHANGED <<sched, slots, cpu, pc, over, li, pid, avail_pid, mpc, ran>>

\* All processes are loaded
SetDone ==
    /\ lpc = "load"
    /\ li > num_processes
    /\ done' = TRUE
    /\ lpc' = "quit"
    /\ UNCHANGED <<sched, slots, cpu, pc, over, li, pid, avail_pid, mpc, ran>>

LoaderDetach ==
    /\ lpc = "quit"
    /\ Slots!Leave(Loader)
    /\ lpc' = "exit"
    /\ UNCHANGED <<sched, cpu, pc, over, li, done, pid, avail_pid, mpc, ran>>

LoaderStep ==
    \/ LoaderLoad \/ LoaderWait \/ LoaderAdd \/ LoaderAddMlq \/ LoaderArrive \/ LoaderReturn
    \/ SetDone \/ LoaderDetach

----------------------------------------------------------------------------
\* The slot ends.  The clock is only ever compared with start times, so it
\* may stop at Horizon, which none of them exceeds
Tick ==
    /\ Slots!Release
    /\ time' = IF time < Horizon THEN time + 1 ELSE time
    /\ ran' = {}
    /\ UNCHANGED <<sched, cpu, pc, over, ld, mpc>>

\* main creates the loader thread first ...
SpawnLoader ==
    /\ mpc = "spawn"
    /\ lpc = "new"
    /\ lpc' = "load"
    /\ UNCHANGED <<sched, slots, cpu, pc, over, li, done, pid, avail_pid, mpc, ran>>

\* ... then the CPU threads, one by one; the timer runs already
SpawnCpu ==
    /\ mpc = "spawn"
    /\ lpc # "new"
    /\ \E c \in CPU :
          /\ cpc[c] = "new"
          /\ cpc' = [cpc EXCEPT ![c] = "top"]
    /\ mpc' = IF \A c \in CPU : cpc'[c] # "new" THEN "join" ELSE mpc
    /\ UNCHANGED <<sched, slots, proc, time_left, pc, over, ld, ran>>

\* main has joined all CPUs and the loader, and stops the timer
Join ==
    /\ mpc = "join"
    /\ \A c \in CPU : cpc[c] = "exit"
    /\ lpc = "exit"
    /\ mpc' = "end"
    /\ UNCHANGED <<sched, slots, cpu, pc, over, ld, ran>>

MainStep == SpawnLoader \/ SpawnCpu \/ Join

Next ==
    \/ \E c \in CPU : CpuStep(c)
    \/ LoaderStep
    \/ Tick
    \/ MainStep

Spec == Init /\ [][Next]_vars

\* All threads run; slots end, as Timer.tla shows of the timer thread
Fairness ==
    /\ \A c \in CPU : WF_vars(CpuStep(c))
    /\ WF_vars(LoaderStep)
    /\ WF_vars(Tick)
    /\ WF_vars(MainStep)

FairSpec == Spec /\ Fairness

----------------------------------------------------------------------------
(* Properties.                                                             *)

TypeOK ==
    /\ SchedTypeOK
    /\ Slots!BTypeOK
    /\ time <= Horizon
    /\ cpc \in [CPU -> CpuPC]
    /\ proc \in [CPU -> Proc \cup {NoProc}]
    /\ time_left \in [CPU -> 0 .. time_slot]
    /\ avail_pid \in 1 .. num_processes + 1
    /\ pid \in [Proc -> 0 .. num_processes]
    /\ pc \in [Proc -> Nat]
    /\ \A p \in Proc : pc[p] <= size[p]
    /\ over \in SUBSET Proc
    /\ lpc \in LoaderPC
    /\ li \in 1 .. num_processes + 1
    /\ done \in BOOLEAN
    /\ mpc \in {"spawn", "join", "end"}
    /\ ran \in SUBSET Proc

\* The CPUs and the loader use the scheduler as SchedClient describes, so
\* what holds of its callers holds of them: no process on two CPUs, in two
\* places of the queues or, while the queues have room, nowhere
Clients == INSTANCE SchedClient WITH
    Caller  <- CPU,
    hand    <- proc,
    putting <- {c \in CPU : cpc[c] = "put"},
    fresh   <- {ld_processes[k] :
                    k \in {k \in 1 .. num_processes :
                             k > li \/ (k = li /\ lpc # "add")}},
    adding  <- IF lpc = "add" THEN ld_processes[li] ELSE NoProc

UsesScheduler == Clients!CSpec

\* A process executes at most one instruction per time slot, whichever CPUs
\* it wanders between
OneInstructionPerSlot ==
    [][\A p \in Proc : pc'[p] # pc[p] => p \notin ran]_vars

\* A process that was just dispatched finds no remainder of an earlier
\* quantum, so "time_left = time_slot" is executed for it
FreshQuantum ==
    \A c \in CPU : cpc[c] \in {"get", "put"} \/ proc[c] = NoProc => time_left[c] = 0

\* When all CPUs have stopped, no process was left behind
StoppedMeansFinished ==
    (\A c \in CPU : cpc[c] = "exit") => over = Proc

\* What it takes for that.  The k-th quantum of a process begins when it has
\* executed k * time_slot instructions, and even an empty process has one: a
\* round must have a slot for each quantum of the processes of a priority ...
Quanta(i) ==
    {w \in UNION {{p} \X (0 .. size[p]) : p \in Proc} :
        /\ prio[w[1]] = i
        /\ w[2] = 0 \/ w[2] * time_slot < size[w[1]]}

EnoughSlots == \A i \in Prio : Cardinality(Quanta(i)) <= Share(i)

\* ... and a queue room for all processes
QueueRoom == Cardinality(Proc) <= MAX_QUEUE_SIZE

\* Every process gets to its end
EveryProcessFinishes == <>(over = Proc)

\* The program ends
Termination == <>(mpc = "end")
=============================================================================
