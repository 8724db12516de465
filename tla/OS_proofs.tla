------------------------------ MODULE OS_proofs ------------------------------
(***************************************************************************)
(* Proofs about OS.tla: the CPU threads and the loader use the scheduler   *)
(* as SchedClient describes, so what is proved of its callers holds of     *)
(* them; from it, that no process executes twice in a time slot.           *)
(***************************************************************************)
EXTENDS OS, TLAPS

\* The instance of SchedClient in OS.tla, with its theorems
Proved == INSTANCE SchedClient_proofs WITH
    Caller  <- CPU,
    hand    <- proc,
    putting <- {c \in CPU : cpc[c] = "put"},
    fresh   <- {ld_processes[k] :
                    k \in {k \in 1 .. num_processes :
                             k > li \/ (k = li /\ lpc # "add")}},
    adding  <- IF lpc = "add" THEN ld_processes[li] ELSE NoProc

----------------------------------------------------------------------------
(* What the threads keep true by themselves.                               *)

\* The loader has loaded process li
Loaded == lpc \in {"until", "uwait", "add"}

\* TypeOK without the scheduler
LocalTypes ==
    /\ Slots!BTypeOK
    /\ time <= Horizon
    /\ cpc \in [CPU -> CpuPC]
    /\ proc \in [CPU -> Proc \cup {NoProc}]
    /\ time_left \in [CPU -> 0 .. time_slot]
    /\ avail_pid \in 1 .. num_processes + 1
    /\ pid \in [Proc -> 0 .. num_processes]
    /\ pc \in [Proc -> Nat]
    /\ \A p \in Proc : pc[p] <= size[p]
    /\ over \in SUBSET Proc
    /\ lpc \in LoaderPC
    /\ li \in 1 .. num_processes + 1
    /\ done \in BOOLEAN
    /\ mpc \in {"spawn", "join", "end"}
    /\ ran \in SUBSET Proc

\* The loader has a process in hand only if one is left, and gave out one
\* pid for each process it has loaded
LoaderInv ==
    /\ Loaded => li <= num_processes
    /\ avail_pid = IF Loaded THEN li + 1 ELSE li

\* Between giving up one process and taking the next a CPU has none, and in
\* the middle of put_proc it has one
HandInv == \A c \in CPU :
    /\ cpc[c] = "get" => proc[c] = NoProc
    /\ cpc[c] = "put" => proc[c] # NoProc

\* What the threads keep true whatever the scheduler hands out
LocalInv == LocalTypes /\ LoaderInv /\ HandInv /\ FreshQuantum

\* The process the loader is at
LEMMA LoadedProcess ==
    ASSUME NEW i \in 1 .. num_processes
    PROVE  ld_processes[i] \in Proc
  BY OSAssumption DEF num_processes

\* The threads start like that
LEMMA LocalInit == Init => LocalInv
<1> SUFFICES ASSUME Init PROVE LocalInv  OBVIOUS
<1>1. num_processes \in Nat  BY OSAssumption DEF num_processes
<1>2. LocalTypes
  <2>1. Slots!BTypeOK /\ time <= Horizon
    BY OSAssumption DEF Init, Slots!BInit, Slots!BTypeOK, Slots!Status
  <2>2. 0 \in 0 .. time_slot /\ 0 \in 0 .. num_processes /\ 1 \in 1 .. num_processes + 1
    BY <1>1, OSAssumption
  <2>3. \A p \in Proc : 0 <= size[p]  BY OSAssumption
  <2> QED  BY <2>1, <2>2, <2>3 DEF Init, LocalTypes, CpuPC, LoaderPC
<1>3. LoaderInv /\ HandInv /\ FreshQuantum
  BY DEF Init, LoaderInv, Loaded, HandInv, FreshQuantum
<1> QED  BY <1>2, <1>3 DEF LocalInv

\* Every step of a CPU keeps it
LEMMA LocalCpu ==
    ASSUME LocalInv, NEW c \in CPU, CpuStep(c)
    PROVE  LocalInv'
<1> USE OSAssumption DEF LocalInv, LocalTypes, LoaderInv, Loaded, HandInv,
     FreshQuantum, Slots!BTypeOK, Slots!Status, CpuPC, LoaderPC, slots, cpu, ld
<1>1. CASE GetFirst(c)
  BY <1>1 DEF GetFirst
<1>2. CASE Finish(c)
  BY <1>2 DEF Finish
<1>3. CASE PutBack(c)
  BY <1>3 DEF PutBack
<1>4. CASE PutBackMlq(c)
  BY <1>4 DEF PutBackMlq
<1>5. CASE GetNext(c)
  BY <1>5 DEF GetNext
<1>6. CASE Stay(c)
  BY <1>6 DEF Stay
<1>7. CASE Stop(c)
  BY <1>7 DEF Stop
<1>8. CASE Idle(c)
  BY <1>8 DEF Idle
<1>9. CASE Run(c)
  <2> DEFINE p == proc[c]
  <2>1. p \in Proc /\ pc[p] \in Nat /\ size[p] \in Nat  BY <1>9 DEF Run
  <2>2. /\ pc' \in [Proc -> Nat]
        /\ \A r \in Proc : pc'[r] <= size[r]
        /\ ran' \in SUBSET Proc
    <3>1. CASE pc[p] < size[p]
      <4>1. pc' = [pc EXCEPT ![p] = pc[p] + 1] /\ ran' = ran \cup {p}
        BY <1>9, <3>1 DEF Run
      <4> HIDE DEF p
      <4> QED  BY <2>1, <3>1, <4>1
    <3>2. CASE ~(pc[p] < size[p])
      BY <1>9, <3>2 DEF Run
    <3> QED  BY <3>1, <3>2
  <2>3. time_left' \in [CPU -> 0 .. time_slot]  BY <1>9 DEF Run
  <2>4. FreshQuantum'  BY <1>9, <2>1 DEF Run
  <2> QED  BY <1>9, <2>2, <2>3, <2>4 DEF Run
<1>10. CASE CpuArrive(c)
  BY <1>10 DEF CpuArrive, Slots!Arrive, Device
<1>11. CASE CpuReturn(c)
  BY <1>11 DEF CpuReturn
<1>12. CASE CpuDetach(c)
  BY <1>12 DEF CpuDetach, Slots!Leave, Device
<1> QED  BY <1>1, <1>2, <1>3, <1>4, <1>5, <1>6, <1>7, <1>8, <1>9, <1>10, <1>11,
          <1>12 DEF CpuStep

\* Every step of the loader keeps it
LEMMA LocalLoader ==
    ASSUME LocalInv, LoaderStep
    PROVE  LocalInv'
<1> USE OSAssumption DEF LocalInv, LocalTypes, LoaderInv, Loaded, HandInv,
     FreshQuantum, Slots!BTypeOK, Slots!Status, CpuPC, LoaderPC, slots, cpu, ld
<1> num_processes \in Nat  BY DEF num_processes
<1>1. CASE LoaderLoad
  <2> DEFINE p == ld_processes[li]
  <2>1. li \in 1 .. num_processes /\ p \in Proc  BY <1>1, LoadedProcess DEF LoaderLoad
  <2>2. size[p] \in Nat  BY <2>1
  <2>3. pid' \in [Proc -> 0 .. num_processes]  BY <1>1, <2>1 DEF LoaderLoad
  <2>4. pc' \in [Proc -> Nat] /\ \A r \in Proc : pc'[r] <= size[r]
    BY <1>1, <2>1, <2>2 DEF LoaderLoad
  <2>5. LoaderInv' /\ avail_pid' \in 1 .. num_processes + 1
    BY <1>1, <2>1 DEF LoaderLoad
  <2> QED  BY <1>1, <2>3, <2>4, <2>5 DEF LoaderLoad
<1>2. CASE LoaderWait
  BY <1>2 DEF LoaderWait, Slots!Arrive, Device
<1>3. CASE LoaderAdd
  BY <1>3 DEF LoaderAdd
<1>4. CASE LoaderAddMlq
  BY <1>4 DEF LoaderAddMlq
<1>5. CASE LoaderArrive
  BY <1>5 DEF LoaderArrive, Slots!Arrive, Device
<1>6. CASE LoaderReturn
  BY <1>6 DEF LoaderReturn
<1>7. CASE SetDone
  BY <1>7 DEF SetDone
<1>8. CASE LoaderDetach
  BY <1>8 DEF LoaderDetach, Slots!Leave, Device
<1> QED  BY <1>1, <1>2, <1>3, <1>4, <1>5, <1>6, <1>7, <1>8 DEF LoaderStep

\* So do the end of a slot and main, and what changes nothing
LEMMA LocalRest ==
    ASSUME LocalInv, Tick \/ MainStep \/ UNCHANGED vars
    PROVE  LocalInv'
<1> USE OSAssumption DEF LocalInv, LocalTypes, LoaderInv, Loaded, HandInv,
     FreshQuantum, Slots!BTypeOK, Slots!Status, CpuPC, LoaderPC, slots, cpu, ld
<1>1. CASE Tick
  BY <1>1 DEF Tick, Slots!Release
<1>2. CASE SpawnLoader
  BY <1>2 DEF SpawnLoader
<1>3. CASE SpawnCpu
  BY <1>3 DEF SpawnCpu
<1>4. CASE Join
  BY <1>4 DEF Join
<1>5. CASE UNCHANGED vars
  BY <1>5 DEF vars
<1> QED  BY <1>1, <1>2, <1>3, <1>4, <1>5 DEF MainStep

\* So every step does
LEMMA LocalStep == LocalInv /\ [Next]_vars => LocalInv'
  BY LocalCpu, LocalLoader, LocalRest DEF Next

----------------------------------------------------------------------------
(* The use of the scheduler.                                               *)

\* get_mlq_proc of SchedClient is get_mlq_proc of OS
LEMMA SameGetProc ==
    ASSUME NEW res
    PROVE  Clients!GetProc(res) <=> GetProc(res)
  BY Zenon DEF Clients!GetProc, GetProc, Clients!QueuesEmpty, QueuesEmpty,
     Clients!Servable, Servable, Clients!empty, empty, Clients!dequeued, dequeued,
     Clients!remaining, remaining, Clients!Highest, Highest, Clients!RemoveAt,
     RemoveAt, Clients!Prio, Prio, Clients!Share, Share, Clients!sched, sched

\* So are the critical sections of put_proc and add_proc, and the start
LEMMA SameQueueing ==
    /\ Clients!SchedInit <=> SchedInit
    /\ \A p \in Proc :
          /\ Clients!PutReady(p) <=> PutReady(p)
          /\ Clients!AddRunning(p) <=> AddRunning(p)
          /\ Clients!EnqueueMlq(p) <=> EnqueueMlq(p)
<1>1. Clients!SchedInit <=> SchedInit
  BY DEF Clients!SchedInit, SchedInit, Clients!Prio, Prio, Clients!Share, Share
<1>2. ASSUME NEW p \in Proc
      PROVE  /\ Clients!PutReady(p) <=> PutReady(p)
             /\ Clients!AddRunning(p) <=> AddRunning(p)
             /\ Clients!EnqueueMlq(p) <=> EnqueueMlq(p)
  BY DEF Clients!PutReady, PutReady, Clients!AddRunning, AddRunning,
     Clients!EnqueueMlq, EnqueueMlq, Clients!enqueue, enqueue
<1> QED  BY <1>1, <1>2

\* At the start no process has been added and no CPU has one
LEMMA UsesInit == Init => Clients!CInit
<1> SUFFICES ASSUME Init PROVE Clients!CInit  OBVIOUS
<1> DEFINE K == {k \in 1 .. num_processes : k > li \/ (k = li /\ lpc # "add")}
<1>1. K = 1 .. num_processes
  BY OSAssumption DEF Init, num_processes
<1>2. {ld_processes[k] : k \in 1 .. num_processes} = Proc
  BY OSAssumption DEF Range, num_processes
<1>3. {ld_processes[k] : k \in K} = Proc  BY <1>1, <1>2
<1> QED  BY <1>3, SameQueueing DEF Init, Clients!CInit

\* A step of a CPU is a call of get_proc, half of one of put_proc or the end
\* of a process, or SchedClient sees nothing of it
LEMMA UsesCpu ==
    ASSUME LocalInv, NEW c \in CPU, CpuStep(c)
    PROVE  Clients!CallerStep(c) \/ UNCHANGED Clients!cvars
<1> USE DEF LocalInv, LocalTypes, HandInv, slots, cpu, ld, sched, Clients!sched, CpuPC
<1>1. CASE GetFirst(c)
  <2>1. PICK res \in Proc \cup {NoProc} :
           GetProc(res) /\ proc' = [proc EXCEPT ![c] = res]
    BY <1>1 DEF GetFirst
  <2>2. Clients!Get(c)
    BY <1>1, <2>1, SameGetProc DEF GetFirst, Clients!Get
  <2> QED  BY <2>2 DEF Clients!CallerStep
<1>2. CASE Finish(c)
  <2>1. Clients!Discard(c)
    BY <1>2 DEF Finish, Clients!Discard
  <2> QED  BY <2>1 DEF Clients!CallerStep
<1>3. CASE PutBack(c)
  <2>1. Clients!PutFirst(c)
    BY <1>3, SameQueueing DEF PutBack, Clients!PutFirst
  <2> QED  BY <2>1 DEF Clients!CallerStep
<1>4. CASE PutBackMlq(c)
  <2>1. Clients!PutSecond(c)
    BY <1>4, SameQueueing DEF PutBackMlq, Clients!PutSecond
  <2> QED  BY <2>1 DEF Clients!CallerStep
<1>5. CASE GetNext(c)
  <2>1. PICK res \in Proc \cup {NoProc} :
           GetProc(res) /\ proc' = [proc EXCEPT ![c] = res]
    BY <1>5 DEF GetNext
  <2>2. Clients!Get(c)
    BY <1>5, <2>1, SameGetProc DEF GetNext, Clients!Get
  <2> QED  BY <2>2 DEF Clients!CallerStep
<1>6. CASE Stay(c)
  BY <1>6 DEF Stay, Clients!cvars
<1>7. CASE Stop(c)
  BY <1>7 DEF Stop, Clients!cvars
<1>8. CASE Idle(c)
  BY <1>8 DEF Idle, Clients!cvars
<1>9. CASE Run(c)
  BY <1>9 DEF Run, Clients!cvars
<1>10. CASE CpuArrive(c)
  BY <1>10 DEF CpuArrive, Clients!cvars
<1>11. CASE CpuReturn(c)
  BY <1>11 DEF CpuReturn, Clients!cvars
<1>12. CASE CpuDetach(c)
  BY <1>12 DEF CpuDetach, Clients!cvars
<1> QED  BY <1>1, <1>2, <1>3, <1>4, <1>5, <1>6, <1>7, <1>8, <1>9, <1>10, <1>11,
          <1>12 DEF CpuStep

\* The loader is the one that calls add_proc
LEMMA UsesLoader ==
    ASSUME LocalInv, LoaderStep
    PROVE  \/ \E p \in Proc : Clients!AddFirst(p)
           \/ Clients!AddSecond
           \/ UNCHANGED Clients!cvars
<1> USE DEF LocalInv, LocalTypes, LoaderInv, Loaded, slots, cpu, ld, sched, Clients!sched
<1>0. num_processes \in Nat  BY OSAssumption DEF num_processes
<1>1. CASE LoaderAdd
  <2>0. li \in 1 .. num_processes  BY <1>1 DEF LoaderAdd
  <2>1. PICK p \in Proc : p = ld_processes[li]  BY <2>0, LoadedProcess
  <2>2. \A k \in 1 .. num_processes : ld_processes[k] = p => k = li
    <3>1. DOMAIN ld_processes = 1 .. num_processes
      BY OSAssumption DEF num_processes
    <3> QED  BY <2>0, <2>1, <3>1, OSAssumption DEF IsInjective
  <2>3. p \in {ld_processes[k] : k \in {k \in 1 .. num_processes :
                                             k > li \/ (k = li /\ lpc # "add")}}
    BY <1>1, <2>0, <2>1 DEF LoaderAdd
  <2>4. {ld_processes[k] : k \in {k \in 1 .. num_processes :
                                      k > li' \/ (k = li' /\ lpc' # "add")}}
          = {ld_processes[k] : k \in {k \in 1 .. num_processes :
                                          k > li \/ (k = li /\ lpc # "add")}} \ {p}
    BY <1>1, <2>0, <2>1, <2>2 DEF LoaderAdd
  <2>5. Clients!AddRunning(p)
    BY <1>1, <2>1, SameQueueing DEF LoaderAdd
  <2>6. /\ lpc # "add" /\ lpc' = "add" /\ li' = li
        /\ UNCHANGED <<proc, cpc, over>>
    BY <1>1 DEF LoaderAdd
  <2>7. /\ (IF lpc = "add" THEN ld_processes[li] ELSE NoProc) = NoProc
        /\ (IF lpc' = "add" THEN ld_processes[li'] ELSE NoProc) = p
        /\ {d \in CPU : cpc'[d] = "put"} = {d \in CPU : cpc[d] = "put"}
    BY <2>1, <2>6
  <2>8. Clients!AddFirst(p)
    BY <2>3, <2>4, <2>5, <2>6, <2>7, Zenon DEF Clients!AddFirst
  <2> QED  BY <2>8
<1>2. CASE LoaderAddMlq
  <2> DEFINE p == ld_processes[li]
  <2>1. li \in 1 .. num_processes /\ p \in Proc /\ p # NoProc
    BY <1>2, LoadedProcess, SchedAssumption DEF LoaderAddMlq
  <2>2. {k \in 1 .. num_processes : k > li' \/ (k = li' /\ lpc' # "add")}
          = {k \in 1 .. num_processes : k > li \/ (k = li /\ lpc # "add")}
    BY <1>0, <1>2, <2>1 DEF LoaderAddMlq
  <2>3. Clients!AddSecond
    BY <1>2, <2>1, <2>2, SameQueueing DEF LoaderAddMlq, Clients!AddSecond
  <2> QED  BY <2>3
<1>3. CASE LoaderLoad
  BY <1>3 DEF LoaderLoad, Clients!cvars
<1>4. CASE LoaderWait
  BY <1>4 DEF LoaderWait, Clients!cvars
<1>5. CASE LoaderArrive
  BY <1>5 DEF LoaderArrive, Clients!cvars
<1>6. CASE LoaderReturn
  BY <1>6 DEF LoaderReturn, Clients!cvars
<1>7. CASE SetDone
  BY <1>7 DEF SetDone, Clients!cvars
<1>8. CASE LoaderDetach
  BY <1>8 DEF LoaderDetach, Clients!cvars
<1> QED  BY <1>1, <1>2, <1>3, <1>4, <1>5, <1>6, <1>7, <1>8 DEF LoaderStep

\* The others leave the scheduler alone
LEMMA UsesRest ==
    ASSUME LocalInv, Tick \/ MainStep \/ UNCHANGED vars
    PROVE  UNCHANGED Clients!cvars
<1> USE DEF LocalInv, LocalTypes, slots, cpu, ld, sched, Clients!sched, Clients!cvars
<1>1. CASE Tick
  BY <1>1 DEF Tick
<1>2. CASE SpawnLoader
  BY <1>2 DEF SpawnLoader
<1>3. CASE SpawnCpu
  BY <1>3 DEF SpawnCpu, CpuPC
<1>4. CASE Join
  BY <1>4 DEF Join
<1>5. CASE UNCHANGED vars
  BY <1>5 DEF vars
<1> QED  BY <1>1, <1>2, <1>3, <1>4, <1>5 DEF MainStep

\* So every step is one of SchedClient, or none
LEMMA UsesStep ==
    LocalInv /\ [Next]_vars => [Clients!CNext]_(Clients!cvars)
  BY UsesCpu, UsesLoader, UsesRest DEF Next, Clients!CNext

\* The local invariant holds: FreshQuantum with it
THEOREM LocalInvariance == Spec => []LocalInv
  BY LocalInit, LocalStep, PTL DEF Spec

\* A process that was just dispatched finds no remainder of an earlier quantum
THEOREM DispatchedFresh == Spec => []FreshQuantum
  BY LocalInvariance, PTL DEF LocalInv

\* The CPUs and the loader use the scheduler as SchedClient describes
THEOREM ImplementsClients == Spec => UsesScheduler
  BY LocalInvariance, UsesInit, UsesStep, PTL DEF Spec, UsesScheduler, Clients!CSpec

----------------------------------------------------------------------------
(* What is proved of the callers of the scheduler.                         *)

\* The two instances of SchedClient are one
LEMMA SameClients ==
    /\ Clients!CInit <=> Proved!CInit
    /\ [Clients!CNext]_(Clients!cvars) <=> [Proved!CNext]_(Proved!cvars)
<1>1. Clients!CInit <=> Proved!CInit
  BY Zenon DEF Clients!CInit, Proved!CInit, Clients!SchedInit, Proved!SchedInit,
     Clients!Prio, Proved!Prio, Clients!Share, Proved!Share
<1>2. Clients!cvars = Proved!cvars /\ (Clients!cvars)' = (Proved!cvars)'
  BY DEF Clients!cvars, Proved!cvars, Clients!sched, Proved!sched
<1>3. Clients!CNext <=> Proved!CNext
  BY Zenon DEF Clients!CNext, Proved!CNext, Clients!CallerStep, Proved!CallerStep,
     Clients!Get, Proved!Get, Clients!Discard, Proved!Discard,
     Clients!PutFirst, Proved!PutFirst, Clients!PutSecond,
     Proved!PutSecond, Clients!AddFirst, Proved!AddFirst,
     Clients!AddSecond, Proved!AddSecond, Clients!GetProc, Proved!GetProc,
     Clients!PutReady, Proved!PutReady, Clients!AddRunning,
     Proved!AddRunning, Clients!EnqueueMlq, Proved!EnqueueMlq,
     Clients!enqueue, Proved!enqueue, Clients!QueuesEmpty,
     Proved!QueuesEmpty, Clients!Servable, Proved!Servable, Clients!empty,
     Proved!empty, Clients!dequeued, Proved!dequeued, Clients!remaining,
     Proved!remaining, Clients!Highest, Proved!Highest, Clients!RemoveAt,
     Proved!RemoveAt, Clients!Prio, Proved!Prio, Clients!Share,
     Proved!Share, Clients!sched, Proved!sched
<1> QED  BY <1>1, <1>2, <1>3

\* The invariant of the callers holds of the CPUs and the loader
THEOREM ClientsHold == Spec => []Proved!CInv
<1>1. Proved!SchedAssumption
  BY SchedAssumption DEF Proved!SchedAssumption, Proved!Prio, Prio
<1>2. Spec => Clients!CSpec
  BY ImplementsClients DEF UsesScheduler
<1>3. Clients!CSpec => Proved!CSpec
  BY SameClients, PTL DEF Clients!CSpec, Proved!CSpec
<1>4. Proved!CSpec => []Proved!CInv
  BY <1>1, Proved!ClientInvariance
<1> QED  BY <1>2, <1>3, <1>4, PTL

\* So do the theorems about them: two CPUs never hold one process, each is
\* served in its turn, and none waits longer than Wait says
THEOREM ClientsProperties ==
    Spec => []Proved!Exclusive /\ Proved!FifoWithinPriority /\ Proved!BoundedWait
<1>1. Proved!SchedAssumption
  BY SchedAssumption DEF Proved!SchedAssumption, Proved!Prio, Prio
<1>2. Spec => Clients!CSpec
  BY ImplementsClients DEF UsesScheduler
<1>3. Clients!CSpec => Proved!CSpec
  BY SameClients, PTL DEF Clients!CSpec, Proved!CSpec
<1>4. Proved!CSpec => []Proved!Exclusive
  BY <1>1, Proved!ExclusiveOwnership
<1>5. Proved!CSpec => Proved!FifoWithinPriority
  BY <1>1, Proved!RoundRobin
<1>6. Proved!CSpec => Proved!BoundedWait
  BY <1>1, Proved!BoundedWaiting
<1> QED  BY <1>2, <1>3, <1>4, <1>5, <1>6

\* The types of OS are right: no CPU runs past the end of its process, and no
\* quantum exceeds time_slot
THEOREM OSTypeCorrect == Spec => []TypeOK
<1>1. Proved!CInv => SchedTypeOK
  BY DEF Proved!CInv, Proved!CTypeOK, Proved!SchedTypeOK, SchedTypeOK,
     Proved!Prio, Prio, Proved!Share, Share, Proved!Range, Range
<1>2. LocalInv /\ SchedTypeOK => TypeOK
  BY DEF LocalInv, LocalTypes, TypeOK
<1> QED  BY <1>1, <1>2, LocalInvariance, ClientsHold, PTL

----------------------------------------------------------------------------
(* One instruction per slot.                                               *)

\* CPU c has executed its instruction and waits for the end of the slot
Spent(c) ==
    \/ cpc[c] = "slot"
    \/ cpc[c] = "wait" /\ st[c] # "work"

\* Whoever executed in this slot is still in the hand of the CPU that did it
RanInv == \A p \in ran : \E c \in CPU : proc[c] = p /\ Spent(c)

\* No step of a CPU takes the process out of that hand
LEMMA RanCpu ==
    ASSUME LocalInv, RanInv, NEW c \in CPU, CpuStep(c)
    PROVE  RanInv'
<1> USE DEF LocalInv, LocalTypes, HandInv, Slots!BTypeOK, CpuPC, Spent, slots, Device
<1> SUFFICES ASSUME NEW p \in ran'
             PROVE  \E d \in CPU : proc'[d] = p /\ Spent(d)'
  BY DEF RanInv
<1>1. CASE Run(c)
  <2>1. CASE p \in ran
    <3>1. PICK d \in CPU : proc[d] = p /\ Spent(d)  BY <2>1 DEF RanInv
    <3> QED  BY <1>1, <3>1 DEF Run
  <2>2. CASE p \notin ran
    <3>1. p = proc[c] /\ proc' = proc /\ cpc'[c] = "slot"  BY <1>1, <2>2 DEF Run
    <3>2. proc'[c] = p /\ Spent(c)'  BY <3>1
    <3> QED  BY <3>2
  <2> QED  BY <2>1, <2>2
<1>2. CASE CpuArrive(c)
  <2>1. p \in ran  BY <1>2 DEF CpuArrive
  <2>2. PICK d \in CPU : proc[d] = p /\ Spent(d)  BY <2>1 DEF RanInv
  <2> QED  BY <1>2, <2>2 DEF CpuArrive, Slots!Arrive
<1>3. ASSUME ~Run(c), ~CpuArrive(c) PROVE \E d \in CPU : proc'[d] = p /\ Spent(d)'
  <2>1. ran' = ran
    BY <1>3 DEF CpuStep, GetFirst, Finish, PutBack, PutBackMlq, GetNext, Stay,
       Stop, Idle, CpuReturn, CpuDetach
  <2>2. PICK d \in CPU : proc[d] = p /\ Spent(d)  BY <2>1 DEF RanInv
  <2>3. ~Spent(c)
    BY <1>3 DEF CpuStep, GetFirst, Finish, PutBack, PutBackMlq, GetNext, Stay,
       Stop, Idle, CpuReturn, CpuDetach
  <2>4. proc'[d] = proc[d] /\ cpc'[d] = cpc[d] /\ st'[d] = st[d]
    <3>1. c # d  BY <2>2, <2>3
    <3> QED
      BY <1>3, <3>1 DEF CpuStep, GetFirst, Finish, PutBack, PutBackMlq, GetNext,
         Stay, Stop, Idle, CpuReturn, CpuDetach, Slots!Leave
  <2> QED  BY <2>2, <2>4
<1> QED  BY <1>1, <1>2, <1>3

\* The loader and main do not touch it either, and the next slot starts anew
LEMMA RanRest ==
    ASSUME LocalInv, RanInv, LoaderStep \/ Tick \/ MainStep \/ UNCHANGED vars
    PROVE  RanInv'
<1> USE DEF LocalInv, LocalTypes, Slots!BTypeOK, CpuPC, slots, cpu, Device
<1>1. CASE Tick
  BY <1>1 DEF Tick, RanInv
<1>2. CASE LoaderStep \/ SpawnLoader \/ SpawnCpu \/ Join \/ UNCHANGED vars
  <2>1. ran' = ran /\ proc' = proc
    BY <1>2 DEF LoaderStep, LoaderLoad, LoaderWait, LoaderAdd, LoaderAddMlq,
       LoaderArrive, LoaderReturn, SetDone, LoaderDetach, SpawnLoader, SpawnCpu,
       Join, vars
  <2>2. \A c \in CPU : st'[c] = st[c]
    BY <1>2, OSAssumption DEF LoaderStep, LoaderLoad, LoaderWait, LoaderAdd,
       LoaderAddMlq, LoaderArrive, LoaderReturn, SetDone, LoaderDetach,
       SpawnLoader, SpawnCpu, Join, vars, Slots!Arrive, Slots!Leave
  <2>3. \A c \in CPU : cpc[c] # "new" => cpc'[c] = cpc[c]
    BY <1>2 DEF LoaderStep, LoaderLoad, LoaderWait, LoaderAdd, LoaderAddMlq,
       LoaderArrive, LoaderReturn, SetDone, LoaderDetach, SpawnLoader, SpawnCpu,
       Join, vars
  <2> QED  BY <2>1, <2>2, <2>3 DEF RanInv, Spent
<1> QED  BY <1>1, <1>2 DEF MainStep

\* A step that moves the pc of p does so for the first time in this slot: a
\* CPU that runs p holds it, so no other does, and p is not in the hand of
\* one that is through with the slot; and what the loader loads nobody holds
LEMMA OncePerSlot ==
    ASSUME LocalInv, Proved!CInv, RanInv, Next, NEW p \in Proc, pc'[p] # pc[p]
    PROVE  p \notin ran
<1> USE DEF LocalInv, LocalTypes, cpu, ld
<1>1. (\E c \in CPU : Run(c)) \/ LoaderLoad
  <2>1. ASSUME NEW c \in CPU, CpuStep(c) PROVE Run(c)
    BY <2>1 DEF CpuStep, GetFirst, Finish, PutBack, PutBackMlq, GetNext, Stay,
       Stop, Idle, CpuArrive, CpuReturn, CpuDetach
  <2>2. LoaderStep => LoaderLoad
    BY DEF LoaderStep, LoaderWait, LoaderAdd, LoaderAddMlq, LoaderArrive,
       LoaderReturn, SetDone, LoaderDetach
  <2>3. ~Tick /\ ~MainStep
    BY DEF Tick, MainStep, SpawnLoader, SpawnCpu, Join
  <2> QED  BY <2>1, <2>2, <2>3 DEF Next
<1>2. ASSUME NEW c \in CPU, Run(c) PROVE p \notin ran
  <2>1. proc[c] = p /\ cpc[c] = "check"  BY <1>2 DEF Run
  <2>2. \A d \in CPU : proc[d] = p => c = d
    BY <2>1 DEF Proved!CInv, Proved!PlaceInv
  <2> QED  BY <2>1, <2>2 DEF RanInv, Spent
<1>3. CASE LoaderLoad
  <2>1. p = ld_processes[li] /\ lpc = "load" /\ li \in 1 .. num_processes
    BY <1>3 DEF LoaderLoad
  <2>2. p \in {ld_processes[k] : k \in {k \in 1 .. num_processes :
                                             k > li \/ (k = li /\ lpc # "add")}}
    BY <2>1
  <2>3. \A d \in CPU : proc[d] # p
    BY <2>2 DEF Proved!CInv, Proved!PlaceInv
  <2> QED  BY <2>3 DEF RanInv
<1> QED  BY <1>1, <1>2, <1>3

\* A process executes at most one instruction per time slot, however many
\* CPUs there are
THEOREM OneInstruction == Spec => OneInstructionPerSlot
<1>1. Init => RanInv  BY DEF Init, RanInv
<1>2. LocalInv /\ RanInv /\ [Next]_vars => RanInv'
  BY RanCpu, RanRest DEF Next
<1>3. LocalInv /\ Proved!CInv /\ RanInv /\ [Next]_vars
        => [\A p \in Proc : pc'[p] # pc[p] => p \notin ran]_vars
  BY OncePerSlot
<1> QED
  BY <1>1, <1>2, <1>3, LocalInvariance, ClientsHold, PTL
  DEF Spec, OneInstructionPerSlot
=============================================================================
