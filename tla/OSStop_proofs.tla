---------------------------- MODULE OSStop_proofs ----------------------------
(***************************************************************************)
(* When the CPUs of OS.tla leave no process behind.  A CPU stops when      *)
(* get_proc returns NULL and `done' is set; get_proc also returns NULL     *)
(* when it gives the slots back, whoever is ready.  Here it is proved that *)
(* this is the only way to leave a process behind: if the slots of one     *)
(* round are enough for all quanta of a priority, the CPUs stop only when  *)
(* every process has finished.                                             *)
(***************************************************************************)
EXTENDS OS_proofs, FiniteSetTheorems

----------------------------------------------------------------------------
(* What the proofs need of the numbers.                                    *)

\* Where a quantum may begin
Multiples == {k * time_slot : k \in Nat}

LEMMA MultiplesClosed ==
    /\ Multiples \subseteq Nat
    /\ 0 \in Multiples
    /\ \A x \in Multiples : x + time_slot \in Multiples
<1>1. time_slot \in Nat  BY OSAssumption
<1>2. \A k \in Nat : k * time_slot \in Nat  BY <1>1
<1>3. 0 * time_slot = 0  BY <1>1
<1>4. ASSUME NEW k \in Nat PROVE k * time_slot + time_slot = (k + 1) * time_slot
  BY <1>1
<1>5. \A x \in Multiples : x + time_slot \in Multiples
  <2> TAKE x \in Multiples
  <2>1. PICK k \in Nat : x = k * time_slot  BY DEF Multiples
  <2>2. k + 1 \in Nat /\ x + time_slot = (k + 1) * time_slot  BY <1>4, <2>1
  <2> QED  BY <2>2 DEF Multiples
<1> QED  BY <1>2, <1>3, <1>5 DEF Multiples

\* There are finitely many processes, as the configuration file names them
LEMMA ProcFinite == IsFiniteSet(Proc)
<1>1. num_processes \in Nat /\ DOMAIN ld_processes = 1 .. num_processes
  BY OSAssumption DEF num_processes
<1>2. IsFiniteSet(1 .. num_processes)  BY <1>1, FS_Interval
<1>3. Proc = {ld_processes[k] : k \in 1 .. num_processes}
  BY <1>1, OSAssumption DEF Range
<1>4. ld_processes \in Surjection(1 .. num_processes, Proc)
  BY <1>1, <1>3, OSAssumption DEF Surjection
<1> QED  BY <1>2, <1>4, FS_Surjection

\* A quantum of priority i, for any number k
LEMMA QuantaMembers ==
    ASSUME NEW i, NEW p \in Proc, NEW k \in Nat
    PROVE  <<p, k>> \in Quanta(i) <=> prio[p] = i /\ (k = 0 \/ k * time_slot < size[p])
<1> DEFINE Places == UNION {{r} \X (0 .. size[r]) : r \in Proc}
<1>1. size[p] \in Nat /\ time_slot \in Nat /\ time_slot >= 1  BY OSAssumption
<1>2. k <= k * time_slot  BY <1>1
<1>3. k = 0 \/ k * time_slot < size[p] => k \in 0 .. size[p]  BY <1>1, <1>2
<1>4. k \in 0 .. size[p] => <<p, k>> \in Places  OBVIOUS
<1> HIDE DEF Places
<1>5. <<p, k>> \in Quanta(i)
        <=> <<p, k>> \in Places /\ prio[p] = i /\ (k = 0 \/ k * time_slot < size[p])
  BY DEF Quanta, Places
<1> QED  BY <1>3, <1>4, <1>5

\* A quantum is one of a process
LEMMA QuantaPairs ==
    ASSUME NEW i, NEW w \in Quanta(i)
    PROVE  w[1] \in Proc /\ w[2] \in Nat /\ w[2] * time_slot \in Nat
<1>1. PICK p \in Proc : w \in {p} \X (0 .. size[p])  BY DEF Quanta
<1>2. w[1] = p /\ w[2] \in 0 .. size[p]  BY <1>1
<1> QED  BY <1>2, OSAssumption

\* There are finitely many of them
LEMMA QuantaFinite ==
    ASSUME NEW i
    PROVE  IsFiniteSet(Quanta(i))
<1> DEFINE Box(p) == {p} \X (0 .. size[p])
           Boxes == {Box(p) : p \in Proc}
<1>1. ASSUME NEW p \in Proc PROVE IsFiniteSet(Box(p))
  <2>1. IsFiniteSet({p})  BY FS_Singleton
  <2>2. IsFiniteSet(0 .. size[p])  BY FS_Interval, OSAssumption
  <2> QED  BY <2>1, <2>2, FS_Product
<1>2. Quanta(i) \subseteq UNION Boxes  BY DEF Quanta
<1> HIDE DEF Box
<1>3. IsFiniteSet(Boxes)
  <2>1. [p \in Proc |-> Box(p)] \in Surjection(Proc, Boxes)  BY DEF Surjection
  <2> QED  BY <2>1, ProcFinite, FS_Surjection
<1>4. IsFiniteSet(UNION Boxes)  BY <1>1, <1>3, FS_UNION
<1> QED  BY <1>2, <1>4, FS_Subset

\* What of get_mlq_proc matters here
LEMMA GetCases ==
    ASSUME Proved!CInv, NEW res, GetProc(res)
    PROVE  \/ (\A p \in Proc : ~Ready(p)) /\ res = NoProc /\ UNCHANGED slot
           \/ /\ \A p \in Proc : Ready(p) => slot[prio[p]] = 0
              /\ res = NoProc
              /\ slot' = [i \in Prio |-> Share(i)]
           \/ /\ res \in Proc /\ Ready(res)
              /\ slot[prio[res]] > 0
              /\ slot' = [slot EXCEPT ![prio[res]] = slot[prio[res]] - 1]
<1> USE DEF Proved!CInv, Proved!CTypeOK
<1>1. Proved!GetProc(res)
  BY Zenon DEF Proved!GetProc, GetProc, Proved!QueuesEmpty, QueuesEmpty,
     Proved!Servable, Servable, Proved!empty, empty, Proved!dequeued, dequeued,
     Proved!remaining, remaining, Proved!Highest, Highest, Proved!RemoveAt,
     RemoveAt, Proved!Prio, Prio, Proved!Share, Share, Proved!sched, sched
<1>2. Proved!SchedAssumption
  BY SchedAssumption DEF Proved!SchedAssumption, Proved!Prio, Prio
<1>3. /\ mlq_ready_queue \in [Prio -> Seq(Proc)] /\ slot \in [Prio -> Nat]
      /\ \A p \in Proc : prio[p] \in Prio
  BY SchedAssumption DEF Proved!SchedTypeOK, Proved!Prio, Prio
<1>4. \A i \in Prio : \A k \in 1 .. Len(mlq_ready_queue[i]) :
          prio[mlq_ready_queue[i][k]] = i
  BY DEF Proved!QueuesInv, Proved!Prio, Prio
<1>5. ASSUME NEW p \in Proc, Ready(p) PROVE mlq_ready_queue[prio[p]] # <<>>
  <2>1. DOMAIN mlq_ready_queue[prio[p]] # {}  BY <1>5 DEF Ready, Range
  <2> QED  BY <2>1
<1>6. CASE Proved!QueuesEmpty /\ res = NoProc /\ UNCHANGED Proved!sched
  BY <1>3, <1>5, <1>6 DEF Proved!QueuesEmpty, Proved!empty, Proved!sched,
     Proved!Prio, Prio
<1>7. CASE /\ ~Proved!QueuesEmpty /\ Proved!Servable = {} /\ res = NoProc
           /\ slot' = [i \in Proved!Prio |-> Proved!Share(i)]
  BY <1>3, <1>5, <1>7 DEF Proved!Servable, Proved!empty, Proved!Prio, Prio,
     Proved!Share, Share
<1>8. ASSUME NEW i \in Prio, mlq_ready_queue[i] # <<>>, slot[i] > 0,
             res = mlq_ready_queue[i][1], res \in Proc,
             slot' = [slot EXCEPT ![i] = slot[i] - 1]
      PROVE  /\ Ready(res) /\ slot[prio[res]] > 0
             /\ slot' = [slot EXCEPT ![prio[res]] = slot[prio[res]] - 1]
  <2>1. 1 \in 1 .. Len(mlq_ready_queue[i])
    BY <1>3, <1>8, Proved!EmptySeq, Proved!LenProperties
  <2>2. prio[res] = i  BY <1>4, <1>8, <2>1
  <2>3. 1 \in DOMAIN mlq_ready_queue[i]  BY <1>3, <2>1, Proved!LenProperties
  <2> QED  BY <1>8, <2>2, <2>3 DEF Ready, Range
<1>9. \/ Proved!QueuesEmpty /\ res = NoProc /\ UNCHANGED Proved!sched
      \/ /\ ~Proved!QueuesEmpty /\ Proved!Servable = {} /\ res = NoProc
         /\ slot' = [i \in Proved!Prio |-> Proved!Share(i)]
      \/ \E i \in Prio :
            /\ mlq_ready_queue[i] # <<>> /\ slot[i] > 0
            /\ res = mlq_ready_queue[i][1] /\ res \in Proc
            /\ slot' = [slot EXCEPT ![i] = slot[i] - 1]
  BY <1>1, <1>2, Proved!GetProcCases DEF Proved!Prio, Prio
<1> QED  BY <1>6, <1>7, <1>8, <1>9

----------------------------------------------------------------------------
(* The slots that are left are enough for the quanta to come.              *)

\* What is left of the quantum CPU c gives its process
Quantum(c) ==
    IF cpc[c] = "check" /\ time_left[c] = 0 THEN time_slot ELSE time_left[c]

\* p has not executed more than x instructions, and needs another dispatch,
\* after the quantum it is in, to get further than that
Due(p, x) ==
    /\ p \notin over
    /\ pc[p] <= x
    /\ \A c \in CPU : proc[c] = p => pc[p] # size[p] /\ pc[p] + Quantum(c) <= x

\* The quanta of priority i that still need a dispatch
ToCome(i) == {w \in Quanta(i) : Due(w[1], w[2] * time_slot)}

\* p is where a quantum of it begins
AtStart(p) == pc[p] \in Multiples /\ (pc[p] = 0 \/ pc[p] < size[p])

\* A process that no CPU holds is where a quantum begins, one that is held
\* gets there with the quantum it has unless it ends before, and the loader
\* adds processes that have executed nothing
AlignInv ==
    /\ \A p \in Proc \ over : (\A c \in CPU : proc[c] # p) => AtStart(p)
    /\ \A c \in CPU : proc[c] # NoProc =>
          \/ pc[proc[c]] = size[proc[c]]
          \/ pc[proc[c]] + Quantum(c) \in Multiples
    /\ \A c \in CPU : cpc[c] = "put" => pc[proc[c]] # size[proc[c]]
    /\ \A k \in 1 .. num_processes :
          k > li \/ (k = li /\ lpc # "add") => pc[ld_processes[k]] = 0

\* Each priority has a slot for each quantum to come
SlotsInv == \A i \in Prio : Cardinality(ToCome(i)) <= slot[i]

\* No process is held by two CPUs, or held before it is added
LEMMA HeldOnce ==
    ASSUME Proved!CInv
    PROVE  /\ \A c, d \in CPU : proc[c] = proc[d] /\ proc[c] \in Proc => c = d
           /\ \A c \in CPU : \A p \in Proc : Ready(p) => proc[c] # p
           /\ \A c \in CPU : \A k \in 1 .. num_processes :
                 k > li \/ (k = li /\ lpc # "add") => proc[c] # ld_processes[k]
           /\ \A p \in Proc : Ready(p) => p \notin over
           /\ slot \in [Prio -> Nat]
           /\ \A i \in Prio : slot[i] <= Share(i)
<1> USE DEF Proved!CInv, Proved!CTypeOK, Proved!PlaceInv
<1>1. \A p \in Proc : Proved!Ready(p) <=> Ready(p)
  BY DEF Proved!Ready, Ready, Proved!Range, Range
<1>2. \A p \in Proc : Ready(p) => p \notin over /\ \A c \in CPU : proc[c] # p
  BY <1>1
<1>3. \A c, d \in CPU : proc[c] = proc[d] /\ proc[c] \in Proc => c = d
  OBVIOUS
<1>4. ASSUME NEW c \in CPU, NEW k \in 1 .. num_processes,
             k > li \/ (k = li /\ lpc # "add")
      PROVE  proc[c] # ld_processes[k]
  <2>1. ld_processes[k] \in Proc  BY LoadedProcess
  <2>2. ld_processes[k] \in {ld_processes[m] : m \in {m \in 1 .. num_processes :
                                             m > li \/ (m = li /\ lpc # "add")}}
    BY <1>4
  <2> QED  BY <2>1, <2>2
<1>5. slot \in [Prio -> Nat] /\ \A i \in Prio : slot[i] <= Share(i)
  BY DEF Proved!SchedTypeOK, Proved!Prio, Prio, Proved!Share, Share
<1> QED  BY <1>2, <1>3, <1>4, <1>5

\* A ready process has a quantum to come, and so a slot
LEMMA ReadyHasSlot ==
    ASSUME LocalInv, Proved!CInv, AlignInv, SlotsInv, NEW p \in Proc, Ready(p)
    PROVE  /\ \E k \in Nat : <<p, k>> \in ToCome(prio[p]) /\ pc[p] = k * time_slot
           /\ slot[prio[p]] > 0
<1>1. /\ p \notin over /\ \A c \in CPU : proc[c] # p
      /\ prio[p] \in Prio /\ slot[prio[p]] \in Nat
  BY HeldOnce, SchedAssumption
<1>2. AtStart(p)  BY <1>1 DEF AlignInv
<1>3. PICK k \in Nat : pc[p] = k * time_slot /\ (k = 0 \/ k * time_slot < size[p])
  <2>1. CASE pc[p] = 0
    <3>1. 0 * time_slot = 0  BY OSAssumption
    <3> QED  BY <2>1, <3>1
  <2>2. CASE pc[p] # 0  BY <1>2, <2>2 DEF AtStart, Multiples
  <2> QED  BY <2>1, <2>2
<1>4. <<p, k>> \in ToCome(prio[p])
  <2>1. pc[p] \in Nat  BY DEF LocalInv, LocalTypes
  <2>2. Due(p, k * time_slot)  BY <1>1, <1>3, <2>1 DEF Due
  <2>3. <<p, k>> \in Quanta(prio[p])  BY <1>3, QuantaMembers
  <2> QED  BY <2>2, <2>3 DEF ToCome
<1>5. ToCome(prio[p]) \subseteq Quanta(prio[p])  BY DEF ToCome
<1>6. IsFiniteSet(ToCome(prio[p]))  BY <1>5, QuantaFinite, FS_Subset
<1>7. Cardinality(ToCome(prio[p])) # 0  BY <1>4, <1>6, FS_EmptySet
<1>8. Cardinality(ToCome(prio[p])) \in Nat  BY <1>6, FS_CardinalityType
<1> QED  BY <1>1, <1>3, <1>4, <1>7, <1>8 DEF SlotsInv

\* Once no quantum needs a dispatch anew, the slots remain enough
LEMMA NothingNewDue ==
    ASSUME SlotsInv, \A p \in Proc : \A x \in Nat : Due(p, x)' => Due(p, x),
           Proved!CInv, UNCHANGED slot
    PROVE  SlotsInv'
<1> SUFFICES ASSUME NEW i \in Prio
             PROVE  Cardinality(ToCome(i)') <= slot'[i]
  BY DEF SlotsInv
<1>1. ToCome(i)' \subseteq ToCome(i)
  <2>1. \A w \in Quanta(i) : w[1] \in Proc /\ w[2] * time_slot \in Nat
    BY QuantaPairs
  <2> QED  BY <2>1 DEF ToCome, Quanta
<1>2. IsFiniteSet(ToCome(i))
  <2>1. ToCome(i) \subseteq Quanta(i)  BY DEF ToCome
  <2> QED  BY <2>1, QuantaFinite, FS_Subset
<1>3. Cardinality(ToCome(i)') <= Cardinality(ToCome(i))  BY <1>1, <1>2, FS_Subset
<1>4. IsFiniteSet(ToCome(i)')  BY <1>1, <1>2, FS_Subset
<1>5. Cardinality(ToCome(i)') \in Nat /\ Cardinality(ToCome(i)) \in Nat
  BY <1>2, <1>4, FS_CardinalityType
<1>6. slot[i] \in Nat  BY HeldOnce
<1> QED  BY <1>3, <1>5, <1>6 DEF SlotsInv

\* What a step of CPU c leaves alone
LEMMA CpuFrame ==
    ASSUME LocalInv, NEW c \in CPU, CpuStep(c)
    PROVE  /\ UNCHANGED <<ld, mpc>>
           /\ \A d \in CPU \ {c} :
                 /\ proc'[d] = proc[d] /\ cpc'[d] = cpc[d] /\ Quantum(d)' = Quantum(d)
                 /\ st'[d] = st[d]
           /\ st'[Loader] = st[Loader]
<1> USE OSAssumption DEF LocalInv, LocalTypes, Slots!BTypeOK, Device, Quantum, slots, cpu, ld
<1>1. CASE GetFirst(c)  BY <1>1 DEF GetFirst
<1>2. CASE Finish(c)  BY <1>2 DEF Finish
<1>3. CASE PutBack(c)  BY <1>3 DEF PutBack
<1>4. CASE PutBackMlq(c)  BY <1>4 DEF PutBackMlq
<1>5. CASE GetNext(c)  BY <1>5 DEF GetNext
<1>6. CASE Stay(c)  BY <1>6 DEF Stay
<1>7. CASE Stop(c)  BY <1>7 DEF Stop
<1>8. CASE Idle(c)  BY <1>8 DEF Idle
<1>9. CASE Run(c)  BY <1>9 DEF Run
<1>10. CASE CpuArrive(c)  BY <1>10 DEF CpuArrive, Slots!Arrive
<1>11. CASE CpuReturn(c)  BY <1>11 DEF CpuReturn
<1>12. CASE CpuDetach(c)  BY <1>12 DEF CpuDetach, Slots!Leave
<1> QED  BY <1>1, <1>2, <1>3, <1>4, <1>5, <1>6, <1>7, <1>8, <1>9, <1>10, <1>11,
          <1>12 DEF CpuStep

\* What c holds, and its quantum, after a call of get_proc
LEMMA CpuGets ==
    ASSUME LocalInv, NEW c \in CPU, NEW res \in Proc \cup {NoProc}, GetProc(res),
           proc' = [proc EXCEPT ![c] = res], UNCHANGED <<pc, over, time_left>>,
           GetFirst(c) \/ GetNext(c)
    PROVE  /\ proc[c] = NoProc /\ proc'[c] = res
           /\ res # NoProc => cpc'[c] = "check" /\ Quantum(c)' = time_slot
<1> USE DEF LocalInv, LocalTypes, HandInv, FreshQuantum, Quantum
<1>1. CASE GetFirst(c)
  <2>1. proc[c] = NoProc /\ time_left[c] = 0  BY <1>1 DEF GetFirst
  <2>2. res # NoProc => cpc'[c] = "check"  BY <1>1 DEF GetFirst
  <2> QED  BY <2>1, <2>2
<1>2. CASE GetNext(c)
  <2>1. proc[c] = NoProc /\ time_left[c] = 0 /\ cpc'[c] = "check"
    BY <1>2 DEF GetNext
  <2> QED  BY <2>1
<1> QED  BY <1>1, <1>2

\* Processes keep to the beginnings of their quanta: a step of a CPU ...
LEMMA AlignCpu ==
    ASSUME LocalInv, Proved!CInv, AlignInv, NEW c \in CPU, CpuStep(c)
    PROVE  AlignInv'
<1> USE DEF LocalInv, LocalTypes, HandInv, FreshQuantum, AtStart
<1>1. /\ UNCHANGED <<li, lpc>>
      /\ \A d \in CPU \ {c} : proc'[d] = proc[d] /\ cpc'[d] = cpc[d] /\ Quantum(d)' = Quantum(d)
  BY CpuFrame DEF ld
<1>2. /\ \A p \in Proc : pc[p] \in Nat /\ size[p] \in Nat /\ pc[p] <= size[p]
      /\ time_slot \in Nat /\ time_slot >= 1
  BY OSAssumption
<1>3. \A k \in 1 .. num_processes : ld_processes[k] \in Proc  BY LoadedProcess
<1>4. ASSUME NEW res \in Proc \cup {NoProc}, GetProc(res), UNCHANGED <<pc, over, time_left>>,
             proc' = [proc EXCEPT ![c] = res], GetFirst(c) \/ GetNext(c)
      PROVE  AlignInv'
  <2>1. /\ proc[c] = NoProc /\ proc'[c] = res
        /\ res # NoProc => cpc'[c] = "check" /\ Quantum(c)' = time_slot
    BY <1>4, CpuGets
  <2>2. res # NoProc => AtStart(res)
    BY <1>4, GetCases, HeldOnce DEF AlignInv
  <2>3. res # NoProc => pc[res] + time_slot \in Multiples
    BY <2>2, MultiplesClosed
  <2>4. cpc'[c] # "put"  BY <1>4 DEF GetFirst, GetNext
  <2>5. \A p \in Proc \ over' : (\A d \in CPU : proc'[d] # p) => AtStart(p)'
    BY <1>1, <1>4, <2>1, SchedAssumption DEF AlignInv
  <2>6. \A d \in CPU : proc'[d] # NoProc =>
           \/ pc'[proc'[d]] = size[proc'[d]]
           \/ pc'[proc'[d]] + Quantum(d)' \in Multiples
    BY <1>1, <1>4, <2>1, <2>3 DEF AlignInv
  <2>7. \A d \in CPU : cpc'[d] = "put" => pc'[proc'[d]] # size[proc'[d]]
    BY <1>1, <1>4, <2>4 DEF AlignInv
  <2>8. \A k \in 1 .. num_processes :
           k > li' \/ (k = li' /\ lpc' # "add") => pc'[ld_processes[k]] = 0
    BY <1>1, <1>4 DEF AlignInv
  <2> QED  BY <2>5, <2>6, <2>7, <2>8 DEF AlignInv, Multiples
<1>5. CASE GetFirst(c)  BY <1>4, <1>5 DEF GetFirst
<1>6. CASE GetNext(c)  BY <1>4, <1>6 DEF GetNext
<1>7. CASE Run(c)
  <2> DEFINE p == proc[c]
  <2>1. p \in Proc /\ p # NoProc /\ cpc[c] = "check" /\ cpc'[c] = "slot" /\ proc' = proc
    BY <1>7, SchedAssumption DEF Run
  <2>2. Quantum(c)' = Quantum(c) - 1 /\ Quantum(c) \in Nat
    <3>1. time_left[c] \in Nat  BY <1>2
    <3>2. time_left'[c] = (IF time_left[c] = 0 THEN time_slot ELSE time_left[c]) - 1
      BY <1>7 DEF Run
    <3>3. Quantum(c)' = time_left'[c]  BY <2>1 DEF Quantum
    <3>4. Quantum(c) = IF time_left[c] = 0 THEN time_slot ELSE time_left[c]
      BY <2>1 DEF Quantum
    <3>5. Quantum(c) \in Nat  BY <1>2, <3>1, <3>4
    <3> QED  BY <3>2, <3>3, <3>4, <3>5
  <2>3. /\ pc'[p] = IF pc[p] < size[p] THEN pc[p] + 1 ELSE pc[p]
        /\ \A r \in Proc \ {p} : pc'[r] = pc[r]
        /\ over' = over
    BY <1>7, <2>1 DEF Run
  <2>4. pc[p] = size[p] \/ pc[p] + Quantum(c) \in Multiples  BY <2>1 DEF AlignInv
  <2>5. pc'[p] = size[p] \/ pc'[p] + Quantum(c)' \in Multiples
    <3>1. CASE pc[p] = size[p]  BY <1>2, <2>1, <2>3, <3>1
    <3>2. CASE pc[p] # size[p]
      <4>1. pc'[p] = pc[p] + 1  BY <1>2, <2>1, <2>3, <3>2
      <4>2. pc'[p] + Quantum(c)' = pc[p] + Quantum(c)  BY <1>2, <2>1, <2>2, <4>1
      <4> QED  BY <2>4, <3>2, <4>2
    <3> QED  BY <3>1, <3>2
  <2>6. \A d \in CPU : proc[d] = p => d = c  BY <2>1, HeldOnce
  <2> HIDE DEF p
  <2>7. \A r \in Proc \ over' : (\A d \in CPU : proc'[d] # r) => AtStart(r)'
    BY <2>1, <2>3 DEF AlignInv, p
  <2>8. \A d \in CPU : proc'[d] # NoProc =>
           \/ pc'[proc'[d]] = size[proc'[d]]
           \/ pc'[proc'[d]] + Quantum(d)' \in Multiples
    BY <1>1, <2>1, <2>3, <2>5, <2>6 DEF AlignInv, p
  <2>9. \A d \in CPU : cpc'[d] = "put" => pc'[proc'[d]] # size[proc'[d]]
    BY <1>1, <2>1, <2>3, <2>6 DEF AlignInv, p
  <2>10. \A k \in 1 .. num_processes :
           k > li' \/ (k = li' /\ lpc' # "add") => pc'[ld_processes[k]] = 0
    BY <1>1, <1>3, <2>3, HeldOnce DEF AlignInv, p
  <2> QED  BY <2>7, <2>8, <2>9, <2>10 DEF AlignInv, Multiples
<1>8. CASE Finish(c)
  <2>1. /\ UNCHANGED pc /\ over' = over \cup {proc[c]} /\ proc'[c] = NoProc
        /\ cpc'[c] = "get"
    BY <1>8 DEF Finish
  <2>2. \A r \in Proc \ over' : (\A d \in CPU : proc'[d] # r) => AtStart(r)'
    BY <1>1, <2>1 DEF AlignInv
  <2> QED  BY <1>1, <2>1, <2>2 DEF AlignInv, Multiples
<1>9. CASE PutBackMlq(c)
  <2>1. /\ UNCHANGED <<pc, over>> /\ proc'[c] = NoProc /\ proc[c] \in Proc
        /\ cpc'[c] = "get" /\ cpc[c] = "put" /\ time_left[c] = 0
    BY <1>9 DEF PutBackMlq
  <2>2. Quantum(c) = 0  BY <2>1 DEF Quantum
  <2>3. pc[proc[c]] + 0 \in Multiples /\ pc[proc[c]] < size[proc[c]]
    BY <1>2, <2>1, <2>2, SchedAssumption DEF AlignInv
  <2>4. AtStart(proc[c])  BY <1>2, <2>1, <2>3
  <2>5. \A r \in Proc \ over' : (\A d \in CPU : proc'[d] # r) => AtStart(r)'
    BY <1>1, <2>1, <2>4 DEF AlignInv
  <2> QED  BY <1>1, <2>1, <2>5 DEF AlignInv, Multiples
<1>10. ASSUME UNCHANGED <<proc, pc, over>>, cpc'[c] = "put" => pc[proc[c]] # size[proc[c]],
              proc[c] # NoProc => Quantum(c)' = Quantum(c)
       PROVE  AlignInv'
  <2>1. \A r \in Proc \ over' : (\A d \in CPU : proc'[d] # r) => AtStart(r)'
    BY <1>10 DEF AlignInv
  <2>2. \A d \in CPU : proc'[d] # NoProc =>
           \/ pc'[proc'[d]] = size[proc'[d]]
           \/ pc'[proc'[d]] + Quantum(d)' \in Multiples
    BY <1>1, <1>10 DEF AlignInv
  <2> QED  BY <1>1, <1>10, <2>1, <2>2 DEF AlignInv, Multiples
<1>11. CASE \/ PutBack(c) \/ Stay(c) \/ Stop(c) \/ Idle(c)
            \/ CpuArrive(c) \/ CpuReturn(c) \/ CpuDetach(c)
  <2>1. UNCHANGED <<proc, pc, over>> /\ (cpc'[c] = "put" => pc[proc[c]] # size[proc[c]])
    BY <1>11 DEF PutBack, Stay, Stop, Idle, CpuArrive, CpuReturn, CpuDetach
  <2>2. proc[c] # NoProc => Quantum(c)' = Quantum(c)
    BY <1>11 DEF PutBack, Stay, Stop, Idle, CpuArrive, CpuReturn, CpuDetach, Quantum
  <2> QED  BY <1>10, <2>1, <2>2
<1> QED  BY <1>5, <1>6, <1>7, <1>8, <1>9, <1>11 DEF CpuStep

\* ... and one of the loader, of main, or the end of a slot
LEMMA AlignRest ==
    ASSUME LocalInv, Proved!CInv, AlignInv, LoaderStep \/ Tick \/ MainStep \/ UNCHANGED vars
    PROVE  AlignInv' /\ UNCHANGED pc
<1> USE DEF LocalInv, LocalTypes, AtStart, cpu, ld
<1>1. num_processes \in Nat  BY OSAssumption DEF num_processes
<1>2. UNCHANGED pc
  <2>1. CASE LoaderLoad
    <3>1. li \in 1 .. num_processes /\ lpc # "add"  BY <2>1 DEF LoaderLoad
    <3>2. ld_processes[li] \in Proc  BY <3>1, LoadedProcess
    <3>3. pc[ld_processes[li]] = 0  BY <3>1 DEF AlignInv
    <3>4. pc' = [pc EXCEPT ![ld_processes[li]] = 0]  BY <2>1 DEF LoaderLoad
    <3> QED  BY <3>2, <3>3, <3>4
  <2>2. CASE ~LoaderLoad
    BY <2>2 DEF LoaderStep, LoaderWait, LoaderAdd, LoaderAddMlq, LoaderArrive,
       LoaderReturn, SetDone, LoaderDetach, Tick, MainStep, SpawnLoader, SpawnCpu,
       Join, vars
  <2> QED  BY <2>1, <2>2
<1>3. UNCHANGED <<proc, over, time_left>>
  BY DEF LoaderStep, LoaderLoad, LoaderWait, LoaderAdd, LoaderAddMlq, LoaderArrive,
     LoaderReturn, SetDone, LoaderDetach, Tick, MainStep, SpawnLoader, SpawnCpu,
     Join, vars
<1>4. \A c \in CPU : cpc'[c] = cpc[c] \/ (cpc[c] = "new" /\ cpc'[c] = "top")
  BY DEF LoaderStep, LoaderLoad, LoaderWait, LoaderAdd, LoaderAddMlq, LoaderArrive,
     LoaderReturn, SetDone, LoaderDetach, Tick, MainStep, SpawnLoader, SpawnCpu,
     Join, vars
<1>5. \A c \in CPU : Quantum(c)' = Quantum(c)  BY <1>3, <1>4 DEF Quantum
<1>6. \A k \in 1 .. num_processes :
         k > li' \/ (k = li' /\ lpc' # "add") => k > li \/ (k = li /\ lpc # "add")
  <2>1. CASE LoaderAddMlq  BY <1>1, <2>1 DEF LoaderAddMlq
  <2>2. CASE ~LoaderAddMlq
    BY <2>2 DEF LoaderStep, LoaderLoad, LoaderWait, LoaderAdd, LoaderArrive,
       LoaderReturn, SetDone, LoaderDetach, Tick, MainStep, SpawnLoader, SpawnCpu,
       Join, vars
  <2> QED  BY <2>1, <2>2
<1>7. \A p \in Proc \ over' : (\A c \in CPU : proc'[c] # p) => AtStart(p)'
  BY <1>2, <1>3 DEF AlignInv
<1> QED  BY <1>2, <1>3, <1>4, <1>5, <1>6, <1>7 DEF AlignInv, Multiples

\* Unless it calls get_proc, a CPU only uses up the quantum it has
LEMMA DueCpu ==
    ASSUME LocalInv, Proved!CInv, AlignInv, NEW c \in CPU, CpuStep(c),
           ~GetFirst(c), ~GetNext(c)
    PROVE  /\ UNCHANGED slot
           /\ \A p \in Proc : \A x \in Nat : Due(p, x)' => Due(p, x)
<1> USE DEF LocalInv, LocalTypes, HandInv, FreshQuantum
<1>1. \A d \in CPU \ {c} : proc'[d] = proc[d] /\ Quantum(d)' = Quantum(d)
  BY CpuFrame
<1>2. /\ \A p \in Proc : pc[p] \in Nat /\ size[p] \in Nat /\ pc[p] <= size[p]
      /\ time_slot \in Nat
  BY OSAssumption
<1>3. UNCHANGED slot
  BY DEF CpuStep, Finish, PutBack, PutBackMlq, Stay, Stop, Idle, Run, CpuArrive,
     CpuReturn, CpuDetach, PutReady, EnqueueMlq, sched
<1> SUFFICES ASSUME NEW p \in Proc, NEW x \in Nat, Due(p, x)'
             PROVE  Due(p, x)
  BY <1>3
<1>4. /\ p \notin over' /\ pc'[p] <= x
      /\ \A d \in CPU : proc'[d] = p => pc'[p] # size[p] /\ pc'[p] + Quantum(d)' <= x
  BY DEF Due
<1>5. CASE Run(c)
  <2>1. proc[c] \in Proc /\ cpc[c] = "check" /\ cpc'[c] = "slot" /\ proc' = proc
    BY <1>5 DEF Run
  <2>2. /\ pc'[proc[c]] = IF pc[proc[c]] < size[proc[c]] THEN pc[proc[c]] + 1 ELSE pc[proc[c]]
        /\ \A r \in Proc \ {proc[c]} : pc'[r] = pc[r]
        /\ over' = over
    BY <1>5, <2>1 DEF Run
  <2>3. CASE proc[c] # p  BY <1>1, <1>4, <2>1, <2>2, <2>3 DEF Due
  <2>4. CASE proc[c] = p
    <3>1. pc[p] < size[p] /\ pc'[p] = pc[p] + 1
      BY <1>2, <1>4, <2>1, <2>2, <2>4
    <3>2. Quantum(c)' = Quantum(c) - 1 /\ Quantum(c) \in Nat
      <4>1. time_left[c] \in Nat  BY <1>2
      <4>2. Quantum(c)' = (IF time_left[c] = 0 THEN time_slot ELSE time_left[c]) - 1
        BY <1>5, <2>1 DEF Run, Quantum
      <4>3. Quantum(c) = IF time_left[c] = 0 THEN time_slot ELSE time_left[c]
        BY <2>1 DEF Quantum
      <4> QED  BY <1>2, <4>1, <4>2, <4>3
    <3>3. pc[p] + Quantum(c) <= x /\ pc[p] # size[p] /\ pc[p] <= x
      <4>1. pc'[p] + Quantum(c)' <= x  BY <1>4, <2>1, <2>4
      <4> QED  BY <1>2, <1>4, <3>1, <3>2, <4>1
    <3>4. \A d \in CPU : proc[d] = p => d = c  BY <2>4, HeldOnce
    <3> QED  BY <1>4, <2>2, <3>3, <3>4 DEF Due
  <2> QED  BY <2>3, <2>4
<1>6. CASE Finish(c)
  <2>1. proc[c] # p /\ over \subseteq over' /\ UNCHANGED pc
    BY <1>4, <1>6 DEF Finish
  <2> QED  BY <1>1, <1>4, <2>1 DEF Due
<1>7. CASE PutBackMlq(c)
  <2>1. UNCHANGED <<pc, over>> /\ proc[c] \in Proc /\ cpc[c] = "put" /\ time_left[c] = 0
    BY <1>7 DEF PutBackMlq
  <2>2. Quantum(c) = 0 /\ pc[proc[c]] # size[proc[c]]
    BY <2>1 DEF Quantum, AlignInv
  <2> QED  BY <1>1, <1>2, <1>4, <2>1, <2>2 DEF Due
<1>8. CASE \/ PutBack(c) \/ Stay(c) \/ Stop(c) \/ Idle(c)
           \/ CpuArrive(c) \/ CpuReturn(c) \/ CpuDetach(c)
  <2>1. UNCHANGED <<proc, pc, over>>
    BY <1>8 DEF PutBack, Stay, Stop, Idle, CpuArrive, CpuReturn, CpuDetach
  <2>2. proc[c] # NoProc => Quantum(c)' = Quantum(c)
    BY <1>8 DEF PutBack, Stay, Stop, Idle, CpuArrive, CpuReturn, CpuDetach, Quantum
  <2> QED  BY <1>1, <1>4, <2>1, <2>2, SchedAssumption DEF Due
<1> QED  BY <1>5, <1>6, <1>7, <1>8 DEF CpuStep

\* A call of get_proc pays for the quantum it begins with a slot; it gives
\* the slots back only when nobody is ready to use those that are left
LEMMA SlotsGet ==
    ASSUME EnoughSlots, LocalInv, Proved!CInv, AlignInv, SlotsInv, NEW c \in CPU,
           NEW res \in Proc \cup {NoProc}, GetProc(res),
           proc' = [proc EXCEPT ![c] = res], UNCHANGED <<pc, over, time_left>>,
           GetFirst(c) \/ GetNext(c)
    PROVE  SlotsInv'
<1> USE DEF LocalInv, LocalTypes
<1>1. /\ proc[c] = NoProc /\ proc'[c] = res
      /\ res # NoProc => Quantum(c)' = time_slot
  BY CpuGets
<1>2. \A d \in CPU \ {c} : proc'[d] = proc[d] /\ Quantum(d)' = Quantum(d)
  <2>1. CpuStep(c)  BY DEF CpuStep
  <2> QED  BY <2>1, CpuFrame
<1>3. /\ \A p \in Proc : pc[p] \in Nat /\ size[p] \in Nat
      /\ time_slot \in Nat /\ time_slot >= 1
      /\ slot \in [Prio -> Nat] /\ \A i \in Prio : Share(i) \in Nat
  <2>1. \A p \in Proc : pc[p] \in Nat  OBVIOUS
  <2>2. /\ \A p \in Proc : size[p] \in Nat
        /\ time_slot \in Nat /\ time_slot >= 1
    <3> HIDE DEF LocalInv, LocalTypes
    <3> QED  BY OSAssumption
  <2>3. slot \in [Prio -> Nat]  BY Zenon, HeldOnce
  <2>4. \A i \in Prio : Share(i) \in Nat
    <3> HIDE DEF LocalInv, LocalTypes
    <3> QED  BY SchedAssumption DEF Share, Prio
  <2> QED  BY Zenon, <2>1, <2>2, <2>3, <2>4
<1>4. \A p \in Proc : \A x \in Nat : Due(p, x)' => Due(p, x)
  BY <1>1, <1>2, SchedAssumption DEF Due
<1>5. CASE UNCHANGED slot  BY <1>4, <1>5, NothingNewDue
<1>6. CASE slot' = [i \in Prio |-> Share(i)]
  <2> SUFFICES ASSUME NEW i \in Prio
               PROVE  Cardinality(ToCome(i)') <= slot'[i]
    BY DEF SlotsInv
  <2>1. ToCome(i)' \subseteq Quanta(i)  BY DEF ToCome, Quanta
  <2>2. /\ IsFiniteSet(ToCome(i)') /\ IsFiniteSet(Quanta(i))
        /\ Cardinality(ToCome(i)') <= Cardinality(Quanta(i))
    BY <2>1, QuantaFinite, FS_Subset
  <2>3. Cardinality(ToCome(i)') \in Nat /\ Cardinality(Quanta(i)) \in Nat
    BY <2>2, FS_CardinalityType
  <2>4. Cardinality(Quanta(i)) <= Share(i) /\ slot'[i] = Share(i)
    BY <1>6 DEF EnoughSlots
  <2> QED  BY <1>3, <2>2, <2>3, <2>4
<1>7. CASE /\ res \in Proc /\ Ready(res)
           /\ slot[prio[res]] > 0
           /\ slot' = [slot EXCEPT ![prio[res]] = slot[prio[res]] - 1]
  <2>1. prio[res] \in Prio /\ res # NoProc  BY <1>7, SchedAssumption
  <2>2. PICK k \in Nat : <<res, k>> \in ToCome(prio[res]) /\ pc[res] = k * time_slot
    BY <1>7, ReadyHasSlot
  <2>3. ~Due(res, k * time_slot)'
    <3>1. pc'[res] + Quantum(c)' = k * time_slot + time_slot
      BY <1>1, <1>7, <2>1, <2>2
    <3>2. k * time_slot \in Nat  BY <1>3
    <3> QED  BY <1>1, <1>3, <3>1, <3>2 DEF Due
  <2> SUFFICES ASSUME NEW i \in Prio
               PROVE  Cardinality(ToCome(i)') <= slot'[i]
    BY DEF SlotsInv
  <2>4. ToCome(i)' \subseteq ToCome(i)
    <3>1. \A w \in Quanta(i) : w[1] \in Proc /\ w[2] * time_slot \in Nat
      BY QuantaPairs
    <3> QED  BY <1>4, <3>1 DEF ToCome, Quanta
  <2>5. IsFiniteSet(ToCome(i))
    <3>1. ToCome(i) \subseteq Quanta(i)  BY DEF ToCome
    <3> QED  BY <3>1, QuantaFinite, FS_Subset
  <2>6. /\ Cardinality(ToCome(i)) <= slot[i] /\ slot[i] \in Nat
        /\ Cardinality(ToCome(i)) \in Nat
    BY <1>3, <2>5, FS_CardinalityType DEF SlotsInv
  <2>7. CASE i # prio[res]
    <3>1. slot'[i] = slot[i]  BY <1>3, <1>7, <2>7
    <3>2. /\ IsFiniteSet(ToCome(i)')
          /\ Cardinality(ToCome(i)') <= Cardinality(ToCome(i))
      BY <2>4, <2>5, FS_Subset
    <3>3. Cardinality(ToCome(i)') \in Nat  BY <3>2, FS_CardinalityType
    <3> QED  BY <2>6, <3>1, <3>2, <3>3
  <2>8. CASE i = prio[res]
    <3>1. slot'[i] = slot[i] - 1  BY <1>3, <1>7, <2>1, <2>8
    <3> DEFINE Rest == ToCome(i) \ {<<res, k>>}
    <3>2. ToCome(i)' \subseteq Rest
      <4>1. <<res, k>> \notin ToCome(i)'  BY <2>3 DEF ToCome
      <4> QED  BY <2>4, <4>1
    <3>3. IsFiniteSet(Rest) /\ Cardinality(Rest) = Cardinality(ToCome(i)) - 1
      BY <2>2, <2>5, <2>8, FS_RemoveElement
    <3> HIDE DEF Rest
    <3>4. /\ IsFiniteSet(ToCome(i)')
          /\ Cardinality(ToCome(i)') <= Cardinality(Rest)
      BY <3>2, <3>3, FS_Subset
    <3>5. Cardinality(ToCome(i)') \in Nat  BY <3>4, FS_CardinalityType
    <3> QED  BY <2>6, <3>1, <3>3, <3>4, <3>5
  <2> QED  BY <2>7, <2>8
<1> QED  BY <1>5, <1>6, <1>7, GetCases

\* So no step of a CPU leaves a quantum to come without a slot ...
LEMMA SlotsCpu ==
    ASSUME EnoughSlots, LocalInv, Proved!CInv, AlignInv, SlotsInv,
           NEW c \in CPU, CpuStep(c)
    PROVE  SlotsInv'
<1>1. CASE GetFirst(c)  BY <1>1, SlotsGet DEF GetFirst
<1>2. CASE GetNext(c)  BY <1>2, SlotsGet DEF GetNext
<1>3. CASE ~GetFirst(c) /\ ~GetNext(c)  BY <1>3, DueCpu, NothingNewDue
<1> QED  BY <1>1, <1>2, <1>3

\* ... and the others neither take slots nor begin quanta
LEMMA SlotsRest ==
    ASSUME LocalInv, Proved!CInv, AlignInv, SlotsInv,
           LoaderStep \/ Tick \/ MainStep \/ UNCHANGED vars
    PROVE  SlotsInv'
<1>1. UNCHANGED <<pc, proc, over, time_left, slot>>
  <2>1. UNCHANGED pc  BY AlignRest
  <2>2. UNCHANGED <<proc, over, time_left, slot>>
    BY DEF LoaderStep, LoaderLoad, LoaderWait, LoaderAdd, LoaderAddMlq, LoaderArrive,
       LoaderReturn, SetDone, LoaderDetach, Tick, MainStep, SpawnLoader, SpawnCpu,
       Join, vars, cpu, sched, AddRunning, EnqueueMlq
  <2> QED  BY <2>1, <2>2
<1>2. \A c \in CPU : cpc'[c] = cpc[c] \/ (cpc[c] = "new" /\ cpc'[c] = "top")
  BY DEF LocalInv, LocalTypes, LoaderStep, LoaderLoad, LoaderWait, LoaderAdd,
     LoaderAddMlq, LoaderArrive, LoaderReturn, SetDone, LoaderDetach, Tick,
     MainStep, SpawnLoader, SpawnCpu, Join, vars, cpu
<1>3. \A c \in CPU : Quantum(c)' = Quantum(c)  BY <1>1, <1>2 DEF Quantum
<1>4. \A p \in Proc : \A x \in Nat : Due(p, x)' => Due(p, x)
  BY <1>1, <1>3 DEF Due
<1> QED  BY <1>1, <1>4, NothingNewDue

\* At the start every quantum is to come, and every slot is there
LEMMA RoundsInit ==
    ASSUME Init, EnoughSlots
    PROVE  AlignInv /\ SlotsInv
<1>1. AlignInv
  <2>1. \A p \in Proc : AtStart(p)  BY MultiplesClosed DEF Init, AtStart
  <2>2. \A k \in 1 .. num_processes : pc[ld_processes[k]] = 0
    BY LoadedProcess DEF Init
  <2>3. \A c \in CPU : proc[c] = NoProc /\ cpc[c] = "new"  BY DEF Init
  <2> QED  BY <2>1, <2>2, <2>3 DEF AlignInv
<1>2. SlotsInv
  <2> SUFFICES ASSUME NEW i \in Prio
               PROVE  Cardinality(ToCome(i)) <= slot[i]
    BY DEF SlotsInv
  <2>1. ToCome(i) \subseteq Quanta(i)  BY DEF ToCome
  <2>2. /\ IsFiniteSet(ToCome(i)) /\ IsFiniteSet(Quanta(i))
        /\ Cardinality(ToCome(i)) <= Cardinality(Quanta(i))
    BY <2>1, QuantaFinite, FS_Subset
  <2>3. Cardinality(ToCome(i)) \in Nat /\ Cardinality(Quanta(i)) \in Nat
    BY <2>2, FS_CardinalityType
  <2>4. slot[i] = Share(i) /\ Share(i) \in Nat
    BY SchedAssumption DEF Init, SchedInit, Share, Prio
  <2>5. Cardinality(Quanta(i)) <= Share(i)  BY DEF EnoughSlots
  <2> QED  BY <2>2, <2>3, <2>4, <2>5
<1> QED  BY <1>1, <1>2

\* So every step keeps both
LEMMA RoundsStep ==
    ASSUME EnoughSlots, LocalInv, Proved!CInv, AlignInv, SlotsInv, [Next]_vars
    PROVE  AlignInv' /\ SlotsInv'
  BY AlignCpu, AlignRest, SlotsCpu, SlotsRest DEF Next

\* With a slot for each quantum, a ready process never finds its priority
\* without one: get_proc does not return NULL while somebody is ready
THEOREM SlotsSuffice ==
    ASSUME EnoughSlots
    PROVE  Spec => [](\A p \in Proc : Ready(p) => slot[prio[p]] > 0)
<1>1. Init => AlignInv /\ SlotsInv  BY RoundsInit
<1>2. LocalInv /\ Proved!CInv /\ AlignInv /\ SlotsInv /\ [Next]_vars
        => AlignInv' /\ SlotsInv'
  BY RoundsStep
<1>3. LocalInv /\ Proved!CInv /\ AlignInv /\ SlotsInv
        => \A p \in Proc : Ready(p) => slot[prio[p]] > 0
  BY ReadyHasSlot
<1> QED  BY <1>1, <1>2, <1>3, LocalInvariance, ClientsHold, PTL DEF Spec

----------------------------------------------------------------------------
(* Who stops, and what is left then.                                       *)

\* c holds nothing and will not call get_proc again, unless `done' is not set
GivenUp(c) ==
    \/ cpc[c] \in {"detach", "exit"}
    \/ cpc[c] = "check" /\ proc[c] = NoProc

\* All processes were added, and in an earlier slot than this one
AllIn == /\ li > num_processes
         /\ lpc # "slot"
         /\ lpc = "wait" => st[Loader] = "work"

\* Once all processes were added, somebody is responsible for those that have
\* not finished.  The slot the loader waits for before it sets `done' is what
\* makes it so: a CPU that saw empty queues before the last process was added
\* cannot reach that slot without going round once more
StopInv ==
    /\ \A c \in CPU : cpc[c] \in {"detach", "exit"} => done /\ proc[c] = NoProc
    /\ done => lpc \in {"quit", "exit"} /\ li > num_processes
    /\ \A c \in CPU : /\ st[c] = "arrived" => cpc[c] = "wait"
                      /\ st[c] = "gone" => cpc[c] = "exit"
    /\ AllIn /\ over # Proc => \E c \in CPU : ~GivenUp(c)

\* At the start nobody has stopped
LEMMA StopInit ==
    ASSUME Init
    PROVE  StopInv
<1>1. \A c \in CPU : cpc[c] = "new" /\ st[c] = "work"
  BY DEF Init, Slots!BInit, Device
<1>2. li > num_processes => Proc = {}
  <2>1. num_processes \in Nat /\ DOMAIN ld_processes = 1 .. num_processes
    BY OSAssumption DEF num_processes
  <2>2. li = 1  BY DEF Init
  <2>3. Proc = {ld_processes[k] : k \in 1 .. num_processes}
    BY <2>1, OSAssumption DEF Range
  <2> QED  BY <2>1, <2>2, <2>3
<1>3. done = FALSE /\ over = {}  BY DEF Init
<1> QED  BY <1>1, <1>2, <1>3 DEF StopInv, AllIn

\* When get_proc has nothing for CPU c and all processes were added, those
\* that have not finished are in the hands of others
LEMMA OthersHold ==
    ASSUME LocalInv, Proved!CInv, Proved!KeptInv, AlignInv, SlotsInv, AllIn,
           over # Proc, NEW c \in CPU, proc[c] = NoProc, GetProc(NoProc)
    PROVE  \E d \in CPU \ {c} : proc[d] # NoProc
<1> USE DEF LocalInv, LocalTypes, LoaderInv, Loaded, AllIn
<1>1. \A p \in Proc : ~Ready(p)
  <2>1. \A p \in Proc : Ready(p) => slot[prio[p]] > 0  BY ReadyHasSlot
  <2>2. NoProc \notin Proc  BY SchedAssumption
  <2>3. \A p \in Proc : slot[prio[p]] \in Nat  BY HeldOnce, SchedAssumption
  <2> QED  BY <2>1, <2>2, <2>3, GetCases
<1>2. PICK p \in Proc : p \notin over  OBVIOUS
<1>3. num_processes \in Nat  BY OSAssumption DEF num_processes
<1>4. p \notin {ld_processes[k] : k \in {k \in 1 .. num_processes :
                                      k > li \/ (k = li /\ lpc # "add")}}
  BY <1>3
<1>5. lpc # "add"  BY <1>3
<1>6. ~Proved!Ready(p)
  BY <1>1 DEF Proved!Ready, Ready, Proved!Range, Range
<1>7. p # NoProc  BY SchedAssumption
<1> QED  BY <1>2, <1>4, <1>5, <1>6, <1>7 DEF Proved!KeptInv

\* A step of a CPU leaves nobody alone
LEMMA StopCpu ==
    ASSUME LocalInv, Proved!CInv, Proved!KeptInv, AlignInv, SlotsInv, StopInv,
           NEW c \in CPU, CpuStep(c)
    PROVE  StopInv'
<1> USE DEF LocalInv, LocalTypes, HandInv
<1>1. /\ UNCHANGED <<li, lpc, done>>
      /\ \A d \in CPU \ {c} : proc'[d] = proc[d] /\ cpc'[d] = cpc[d] /\ st'[d] = st[d]
      /\ st'[Loader] = st[Loader]
  BY CpuFrame DEF ld
<1>2. cpc'[c] \in {"detach", "exit"} => done /\ proc'[c] = NoProc
  BY DEF StopInv, CpuStep, GetFirst, Finish, PutBack, PutBackMlq, GetNext, Stay,
     Stop, Idle, Run, CpuArrive, CpuReturn, CpuDetach
<1>3. (st'[c] = "arrived" => cpc'[c] = "wait") /\ (st'[c] = "gone" => cpc'[c] = "exit")
  BY DEF StopInv, CpuStep, GetFirst, Finish, PutBack, PutBackMlq, GetNext, Stay,
     Stop, Idle, Run, CpuArrive, CpuReturn, CpuDetach, Slots!Arrive, Slots!Leave,
     Slots!BTypeOK, slots, Device
<1>4. ASSUME AllIn', over' # Proc PROVE \E d \in CPU : ~GivenUp(d)'
  <2>1. AllIn /\ over # Proc
    <3>1. over \subseteq over' /\ over' \subseteq Proc
      BY DEF CpuStep, GetFirst, Finish, PutBack, PutBackMlq, GetNext, Stay,
         Stop, Idle, Run, CpuArrive, CpuReturn, CpuDetach
    <3> QED  BY <1>1, <1>4, <3>1 DEF AllIn
  <2>2. PICK d \in CPU : ~GivenUp(d)  BY <2>1 DEF StopInv
  <2>3. CASE d # c
    <3>1. ~GivenUp(d)'  BY <1>1, <2>2, <2>3 DEF GivenUp
    <3> QED  BY <3>1
  <2>4. CASE d = c /\ GetNext(c)
    <3>1. PICK res \in Proc \cup {NoProc} :
             GetProc(res) /\ proc' = [proc EXCEPT ![c] = res]
      BY <2>4 DEF GetNext
    <3>2. proc[c] = NoProc /\ cpc'[c] = "check"  BY <2>4 DEF GetNext
    <3>3. CASE res = NoProc
      <4>1. PICK e \in CPU \ {c} : proc[e] # NoProc
        BY <2>1, <3>1, <3>2, <3>3, OthersHold
      <4>2. ~GivenUp(e)'
        <5>1. cpc[e] \notin {"detach", "exit"}  BY <4>1 DEF StopInv
        <5> QED  BY <1>1, <4>1, <5>1 DEF GivenUp
      <4> QED  BY <4>2
    <3>4. CASE res # NoProc
      <4>1. ~GivenUp(c)'  BY <3>1, <3>2, <3>4 DEF GivenUp
      <4> QED  BY <4>1
    <3> QED  BY <3>3, <3>4
  <2>5. CASE d = c /\ ~GetNext(c)
    <3>1. ~GivenUp(c)'
      BY <2>2, <2>5 DEF GivenUp, CpuStep, GetFirst, Finish, PutBack, PutBackMlq,
         Stay, Stop, Idle, Run, CpuArrive, CpuReturn, CpuDetach
    <3> QED  BY <3>1
  <2> QED  BY <2>3, <2>4, <2>5
<1>5. \A d \in CPU : cpc'[d] \in {"detach", "exit"} => done' /\ proc'[d] = NoProc
  BY <1>1, <1>2 DEF StopInv
<1>6. \A d \in CPU : /\ st'[d] = "arrived" => cpc'[d] = "wait"
                     /\ st'[d] = "gone" => cpc'[d] = "exit"
  BY <1>1, <1>3 DEF StopInv
<1>7. done' => lpc' \in {"quit", "exit"} /\ li' > num_processes
  BY <1>1 DEF StopInv
<1> QED  BY <1>4, <1>5, <1>6, <1>7 DEF StopInv

\* Nor does one of the loader: it goes from the last add_proc to `done'
\* through the end of a slot
LEMMA StopLoader ==
    ASSUME LocalInv, StopInv, LoaderStep
    PROVE  StopInv'
<1> USE DEF LocalInv, LocalTypes, LoaderInv, Loaded, cpu, ld
<1>1. UNCHANGED <<cpc, proc, over>>
  BY DEF LoaderStep, LoaderLoad, LoaderWait, LoaderAdd, LoaderAddMlq, LoaderArrive,
     LoaderReturn, SetDone, LoaderDetach
<1>2. \A c \in CPU : st'[c] = st[c]
  BY OSAssumption DEF LoaderStep, LoaderLoad, LoaderWait, LoaderAdd, LoaderAddMlq,
     LoaderArrive, LoaderReturn, SetDone, LoaderDetach, slots, Slots!Arrive,
     Slots!Leave, Slots!BTypeOK, Device
<1>3. done => done'
  BY DEF LoaderStep, LoaderLoad, LoaderWait, LoaderAdd, LoaderAddMlq, LoaderArrive,
     LoaderReturn, SetDone, LoaderDetach
<1>4. done' => lpc' \in {"quit", "exit"} /\ li' > num_processes
  BY DEF StopInv, LoaderStep, LoaderLoad, LoaderWait, LoaderAdd, LoaderAddMlq,
     LoaderArrive, LoaderReturn, SetDone, LoaderDetach
<1>5. num_processes \in Nat  BY OSAssumption DEF num_processes
<1>6. AllIn' => AllIn
  <2> USE DEF AllIn
  <2>1. CASE LoaderLoad  BY <1>5, <2>1 DEF LoaderLoad
  <2>2. CASE LoaderWait  BY <1>5, <2>2 DEF LoaderWait
  <2>3. CASE LoaderAdd  BY <1>5, <2>3 DEF LoaderAdd
  <2>4. CASE LoaderAddMlq  BY <2>4 DEF LoaderAddMlq
  <2>5. CASE LoaderArrive
    <3>1. lpc' = "wait" /\ st'[Loader] = "arrived"
      BY <2>5 DEF LoaderArrive, Slots!Arrive, Slots!BTypeOK, Device
    <3> QED  BY <3>1
  <2>6. CASE LoaderReturn  BY <1>5, <2>6 DEF LoaderReturn
  <2>7. CASE SetDone  BY <2>7 DEF SetDone
  <2>8. CASE LoaderDetach  BY <2>8 DEF LoaderDetach
  <2> QED  BY <2>1, <2>2, <2>3, <2>4, <2>5, <2>6, <2>7, <2>8 DEF LoaderStep
<1>7. \A c \in CPU : GivenUp(c)' <=> GivenUp(c)  BY <1>1 DEF GivenUp
<1> QED  BY <1>1, <1>2, <1>3, <1>4, <1>6, <1>7 DEF StopInv

\* Nor does the end of a slot: who stays on in the next one waits for it
LEMMA StopTick ==
    ASSUME CPU # {}, LocalInv, StopInv, Tick
    PROVE  StopInv'
<1> USE DEF LocalInv, LocalTypes, cpu, ld
<1>1. UNCHANGED <<cpc, proc, over, li, lpc, done>>  BY DEF Tick
<1>2. /\ \A d \in Device : st[d] \in {"arrived", "gone"}
      /\ \A d \in Device : st'[d] = IF st[d] = "arrived" THEN "work" ELSE st[d]
  BY DEF Tick, Slots!Release, Slots!BTypeOK, Slots!Status
<1>3. \A c \in CPU : /\ st'[c] = "arrived" => cpc'[c] = "wait"
                     /\ st'[c] = "gone" => cpc'[c] = "exit"
  BY <1>1, <1>2 DEF StopInv, Device
<1>4. ASSUME AllIn', over' # Proc PROVE \E c \in CPU : ~GivenUp(c)'
  <2>1. \A c \in CPU : GivenUp(c)' <=> GivenUp(c)  BY <1>1 DEF GivenUp
  <2>2. CASE AllIn  BY <1>1, <1>4, <2>1, <2>2 DEF StopInv
  <2>3. CASE ~AllIn
    <3>1. ~done  BY <2>3 DEF StopInv, AllIn
    <3>2. PICK c \in CPU : TRUE  OBVIOUS
    <3>3. cpc[c] # "exit"  BY <3>1 DEF StopInv
    <3>4. cpc[c] = "wait"  BY <1>2, <3>3 DEF StopInv, Device
    <3>5. ~GivenUp(c)  BY <3>4 DEF GivenUp
    <3> QED  BY <2>1, <3>5
  <2> QED  BY <2>2, <2>3
<1> QED  BY <1>1, <1>3, <1>4 DEF StopInv

\* Nor does main
LEMMA StopMain ==
    ASSUME LocalInv, StopInv, MainStep \/ UNCHANGED vars
    PROVE  StopInv'
<1> USE DEF LocalInv, LocalTypes, cpu, ld, slots
<1>1. UNCHANGED <<proc, over, li, done, st>>
  BY DEF MainStep, SpawnLoader, SpawnCpu, Join, vars
<1>2. \A c \in CPU : cpc'[c] = cpc[c] \/ (cpc[c] = "new" /\ cpc'[c] = "top")
  BY DEF MainStep, SpawnLoader, SpawnCpu, Join, vars
<1>3. \A c \in CPU : GivenUp(c)' <=> GivenUp(c)  BY <1>1, <1>2 DEF GivenUp
<1>4. lpc' = lpc \/ (lpc = "new" /\ lpc' = "load")
  BY DEF MainStep, SpawnLoader, SpawnCpu, Join, vars
<1>5. AllIn' => AllIn  BY <1>1, <1>4 DEF AllIn
<1>6. done' => lpc' \in {"quit", "exit"} /\ li' > num_processes
  BY <1>1, <1>4 DEF StopInv
<1> QED  BY <1>1, <1>2, <1>3, <1>5, <1>6 DEF StopInv

\* So every step keeps it
LEMMA StopStep ==
    ASSUME CPU # {}, LocalInv, Proved!CInv, Proved!KeptInv, AlignInv, SlotsInv,
           StopInv, [Next]_vars
    PROVE  StopInv'
  BY StopCpu, StopLoader, StopTick, StopMain DEF Next

\* While the queues have room, no process gets lost between the CPUs
LEMMA KeptByCpus ==
    ASSUME QueueRoom
    PROVE  Spec => []Proved!KeptInv
<1>1. Proved!SchedAssumption
  BY SchedAssumption DEF Proved!SchedAssumption, Proved!Prio, Prio
<1>2. Proved!Room
  <2>1. Proved!IsFiniteSet(Proc)
    BY ProcFinite DEF Proved!IsFiniteSet, IsFiniteSet
  <2>2. Proved!Cardinality(Proc) = Cardinality(Proc)
    BY Zenon DEF Proved!Cardinality, Cardinality
  <2> QED  BY <2>1, <2>2 DEF Proved!Room, QueueRoom
<1>3. Spec => Clients!CSpec
  BY ImplementsClients DEF UsesScheduler
<1>4. Clients!CSpec => Proved!CSpec
  BY SameClients, PTL DEF Clients!CSpec, Proved!CSpec
<1>5. Proved!CSpec => []Proved!KeptInv
  BY <1>1, <1>2, Proved!StillThere
<1> QED  BY <1>3, <1>4, <1>5, PTL

\* With a slot for each quantum and queues that hold all processes, the CPUs
\* stop only when every process has finished
THEOREM NobodyLeftBehind ==
    ASSUME EnoughSlots, QueueRoom, CPU # {}
    PROVE  Spec => []StoppedMeansFinished
<1>1. Init => AlignInv /\ SlotsInv /\ StopInv  BY RoundsInit, StopInit
<1>2. LocalInv /\ Proved!CInv /\ Proved!KeptInv /\ AlignInv /\ SlotsInv /\ StopInv
         /\ [Next]_vars => AlignInv' /\ SlotsInv' /\ StopInv'
  BY RoundsStep, StopStep
<1>3. StopInv => StoppedMeansFinished
  <2> SUFFICES ASSUME StopInv, \A c \in CPU : cpc[c] = "exit" PROVE over = Proc
    BY DEF StoppedMeansFinished
  <2>1. PICK c \in CPU : TRUE  OBVIOUS
  <2>2. done  BY <2>1 DEF StopInv
  <2>3. AllIn  BY <2>2 DEF StopInv, AllIn
  <2>4. \A d \in CPU : GivenUp(d)  BY DEF GivenUp
  <2> QED  BY <2>3, <2>4 DEF StopInv
<1> QED
  BY <1>1, <1>2, <1>3, LocalInvariance, ClientsHold, KeptByCpus, PTL DEF Spec
=============================================================================
