------------------------- MODULE SchedClient_proofs -------------------------
(***************************************************************************)
(* Proofs about SchedClient.tla: however many threads use the scheduler,   *)
(* with any number of priorities, no process is in two places, none gets   *)
(* lost while the queues have room, and each priority is served in order.  *)
(***************************************************************************)
EXTENDS SchedClient, FiniteSetTheorems, SequenceTheorems, WellFoundedInduction, TLAPS

\* Each queue holds processes of its own priority, and none twice
QueuesInv ==
    \A i \in Prio : \A k \in 1 .. Len(mlq_ready_queue[i]) :
        /\ prio[mlq_ready_queue[i][k]] = i
        /\ \A l \in 1 .. Len(mlq_ready_queue[i]) :
              mlq_ready_queue[i][k] = mlq_ready_queue[i][l] => k = l

\* A process that is ready is in no hand and not outside; one in a hand is in
\* no other and not outside; and outside it is in one place only
PlaceInv == \A p \in Proc :
    /\ Ready(p) => p \notin fresh \cup over /\ p # adding /\ \A c \in Caller : hand[c] # p
    /\ \A c \in Caller : hand[c] = p =>
          /\ p \notin fresh \cup over /\ p # adding
          /\ \A d \in Caller : hand[d] = p => c = d
    /\ ~(p \in fresh /\ p \in over)
    /\ p = adding => p \notin fresh \cup over

\* Whoever is in the middle of put_proc has a process
PutInv == \A c \in putting : hand[c] # NoProc

\* The inductive invariant
CInv == CTypeOK /\ QueuesInv /\ PlaceInv /\ PutInv

----------------------------------------------------------------------------
(* The operators of Sched.tla.                                             *)

\* dequeue takes the first of a queue whose processes are of one priority
LEMMA HighestIsFirst ==
    ASSUME NEW q \in Seq(Proc), q # <<>>, NEW i \in Prio,
           \A k \in 1 .. Len(q) : prio[q[k]] = i
    PROVE  Highest(q) = 1
<1> DEFINE P(x) == \A j \in DOMAIN q :
                      \/ prio[q[x]] < prio[q[j]]
                      \/ prio[q[x]] = prio[q[j]] /\ x <= j
<1>1. DOMAIN q = 1 .. Len(q) /\ Len(q) \in Nat /\ Len(q) >= 1
  BY EmptySeq, LenProperties
<1>2. i \in Int  BY SchedAssumption DEF Prio
<1>3. P(1)  BY <1>1, <1>2
<1>4. \A x \in DOMAIN q : P(x) => x <= 1  BY <1>1, <1>2
<1>5. 1 \in DOMAIN q  BY <1>1
<1> HIDE DEF P
<1>6. (CHOOSE x \in DOMAIN q : P(x)) = 1
  <2>1. PICK x : x = (CHOOSE y \in DOMAIN q : P(y))  OBVIOUS
  <2>2. x \in DOMAIN q /\ P(x)  BY <2>1, <1>3, <1>5
  <2> QED  BY <2>1, <2>2, <1>4, <1>1
<1> QED  BY <1>6 DEF Highest, P

\* So it leaves the tail
LEMMA RemainingIsTail ==
    ASSUME NEW q \in Seq(Proc), q # <<>>, Highest(q) = 1
    PROVE  remaining(q) = Tail(q) /\ dequeued(q) = q[1] /\ q[1] \in Proc
<1>1. Len(q) \in Nat /\ Len(q) >= 1  BY EmptySeq, LenProperties
<1>2. q[1] \in Proc  BY <1>1, ElementOfSeq
<1>3. SubSeq(q, 1, 0) = <<>>  BY SubSeqEmpty
<1>4. Tail(q) \in Seq(Proc) /\ Tail(q) = SubSeq(q, 2, Len(q))
  BY HeadTailProperties, TailIsSubSeq
<1>5. <<>> \o Tail(q) = Tail(q)  BY <1>4, ConcatEmptySeq
<1>6. remaining(q) = SubSeq(q, 1, 1 - 1) \o SubSeq(q, 1 + 1, Len(q))
  BY DEF remaining, RemoveAt
<1>7. 1 - 1 = 0 /\ 1 + 1 = 2  OBVIOUS
<1>8. remaining(q) = Tail(q)  BY <1>3, <1>4, <1>5, <1>6, <1>7
<1> QED  BY <1>2, <1>8 DEF dequeued

\* When a priority can be served, one is the most urgent of these
LEMMA MostUrgent ==
    ASSUME Servable # {}
    PROVE  LET i == CHOOSE i \in Servable : \A j \in Servable : i <= j
           IN  i \in Servable
<1>1. Servable \subseteq Nat  BY SchedAssumption DEF Servable, Prio
<1>2. PICK i \in Servable : \A j \in Servable : ~(<<j, i>> \in OpToRel(<, Nat))
  BY <1>1, NatLessThanWellFounded, WFMin, Zenon
<1>3. \A j \in Servable : i <= j
  <2> TAKE j \in Servable
  <2>1. i \in Nat /\ j \in Nat  BY <1>1
  <2>2. ~(j < i)  BY <1>2, <2>1 DEF OpToRel
  <2> QED  BY <2>1, <2>2
<1> QED  BY <1>3

\* A process is ready if it is somewhere in the queue of its priority
LEMMA ReadyMeans ==
    ASSUME NEW p \in Proc, mlq_ready_queue \in [Prio -> Seq(Proc)]
    PROVE  Ready(p) <=> \E k \in 1 .. Len(mlq_ready_queue[prio[p]]) :
                            mlq_ready_queue[prio[p]][k] = p
<1>1. prio[p] \in Prio  BY SchedAssumption
<1>2. DOMAIN mlq_ready_queue[prio[p]] = 1 .. Len(mlq_ready_queue[prio[p]])
  BY <1>1, LenProperties
<1> QED  BY <1>2 DEF Ready, Range

\* get_mlq_proc finds nothing ready; or nobody with a slot, and gives the slots
\* back; or hands out the head of the most urgent queue with a slot
LEMMA GetProcCases ==
    ASSUME SchedTypeOK, QueuesInv, NEW res, GetProc(res)
    PROVE  \/ QueuesEmpty /\ res = NoProc /\ UNCHANGED sched
           \/ /\ ~QueuesEmpty /\ Servable = {}
              /\ res = NoProc
              /\ slot' = [i \in Prio |-> Share(i)]
              /\ UNCHANGED <<mlq_ready_queue, ready_queue, running_list>>
           \/ \E i \in Servable :
                 /\ i \in Prio /\ mlq_ready_queue[i] # <<>> /\ slot[i] > 0
                 /\ res = mlq_ready_queue[i][1] /\ res \in Proc
                 /\ mlq_ready_queue' =
                       [mlq_ready_queue EXCEPT ![i] = Tail(mlq_ready_queue[i])]
                 /\ slot' = [slot EXCEPT ![i] = slot[i] - 1]
                 /\ UNCHANGED <<ready_queue, running_list>>
<1>1. CASE QueuesEmpty
  BY <1>1 DEF GetProc
<1>2. CASE ~QueuesEmpty /\ Servable = {}
  BY <1>2 DEF GetProc
<1>3. CASE ~QueuesEmpty /\ Servable # {}
  <2> DEFINE i == CHOOSE i \in Servable : \A j \in Servable : i <= j
             q == mlq_ready_queue[i]
  <2>1. i \in Servable  BY <1>3, MostUrgent
  <2>2. i \in Prio /\ q # <<>> /\ slot[i] > 0  BY <2>1 DEF Servable, empty
  <2>3. /\ res = dequeued(q)
        /\ mlq_ready_queue' = [mlq_ready_queue EXCEPT ![i] = remaining(q)]
        /\ slot' = [slot EXCEPT ![i] = slot[i] - 1]
        /\ UNCHANGED <<ready_queue, running_list>>
    BY <1>3 DEF GetProc
  <2> HIDE DEF i
  <2>4. q \in Seq(Proc)  BY <2>2 DEF SchedTypeOK
  <2>5. \A k \in 1 .. Len(q) : prio[q[k]] = i  BY <2>2 DEF QueuesInv
  <2>6. Highest(q) = 1  BY <2>2, <2>4, <2>5, HighestIsFirst
  <2>7. remaining(q) = Tail(q) /\ dequeued(q) = q[1] /\ q[1] \in Proc
    BY <2>2, <2>4, <2>6, RemainingIsTail
  <2> QED  BY <2>1, <2>2, <2>3, <2>7
<1> QED  BY <1>1, <1>2, <1>3

\* get_mlq_proc hands out the head of a queue, or nothing
LEMMA GetProcEffect ==
    ASSUME SchedTypeOK, QueuesInv, NEW res, GetProc(res)
    PROVE  /\ \/ res = NoProc /\ UNCHANGED mlq_ready_queue
              \/ \E i \in Prio :
                    /\ mlq_ready_queue[i] # <<>>
                    /\ res = mlq_ready_queue[i][1]
                    /\ mlq_ready_queue' =
                          [mlq_ready_queue EXCEPT ![i] = Tail(mlq_ready_queue[i])]
           /\ slot' \in [Prio -> Nat] /\ \A i \in Prio : slot'[i] <= Share(i)
           /\ UNCHANGED <<ready_queue, running_list>>
<1> USE DEF SchedTypeOK
<1>1. \A i \in Prio : Share(i) \in Nat  BY SchedAssumption DEF Share, Prio
<1>2. CASE QueuesEmpty /\ res = NoProc /\ UNCHANGED sched
  BY <1>2 DEF sched
<1>3. CASE /\ res = NoProc
           /\ slot' = [i \in Prio |-> Share(i)]
           /\ UNCHANGED <<mlq_ready_queue, ready_queue, running_list>>
  BY <1>1, <1>3
<1>4. ASSUME NEW i \in Prio, slot[i] > 0, slot' = [slot EXCEPT ![i] = slot[i] - 1]
      PROVE  slot' \in [Prio -> Nat] /\ \A j \in Prio : slot'[j] <= Share(j)
  <2>1. slot[i] \in Nat /\ slot[i] - 1 \in Nat  BY <1>4
  <2> QED  BY <1>1, <1>4, <2>1
<1> QED  BY <1>2, <1>3, <1>4, GetProcCases

\* What that does to who is ready
LEMMA ServeQueues ==
    ASSUME mlq_ready_queue \in [Prio -> Seq(Proc)], QueuesInv,
           NEW i \in Prio, mlq_ready_queue[i] # <<>>,
           NEW h, h = mlq_ready_queue[i][1],
           mlq_ready_queue' = [mlq_ready_queue EXCEPT ![i] = Tail(mlq_ready_queue[i])]
    PROVE  /\ h \in Proc /\ Ready(h) /\ ~Ready(h)'
           /\ \A p \in Proc : p # h => (Ready(p)' <=> Ready(p))
           /\ mlq_ready_queue' \in [Prio -> Seq(Proc)]
           /\ \A j \in Prio : Len(mlq_ready_queue'[j]) <= Len(mlq_ready_queue[j])
           /\ QueuesInv'
<1> DEFINE q == mlq_ready_queue[i]
<1>1. /\ q \in Seq(Proc) /\ Len(q) \in Nat /\ Len(q) >= 1
      /\ Tail(q) \in Seq(Proc) /\ Len(Tail(q)) = Len(q) - 1
      /\ \A k \in 1 .. Len(Tail(q)) : Tail(q)[k] = q[k + 1]
  BY EmptySeq, LenProperties, HeadTailProperties
<1>2. h \in Proc /\ prio[h] = i  BY <1>1, ElementOfSeq DEF QueuesInv
<1>3. mlq_ready_queue' \in [Prio -> Seq(Proc)]  BY <1>1
<1>4. \A j \in Prio : mlq_ready_queue'[j] =
                          IF j = i THEN Tail(q) ELSE mlq_ready_queue[j]
  OBVIOUS
<1>5. \A j \in Prio : Len(mlq_ready_queue[j]) \in Nat  BY LenProperties
<1>6. \A j \in Prio : Len(mlq_ready_queue'[j]) <= Len(mlq_ready_queue[j])
  BY <1>1, <1>4, <1>5
<1>7. QueuesInv'
  <2> SUFFICES ASSUME NEW j \in Prio, NEW k \in 1 .. Len(mlq_ready_queue'[j])
               PROVE  /\ prio[mlq_ready_queue'[j][k]] = j
                      /\ \A l \in 1 .. Len(mlq_ready_queue'[j]) :
                            mlq_ready_queue'[j][k] = mlq_ready_queue'[j][l] => k = l
    BY DEF QueuesInv
  <2>1. CASE j = i
    <3>1. mlq_ready_queue'[j] = Tail(q)  BY <1>4, <2>1
    <3>2. \A l \in 1 .. Len(Tail(q)) : l + 1 \in 1 .. Len(q) /\ Tail(q)[l] = q[l + 1]
      BY <1>1
    <3>3. \A l \in 1 .. Len(q) : prio[q[l]] = i  BY DEF QueuesInv
    <3>4. \A l, m \in 1 .. Len(q) : q[l] = q[m] => l = m  BY DEF QueuesInv
    <3>5. k \in 1 .. Len(Tail(q)) /\ prio[Tail(q)[k]] = i  BY <3>1, <3>2, <3>3
    <3>6. ASSUME NEW l \in 1 .. Len(Tail(q)), Tail(q)[k] = Tail(q)[l] PROVE k = l
      <4>1. k + 1 = l + 1  BY <3>2, <3>4, <3>5, <3>6
      <4> QED  BY <4>1, <1>1, <3>5
    <3> HIDE DEF q
    <3> QED  BY <2>1, <3>1, <3>5, <3>6
  <2>2. CASE j # i  BY <1>4, <2>2 DEF QueuesInv
  <2> QED  BY <2>1, <2>2
<1>8. \A p \in Proc : prio[p] \in Prio  BY SchedAssumption
<1>9. Ready(h)  BY <1>1, <1>2, ReadyMeans
<1>10. \A p \in Proc : Ready(p)' <=>
          \E k \in 1 .. Len(mlq_ready_queue'[prio[p]]) : mlq_ready_queue'[prio[p]][k] = p
  <2> TAKE p \in Proc
  <2>1. DOMAIN mlq_ready_queue'[prio[p]] = 1 .. Len(mlq_ready_queue'[prio[p]])
    BY <1>3, <1>8, LenProperties
  <2> QED  BY <2>1 DEF Ready, Range
<1>11. ~Ready(h)'
  <2>0. Ready(h)' <=> \E k \in 1 .. Len(Tail(q)) : Tail(q)[k] = h
    <3>1. mlq_ready_queue'[prio[h]] = Tail(q)  BY <1>2, <1>4
    <3>2. Ready(h)' <=>
            \E k \in 1 .. Len(mlq_ready_queue'[prio[h]]) : mlq_ready_queue'[prio[h]][k] = h
      BY Zenon, <1>2, <1>10
    <3> QED  BY Zenon, <3>1, <3>2
  <2> SUFFICES ASSUME NEW k \in 1 .. Len(Tail(q)), Tail(q)[k] = h PROVE FALSE
    BY <2>0
  <2>1. k + 1 \in 1 .. Len(q) /\ 1 \in 1 .. Len(q) /\ q[k + 1] = q[1]  BY <1>1
  <2>2. \A l, m \in 1 .. Len(q) : q[l] = q[m] => l = m  BY DEF QueuesInv
  <2>3. k + 1 = 1 /\ k \in Nat /\ k >= 1  BY <1>1, <2>1, <2>2
  <2> QED  BY <2>3
<1>12. ASSUME NEW p \in Proc, p # h PROVE Ready(p)' <=> Ready(p)
  <2>1. CASE prio[p] = i
    <3>1. ASSUME NEW k \in 1 .. Len(Tail(q)), Tail(q)[k] = p PROVE Ready(p)
      <4>1. k + 1 \in 1 .. Len(q) /\ q[k + 1] = p  BY <1>1, <3>1
      <4> QED  BY <2>1, <4>1, ReadyMeans
    <3>2. ASSUME NEW k \in 1 .. Len(q), q[k] = p
          PROVE  \E l \in 1 .. Len(Tail(q)) : Tail(q)[l] = p
      <4>1. k # 1  BY <3>2, <1>12
      <4>2. k - 1 \in 1 .. Len(Tail(q)) /\ (k - 1) + 1 = k  BY <1>1, <4>1
      <4>3. Tail(q)[k - 1] = q[k]  BY <1>1, <4>2
      <4> HIDE DEF q
      <4> QED  BY <3>2, <4>2, <4>3
    <3>3. mlq_ready_queue'[prio[p]] = Tail(q)  BY <1>4, <2>1
    <3>4. Ready(p)' <=> \E l \in 1 .. Len(Tail(q)) : Tail(q)[l] = p  BY <1>10, <3>3
    <3>5. Ready(p) <=> \E l \in 1 .. Len(q) : q[l] = p  BY <2>1, ReadyMeans
    <3> HIDE DEF q
    <3> QED  BY <3>1, <3>2, <3>4, <3>5
  <2>2. CASE prio[p] # i
    <3>1. mlq_ready_queue'[prio[p]] = mlq_ready_queue[prio[p]]  BY <1>4, <1>8, <2>2
    <3> QED  BY <3>1 DEF Ready
  <2> QED  BY <2>1, <2>2
<1> QED  BY <1>2, <1>3, <1>6, <1>7, <1>9, <1>11, <1>12

\* put_mlq_proc and add_mlq_proc of a process that is not in a queue
LEMMA EnqueueQueues ==
    ASSUME mlq_ready_queue \in [Prio -> Seq(Proc)], QueuesInv,
           \A j \in Prio : Len(mlq_ready_queue[j]) <= MAX_QUEUE_SIZE,
           NEW p \in Proc, ~Ready(p), EnqueueMlq(p)
    PROVE  /\ \A r \in Proc : r # p => (Ready(r)' <=> Ready(r))
           /\ Len(mlq_ready_queue[prio[p]]) < MAX_QUEUE_SIZE => Ready(p)'
           /\ mlq_ready_queue' \in [Prio -> Seq(Proc)]
           /\ \A j \in Prio : Len(mlq_ready_queue'[j]) <= MAX_QUEUE_SIZE
           /\ QueuesInv'
<1> DEFINE i == prio[p]
           q == mlq_ready_queue[i]
<1>1. i \in Prio /\ q \in Seq(Proc) /\ Len(q) \in Nat /\ MAX_QUEUE_SIZE \in Nat
  BY SchedAssumption, LenProperties
<1>2. mlq_ready_queue' = [mlq_ready_queue EXCEPT ![i] = enqueue(q, p)]
  BY DEF EnqueueMlq
<1>3. CASE ~(Len(q) < MAX_QUEUE_SIZE)
  <2>1. mlq_ready_queue' = mlq_ready_queue  BY <1>1, <1>2, <1>3 DEF enqueue
  <2>2. QueuesInv'  BY <2>1 DEF QueuesInv
  <2>3. \A r \in Proc : Ready(r)' <=> Ready(r)  BY <2>1 DEF Ready
  <2> QED  BY <1>3, <2>1, <2>2, <2>3
<1>4. CASE Len(q) < MAX_QUEUE_SIZE
  <2> DEFINE a == Append(q, p)
  <2>1. \A j \in Prio : mlq_ready_queue'[j] = IF j = i THEN a ELSE mlq_ready_queue[j]
    BY <1>2, <1>4 DEF enqueue
  <2>2. /\ a \in Seq(Proc) /\ Len(a) = Len(q) + 1 /\ a[Len(q) + 1] = p
        /\ \A k \in 1 .. Len(q) : a[k] = q[k]
    BY <1>1
  <2> HIDE DEF a
  <2>3. mlq_ready_queue' \in [Prio -> Seq(Proc)]  BY <1>2, <1>4, <2>2 DEF enqueue, a
  <2>4. \A j \in Prio : Len(mlq_ready_queue'[j]) <= MAX_QUEUE_SIZE
    BY <1>1, <1>4, <2>1, <2>2
  <2>5. \A k \in 1 .. Len(q) : q[k] # p  BY ReadyMeans
  <2>6. QueuesInv'
    <3> SUFFICES ASSUME NEW j \in Prio, NEW k \in 1 .. Len(mlq_ready_queue'[j])
                 PROVE  /\ prio[mlq_ready_queue'[j][k]] = j
                        /\ \A l \in 1 .. Len(mlq_ready_queue'[j]) :
                              mlq_ready_queue'[j][k] = mlq_ready_queue'[j][l] => k = l
      BY DEF QueuesInv
    <3>1. CASE j = i
      <4>1. mlq_ready_queue'[j] = a  BY <2>1, <3>1
      <4>2. \A l \in 1 .. Len(a) : l \in 1 .. Len(q) \/ l = Len(q) + 1  BY <1>1, <2>2
      <4>3. \A l \in 1 .. Len(q) : prio[q[l]] = i  BY <1>1 DEF QueuesInv
      <4>4. \A l, m \in 1 .. Len(q) : q[l] = q[m] => l = m  BY <1>1 DEF QueuesInv
      <4>5. \A l \in 1 .. Len(a) : prio[a[l]] = i  BY <2>2, <4>2, <4>3
      <4>6. ASSUME NEW l \in 1 .. Len(a), NEW m \in 1 .. Len(a), a[l] = a[m]
            PROVE  l = m
        <5>1. l \in 1 .. Len(q) => a[l] = q[l] /\ a[l] # p  BY <2>2, <2>5
        <5>2. m \in 1 .. Len(q) => a[m] = q[m] /\ a[m] # p  BY <2>2, <2>5
        <5>3. l = Len(q) + 1 => a[l] = p  BY <2>2
        <5>4. m = Len(q) + 1 => a[m] = p  BY <2>2
        <5> QED  BY Zenon, <4>2, <4>4, <4>6, <5>1, <5>2, <5>3, <5>4
      <4>7. k \in 1 .. Len(a)  BY <4>1
      <4> QED  BY Zenon, <3>1, <4>1, <4>5, <4>6, <4>7
    <3>2. CASE j # i  BY <2>1, <3>2 DEF QueuesInv
    <3> QED  BY <3>1, <3>2
  <2>7. \A r \in Proc : prio[r] \in Prio  BY SchedAssumption
  <2>8. \A r \in Proc : Ready(r)' <=>
          \E k \in 1 .. Len(mlq_ready_queue'[prio[r]]) : mlq_ready_queue'[prio[r]][k] = r
    <3> TAKE r \in Proc
    <3>1. DOMAIN mlq_ready_queue'[prio[r]] = 1 .. Len(mlq_ready_queue'[prio[r]])
      BY <2>3, <2>7, LenProperties
    <3> QED  BY <3>1 DEF Ready, Range
  <2>9. Ready(p)'
    <3>1. Len(q) + 1 \in 1 .. Len(a)  BY <1>1, <2>2
    <3> QED  BY <1>1, <2>1, <2>2, <2>8, <3>1
  <2>10. ASSUME NEW r \in Proc, r # p PROVE Ready(r)' <=> Ready(r)
    <3>1. CASE prio[r] = i
      <4>1. \A l \in 1 .. Len(a) : l \in 1 .. Len(q) \/ l = Len(q) + 1  BY <1>1, <2>2
      <4>2. \A l \in 1 .. Len(q) : l \in 1 .. Len(a)  BY <1>1, <2>2
      <4>3. (\E k \in 1 .. Len(a) : a[k] = r) <=> (\E k \in 1 .. Len(q) : q[k] = r)
        BY <2>2, <2>10, <4>1, <4>2
      <4> QED  BY <1>1, <2>1, <2>8, <3>1, <4>3, ReadyMeans
    <3>2. CASE prio[r] # i
      <4>1. mlq_ready_queue'[prio[r]] = mlq_ready_queue[prio[r]]  BY <2>1, <2>7, <3>2
      <4> QED  BY <2>8, <4>1, ReadyMeans
    <3> QED  BY <3>1, <3>2
  <2> QED  BY <2>3, <2>4, <2>6, <2>9, <2>10
<1> QED  BY <1>3, <1>4

----------------------------------------------------------------------------
(* The invariant.                                                          *)

\* The invariant holds at the start: every process is outside
LEMMA CInitCInv == CInit => CInv
<1> SUFFICES ASSUME CInit PROVE CInv
  OBVIOUS
<1> USE SchedAssumption DEF CInit, SchedInit
<1>1. \A i \in Prio : Share(i) \in Nat  BY DEF Share, Prio
<1>2. /\ mlq_ready_queue \in [Prio -> Seq(Proc)] /\ <<>> \in Seq(Proc)
      /\ \A i \in Prio : mlq_ready_queue[i] = <<>> /\ DOMAIN mlq_ready_queue[i] = {}
      /\ Len(<<>>) = 0
  BY EmptySeq
<1>3. CTypeOK
  <2>1. Range(mlq_ready_queue) \subseteq {<<>>}  BY <1>2 DEF Range
  <2>2. SchedTypeOK  BY <1>1, <1>2, <2>1 DEF SchedTypeOK
  <2> QED  BY <2>2 DEF CTypeOK
<1>4. \A p \in Proc : ~Ready(p)  BY <1>2 DEF Ready, Range
<1>5. QueuesInv  BY <1>2 DEF QueuesInv
<1>6. PlaceInv  BY <1>4 DEF PlaceInv
<1>7. PutInv  BY DEF PutInv
<1> QED  BY <1>3, <1>5, <1>6, <1>7 DEF CInv

\* What the types say of the queues, one by one
LEMMA QueueTypes ==
    ASSUME SchedTypeOK
    PROVE  /\ mlq_ready_queue \in [Prio -> Seq(Proc)]
           /\ \A i \in Prio : Len(mlq_ready_queue[i]) <= MAX_QUEUE_SIZE
           /\ ready_queue \in Seq(Proc) /\ Len(ready_queue) <= MAX_QUEUE_SIZE
           /\ running_list \in Seq(Proc) /\ Len(running_list) <= MAX_QUEUE_SIZE
<1>1. mlq_ready_queue \in [Prio -> Seq(Proc)]  BY DEF SchedTypeOK
<1>2. \A i \in Prio : mlq_ready_queue[i] \in Range(mlq_ready_queue)
  BY <1>1 DEF Range
<1> QED  BY <1>1, <1>2 DEF SchedTypeOK

\* enqueue keeps the type and the capacity
LEMMA EnqueueTypes ==
    ASSUME NEW q \in Seq(Proc), Len(q) <= MAX_QUEUE_SIZE, NEW p \in Proc
    PROVE  enqueue(q, p) \in Seq(Proc) /\ Len(enqueue(q, p)) <= MAX_QUEUE_SIZE
<1>1. Len(q) \in Nat /\ MAX_QUEUE_SIZE \in Nat  BY SchedAssumption, LenProperties
<1>2. Append(q, p) \in Seq(Proc) /\ Len(Append(q, p)) = Len(q) + 1  OBVIOUS
<1> QED  BY <1>1, <1>2 DEF enqueue

\* get_proc keeps the invariant: what leaves a queue was there once, so it is
\* in no queue and in no other hand afterwards
LEMMA GetStep ==
    ASSUME CInv, NEW c \in Caller, Get(c)
    PROVE  CInv'
<1> USE DEF CInv
<1>1. PICK res \in Proc \cup {NoProc} : GetProc(res) /\ hand' = [hand EXCEPT ![c] = res]
  BY DEF Get
<1>2. SchedTypeOK  BY DEF CTypeOK
<1>3. /\ hand[c] = NoProc /\ c \notin putting
      /\ UNCHANGED <<putting, fresh, adding, over>>
  BY DEF Get, PutInv
<1>4. /\ slot' \in [Prio -> Nat] /\ \A i \in Prio : slot'[i] <= Share(i)
      /\ UNCHANGED <<ready_queue, running_list>>
  BY <1>1, <1>2, GetProcEffect
<1>5. \/ res = NoProc /\ UNCHANGED mlq_ready_queue
      \/ \E i \in Prio :
            /\ mlq_ready_queue[i] # <<>>
            /\ res = mlq_ready_queue[i][1]
            /\ mlq_ready_queue' = [mlq_ready_queue EXCEPT ![i] = Tail(mlq_ready_queue[i])]
  BY <1>1, <1>2, GetProcEffect
<1>6. /\ mlq_ready_queue' \in [Prio -> Seq(Proc)]
      /\ \A i \in Prio : mlq_ready_queue'[i] \in Seq(Proc)
      /\ \A i \in Prio : Len(mlq_ready_queue'[i]) <= Len(mlq_ready_queue[i])
      /\ QueuesInv'
      /\ res # NoProc => res \in Proc /\ Ready(res) /\ ~Ready(res)'
      /\ \A p \in Proc : p # res => (Ready(p)' <=> Ready(p))
  <2>1. \A i \in Prio : Len(mlq_ready_queue[i]) \in Nat
    BY <1>2, QueueTypes, LenProperties
  <2>2. CASE res = NoProc /\ UNCHANGED mlq_ready_queue
    BY <1>2, <2>1, <2>2, QueueTypes DEF QueuesInv, Ready
  <2>3. ASSUME NEW i \in Prio, mlq_ready_queue[i] # <<>>, res = mlq_ready_queue[i][1],
               mlq_ready_queue' = [mlq_ready_queue EXCEPT ![i] = Tail(mlq_ready_queue[i])]
        PROVE  <1>6!:
    <3>1. mlq_ready_queue \in [Prio -> Seq(Proc)]  BY <1>2, QueueTypes
    <3>2. /\ res \in Proc /\ Ready(res) /\ ~Ready(res)'
          /\ \A p \in Proc : p # res => (Ready(p)' <=> Ready(p))
          /\ mlq_ready_queue' \in [Prio -> Seq(Proc)]
          /\ \A j \in Prio : Len(mlq_ready_queue'[j]) <= Len(mlq_ready_queue[j])
          /\ QueuesInv'
      BY <2>3, <3>1, ServeQueues
    <3> QED  BY <3>2
  <2> QED  BY <1>5, <2>2, <2>3
<1>7. \A d \in Caller : hand'[d] = IF d = c THEN res ELSE hand[d]
  BY <1>1 DEF CTypeOK
<1>8. CTypeOK'
  <2>1. \A i \in Prio : Len(mlq_ready_queue'[i]) <= MAX_QUEUE_SIZE
    <3> TAKE i \in Prio
    <3>1. Len(mlq_ready_queue[i]) \in Nat /\ Len(mlq_ready_queue'[i]) \in Nat
      BY <1>2, <1>6, QueueTypes, LenProperties
    <3>2. Len(mlq_ready_queue[i]) <= MAX_QUEUE_SIZE /\ MAX_QUEUE_SIZE \in Nat
      BY <1>2, QueueTypes, SchedAssumption
    <3> QED  BY <1>6, <3>1, <3>2
  <2>2. \A q \in Range(mlq_ready_queue)' : Len(q) <= MAX_QUEUE_SIZE
    BY <1>6, <2>1 DEF Range
  <2>3. ready_queue \in Seq(Proc) /\ Len(ready_queue) <= MAX_QUEUE_SIZE
    BY <1>2, QueueTypes
  <2>4. running_list \in Seq(Proc) /\ Len(running_list) <= MAX_QUEUE_SIZE
    BY <1>2, QueueTypes
  <2>5. SchedTypeOK'
    BY <1>4, <1>6, <2>2, <2>3, <2>4 DEF SchedTypeOK, Share
  <2> QED  BY <1>1, <1>3, <2>5 DEF CTypeOK
<1>9. PlaceInv'
  <2> SUFFICES ASSUME NEW p \in Proc PROVE PlaceInv!(p)'
    BY DEF PlaceInv
  <2>1. CASE p = res
    <3>1. Ready(p) /\ ~Ready(p)' /\ p # NoProc  BY <1>6, <2>1, SchedAssumption
    <3>2. /\ p \notin fresh \cup over /\ p # adding
          /\ \A d \in Caller : hand[d] # p
      BY <3>1 DEF PlaceInv
    <3>3. \A d \in Caller : hand'[d] = p => d = c  BY <1>7, <3>2
    <3> QED  BY <1>3, <3>1, <3>2, <3>3
  <2>2. CASE p # res
    <3>1. Ready(p)' <=> Ready(p)  BY <1>6, <2>2
    <3>2. \A d \in Caller : hand'[d] = p => hand[d] = p  BY <1>7, <2>2
    <3>3. PlaceInv!(p)  BY DEF PlaceInv
    <3> QED  BY <1>3, <3>1, <3>2, <3>3
  <2> QED  BY <2>1, <2>2
<1>10. PutInv'  BY <1>3, <1>7 DEF PutInv, CTypeOK
<1> QED  BY <1>6, <1>8, <1>9, <1>10

\* So does the end of a process
LEMMA DiscardStep ==
    ASSUME CInv, NEW c \in Caller, Discard(c)
    PROVE  CInv'
<1> USE DEF CInv, Discard
<1>1. PICK p \in Proc : p = hand[c]  BY DEF CTypeOK
<1>2. /\ UNCHANGED <<mlq_ready_queue, slot, ready_queue, running_list>>
      /\ \A d \in Caller : hand'[d] = IF d = c THEN NoProc ELSE hand[d]
      /\ \A r \in Proc : Ready(r)' <=> Ready(r)
  BY DEF sched, CTypeOK, Ready
<1>3. CTypeOK'  BY <1>1, <1>2 DEF CTypeOK, SchedTypeOK, Range
<1>4. QueuesInv'  BY <1>2 DEF QueuesInv
<1>5. PlaceInv'
  <2> SUFFICES ASSUME NEW r \in Proc PROVE PlaceInv!(r)'
    BY DEF PlaceInv
  <2> QED  BY <1>1, <1>2, SchedAssumption DEF PlaceInv
<1>6. PutInv'  BY <1>2 DEF PutInv, CTypeOK
<1> QED  BY <1>3, <1>4, <1>5, <1>6

\* So does the first half of put_proc, which only marks the caller
LEMMA PutFirstStep ==
    ASSUME CInv, NEW c \in Caller, PutFirst(c)
    PROVE  CInv'
<1> USE DEF CInv
<1>1. PICK p \in Proc : p = hand[c]  BY DEF PutFirst, CTypeOK
<1>2. /\ UNCHANGED <<mlq_ready_queue, slot, running_list, hand, fresh, adding, over>>
      /\ putting' = putting \cup {c}
      /\ ready_queue' = enqueue(ready_queue, p)
      /\ \A r \in Proc : Ready(r)' <=> Ready(r)
  BY <1>1 DEF PutFirst, PutReady, Ready
<1>3. CTypeOK'
  <2>1. ready_queue' \in Seq(Proc) /\ Len(ready_queue') <= MAX_QUEUE_SIZE
    BY <1>2, QueueTypes, EnqueueTypes DEF CTypeOK
  <2> QED  BY <1>2, <2>1 DEF CTypeOK, SchedTypeOK, Range
<1>4. QueuesInv'  BY <1>2 DEF QueuesInv
<1>5. PlaceInv'  BY <1>2 DEF PlaceInv
<1>6. PutInv'  BY <1>2 DEF PutInv, PutFirst
<1> QED  BY <1>3, <1>4, <1>5, <1>6

\* A process that is in no queue can be queued: types, capacity and the
\* contents of the queues stay right, and no other process moves
LEMMA EnqueueTypeStep ==
    ASSUME CInv, NEW p \in Proc, ~Ready(p), EnqueueMlq(p)
    PROVE  /\ SchedTypeOK' /\ QueuesInv'
           /\ \A r \in Proc : r # p => (Ready(r)' <=> Ready(r))
<1>1. SchedTypeOK /\ QueuesInv  BY DEF CInv, CTypeOK
<1>2. /\ mlq_ready_queue \in [Prio -> Seq(Proc)]
      /\ \A j \in Prio : Len(mlq_ready_queue[j]) <= MAX_QUEUE_SIZE
  BY <1>1, QueueTypes
<1>3. /\ \A r \in Proc : r # p => (Ready(r)' <=> Ready(r))
      /\ mlq_ready_queue' \in [Prio -> Seq(Proc)]
      /\ \A j \in Prio : Len(mlq_ready_queue'[j]) <= MAX_QUEUE_SIZE
      /\ QueuesInv'
  BY <1>1, <1>2, EnqueueQueues
<1>4. \A q \in Range(mlq_ready_queue)' : Len(q) <= MAX_QUEUE_SIZE
  BY <1>3 DEF Range
<1>5. UNCHANGED <<slot, ready_queue, running_list>>  BY DEF EnqueueMlq
<1>6. SchedTypeOK'  BY <1>1, <1>3, <1>4, <1>5 DEF SchedTypeOK, Share
<1> QED  BY <1>3, <1>6

\* The second half of put_proc keeps the invariant
LEMMA PutSecondStep ==
    ASSUME CInv, NEW c \in Caller, PutSecond(c)
    PROVE  CInv'
<1> USE DEF CInv
<1>1. PICK p \in Proc : p = hand[c]  BY DEF PutSecond, CTypeOK, PutInv
<1>2. EnqueueMlq(p) /\ ~Ready(p)  BY <1>1 DEF PutSecond, PlaceInv
<1>3. /\ SchedTypeOK' /\ QueuesInv'
      /\ \A r \in Proc : r # p => (Ready(r)' <=> Ready(r))
  BY <1>2, EnqueueTypeStep
<1>4. /\ UNCHANGED <<fresh, adding, over>>
      /\ putting' = putting \ {c}
      /\ \A d \in Caller : hand'[d] = IF d = c THEN NoProc ELSE hand[d]
  BY DEF PutSecond, CTypeOK
<1>5. CTypeOK'  BY <1>3 DEF PutSecond, CTypeOK
<1>6. PlaceInv'
  <2> SUFFICES ASSUME NEW r \in Proc PROVE PlaceInv!(r)'
    BY DEF PlaceInv
  <2>1. CASE r = p  BY <1>1, <1>4, <2>1, SchedAssumption DEF PlaceInv
  <2>2. CASE r # p  BY <1>3, <1>4, <2>2, SchedAssumption DEF PlaceInv
  <2> QED  BY <2>1, <2>2
<1>7. PutInv'  BY <1>4 DEF PutInv, CTypeOK
<1> QED  BY <1>3, <1>5, <1>6, <1>7

\* So does the first half of add_proc
LEMMA AddFirstStep ==
    ASSUME CInv, NEW p \in Proc, AddFirst(p)
    PROVE  CInv'
<1> USE DEF CInv
<1>1. /\ UNCHANGED <<mlq_ready_queue, slot, ready_queue, hand, putting, over>>
      /\ running_list' = enqueue(running_list, p)
      /\ p \in fresh /\ fresh' = fresh \ {p} /\ adding = NoProc /\ adding' = p
      /\ \A r \in Proc : Ready(r)' <=> Ready(r)
  BY DEF AddFirst, AddRunning, Ready
<1>2. CTypeOK'
  <2>1. running_list' \in Seq(Proc) /\ Len(running_list') <= MAX_QUEUE_SIZE
    BY <1>1, QueueTypes, EnqueueTypes DEF CTypeOK
  <2> QED  BY <1>1, <2>1 DEF CTypeOK, SchedTypeOK, Range
<1>3. QueuesInv'  BY <1>1 DEF QueuesInv
<1>4. PlaceInv'
  <2> SUFFICES ASSUME NEW r \in Proc PROVE PlaceInv!(r)'
    BY DEF PlaceInv
  <2> QED  BY <1>1 DEF PlaceInv
<1>5. PutInv'  BY <1>1 DEF PutInv
<1> QED  BY <1>2, <1>3, <1>4, <1>5

\* So does the second
LEMMA AddSecondStep ==
    ASSUME CInv, AddSecond
    PROVE  CInv'
<1> USE DEF CInv
<1>1. PICK p \in Proc : p = adding  BY DEF AddSecond, CTypeOK
<1>2. EnqueueMlq(p) /\ ~Ready(p)  BY <1>1 DEF AddSecond, PlaceInv
<1>3. /\ SchedTypeOK' /\ QueuesInv'
      /\ \A r \in Proc : r # p => (Ready(r)' <=> Ready(r))
  BY <1>2, EnqueueTypeStep
<1>4. UNCHANGED <<hand, putting, fresh, over>> /\ adding' = NoProc
  BY DEF AddSecond
<1>5. CTypeOK'  BY <1>3, <1>4 DEF CTypeOK
<1>6. PlaceInv'
  <2> SUFFICES ASSUME NEW r \in Proc PROVE PlaceInv!(r)'
    BY DEF PlaceInv
  <2>1. CASE r = p  BY <1>1, <1>4, <2>1, SchedAssumption DEF PlaceInv
  <2>2. CASE r # p  BY <1>3, <1>4, <2>2, SchedAssumption DEF PlaceInv
  <2> QED  BY <2>1, <2>2
<1>7. PutInv'  BY <1>4 DEF PutInv
<1> QED  BY <1>3, <1>5, <1>6, <1>7

\* So does every step
LEMMA CInvStep == CInv /\ [CNext]_cvars => CInv'
<1> SUFFICES ASSUME CInv, [CNext]_cvars PROVE CInv'
  OBVIOUS
<1>1. ASSUME NEW c \in Caller, CallerStep(c) PROVE CInv'
  BY <1>1, GetStep, DiscardStep, PutFirstStep, PutSecondStep DEF CallerStep
<1>2. ASSUME NEW p \in Proc, AddFirst(p) PROVE CInv'  BY <1>2, AddFirstStep
<1>3. CASE AddSecond  BY <1>3, AddSecondStep
<1>4. CASE UNCHANGED cvars
  BY <1>4 DEF cvars, sched, CInv, CTypeOK, SchedTypeOK, QueuesInv, PlaceInv, PutInv,
              Ready, Range
<1> QED  BY <1>1, <1>2, <1>3, <1>4 DEF CNext

----------------------------------------------------------------------------
(* The theorems.                                                           *)

\* Whatever threads use the scheduler as they are meant to, its invariant
\* holds
THEOREM ClientInvariance == CSpec => []CInv
<1> QED  BY CInitCInv, CInvStep, PTL DEF CSpec

\* The types are right, and no queue holds more than its array has places
THEOREM ClientTypeCorrect == CSpec => []CTypeOK
<1>1. CInv => CTypeOK  BY DEF CInv
<1> QED  BY <1>1, ClientInvariance, PTL

----------------------------------------------------------------------------
(* Who came first is served first.                                         *)

\* A process that is at place k of a queue without repetitions is there only
LEMMA PlaceInQueue ==
    ASSUME NEW q \in Seq(Proc), NEW p \in Proc, NEW k \in 1 .. Len(q), q[k] = p,
           \A l, m \in 1 .. Len(q) : q[l] = q[m] => l = m
    PROVE  (CHOOSE l \in DOMAIN q : q[l] = p) = k
<1>1. DOMAIN q = 1 .. Len(q)  BY LenProperties
<1>2. \A l \in DOMAIN q : q[l] = p => l = k  BY <1>1
<1> QED  BY <1>1, <1>2

\* q is nearer to the head of the queue s than p
Before(s, q, p) ==
    \E m, k \in 1 .. Len(s) : m < k /\ s[m] = q /\ s[k] = p

\* That is what Ahead says, now and after a step
LEMMA PlacesInOrder ==
    ASSUME NEW s \in Seq(Proc), NEW p \in Proc, NEW q \in Proc,
           \A l, m \in 1 .. Len(s) : s[l] = s[m] => l = m
    PROVE  (/\ q \in Range(s) /\ p \in Range(s)
            /\ (CHOOSE l \in DOMAIN s : s[l] = q) < (CHOOSE l \in DOMAIN s : s[l] = p))
           <=> Before(s, q, p)
<1>1. DOMAIN s = 1 .. Len(s) /\ Len(s) \in Nat  BY LenProperties
<1>2. \A r \in Proc : r \in Range(s) <=> \E k \in 1 .. Len(s) : s[k] = r
  BY <1>1 DEF Range
<1>3. \A r \in Proc : \A k \in 1 .. Len(s) :
         s[k] = r => (CHOOSE l \in DOMAIN s : s[l] = r) = k
  BY PlaceInQueue
<1>4. ASSUME Before(s, q, p)
      PROVE  /\ q \in Range(s) /\ p \in Range(s)
             /\ (CHOOSE l \in DOMAIN s : s[l] = q) < (CHOOSE l \in DOMAIN s : s[l] = p)
  <2>1. PICK m, k \in 1 .. Len(s) : m < k /\ s[m] = q /\ s[k] = p  BY <1>4 DEF Before
  <2> QED  BY <1>2, <1>3, <2>1
<1>5. ASSUME q \in Range(s), p \in Range(s),
             (CHOOSE l \in DOMAIN s : s[l] = q) < (CHOOSE l \in DOMAIN s : s[l] = p)
      PROVE  Before(s, q, p)
  <2>1. PICK m \in 1 .. Len(s) : s[m] = q  BY <1>2, <1>5
  <2>2. PICK k \in 1 .. Len(s) : s[k] = p  BY <1>2, <1>5
  <2>3. m < k  BY <1>3, <1>5, <2>1, <2>2
  <2> QED  BY <2>1, <2>2, <2>3 DEF Before
<1> QED  BY <1>4, <1>5

\* What a step does to a queue: nothing, or somebody enters at its end, or its
\* head leaves it; and only the head is dispatched
LEMMA QueueStep ==
    ASSUME CInv, CNext, NEW q \in Proc
    PROVE  LET s == mlq_ready_queue[prio[q]]
               t == mlq_ready_queue'[prio[q]]
               dispatched == \E c \in Caller : hand[c] # q /\ hand'[c] = q
           IN  \/ t = s /\ ~dispatched
               \/ /\ \E r \in Proc : prio[r] = prio[q] /\ ~Ready(r) /\ t = Append(s, r)
                  /\ ~dispatched
               \/ s # <<>> /\ t = Tail(s) /\ (dispatched => q = s[1])
<1> DEFINE i == prio[q]
           s == mlq_ready_queue[i]
           t == mlq_ready_queue'[i]
           dispatched == \E c \in Caller : hand[c] # q /\ hand'[c] = q
           Goal == \/ t = s /\ ~dispatched
                   \/ /\ \E r \in Proc : prio[r] = i /\ ~Ready(r) /\ t = Append(s, r)
                      /\ ~dispatched
                   \/ s # <<>> /\ t = Tail(s) /\ (dispatched => q = s[1])
<1>1. /\ SchedTypeOK /\ QueuesInv /\ mlq_ready_queue \in [Prio -> Seq(Proc)]
      /\ hand \in [Caller -> Proc \cup {NoProc}] /\ i \in Prio /\ q # NoProc
  BY QueueTypes, SchedAssumption DEF CInv, CTypeOK
<1>2. ASSUME NEW r \in Proc, ~Ready(r), EnqueueMlq(r), ~dispatched PROVE Goal
  <2>1. prio[r] # i => t = s  BY <1>1, <1>2 DEF EnqueueMlq
  <2>2. prio[r] = i => t = enqueue(s, r)  BY <1>1, <1>2 DEF EnqueueMlq
  <2> QED  BY <1>2, <2>1, <2>2 DEF enqueue
<1>3. ASSUME NEW c \in Caller, Get(c) PROVE Goal
  <2>1. PICK res \in Proc \cup {NoProc} :
            GetProc(res) /\ hand' = [hand EXCEPT ![c] = res]
    BY <1>3 DEF Get
  <2>2. dispatched => res = q  BY <1>1, <2>1
  <2>3. CASE res = NoProc /\ UNCHANGED mlq_ready_queue
    BY <1>1, <2>2, <2>3
  <2>4. ASSUME NEW j \in Prio, mlq_ready_queue[j] # <<>>, res = mlq_ready_queue[j][1],
               mlq_ready_queue' = [mlq_ready_queue EXCEPT ![j] = Tail(mlq_ready_queue[j])]
        PROVE  Goal
    <3>1. CASE j = i  BY <1>1, <2>2, <2>4, <3>1
    <3>2. CASE j # i
      <4>1. 1 \in 1 .. Len(mlq_ready_queue[j])
        BY <1>1, <2>4, EmptySeq, LenProperties
      <4>2. prio[res] = j  BY <1>1, <2>4, <4>1 DEF QueuesInv
      <4>3. ~dispatched  BY <2>2, <3>2, <4>2
      <4>4. t = s  BY <1>1, <2>4, <3>2
      <4> QED  BY <4>3, <4>4
    <3> QED  BY <3>1, <3>2
  <2> QED  BY <1>1, <2>1, <2>3, <2>4, GetProcEffect
<1>4. ASSUME NEW c \in Caller, PutSecond(c) PROVE Goal
  <2>1. hand[c] \in Proc /\ ~Ready(hand[c])
    BY <1>4 DEF PutSecond, CInv, CTypeOK, PutInv, PlaceInv
  <2>2. ~dispatched  BY <1>1, <1>4 DEF PutSecond
  <2>3. EnqueueMlq(hand[c])  BY <1>4 DEF PutSecond
  <2> QED  BY <1>2, <2>1, <2>2, <2>3
<1>5. ASSUME AddSecond PROVE Goal
  <2>1. adding \in Proc /\ ~Ready(adding)
    BY <1>5 DEF AddSecond, CInv, CTypeOK, PlaceInv
  <2>2. ~dispatched  BY <1>5 DEF AddSecond
  <2>3. EnqueueMlq(adding)  BY <1>5 DEF AddSecond
  <2> QED  BY <1>2, <2>1, <2>2, <2>3
<1>6. ASSUME NEW c \in Caller, Discard(c) PROVE Goal
  BY <1>1, <1>6 DEF Discard, sched
<1>7. ASSUME NEW c \in Caller, PutFirst(c) PROVE Goal
  BY <1>1, <1>7 DEF PutFirst, PutReady
<1>8. ASSUME NEW p \in Proc, AddFirst(p) PROVE Goal
  BY <1>8 DEF AddFirst, AddRunning
<1>9. Goal
  <2> HIDE DEF Goal
  <2> QED  BY <1>3, <1>4, <1>5, <1>6, <1>7, <1>8 DEF CNext, CallerStep
<1> QED  BY <1>9

\* As long as a process waits nobody overtakes it who was not ahead of it:
\* within a priority processes are dispatched in the order in which they were
\* put back or added
THEOREM RoundRobin == CSpec => FifoWithinPriority
<1> DEFINE Fifo ==
      \A p, q \in Proc :
          (p # q /\ prio[p] = prio[q] /\ Ready(p) /\ ~Ahead(q, p)) =>
              \/ ~Ready(p)'
              \/ /\ ~Ahead(q, p)'
                 /\ ~\E c \in Caller : hand[c] # q /\ hand'[c] = q
<1>1. CInv /\ [CNext]_cvars => [Fifo]_cvars
  <2> SUFFICES ASSUME CInv, CNext, NEW p \in Proc, NEW q \in Proc,
                      p # q, prio[p] = prio[q], Ready(p), ~Ahead(q, p), Ready(p)'
               PROVE  /\ ~Ahead(q, p)'
                      /\ ~\E c \in Caller : hand[c] # q /\ hand'[c] = q
    OBVIOUS
  <2> DEFINE s == mlq_ready_queue[prio[q]]
             t == mlq_ready_queue'[prio[q]]
             dispatched == \E c \in Caller : hand[c] # q /\ hand'[c] = q
  <2>1. /\ prio[q] \in Prio /\ QueuesInv /\ QueuesInv'
        /\ mlq_ready_queue \in [Prio -> Seq(Proc)]
        /\ mlq_ready_queue' \in [Prio -> Seq(Proc)]
    <3>1. CInv'  BY CInvStep
    <3> QED  BY <3>1, SchedAssumption DEF CInv, CTypeOK, SchedTypeOK
  <2>2. /\ s \in Seq(Proc) /\ \A l, m \in 1 .. Len(s) : s[l] = s[m] => l = m
        /\ t \in Seq(Proc) /\ \A l, m \in 1 .. Len(t) : t[l] = t[m] => l = m
    BY <2>1 DEF QueuesInv
  <2>3. p \in Range(s) /\ p \in Range(t)  BY DEF Ready
  <2>4. ~Before(s, q, p)
    <3>1. Before(s, q, p) => Ahead(q, p)
      BY <2>2, PlacesInOrder DEF Ahead, Ready, Position
    <3> QED  BY <3>1
  <2>5. Ahead(q, p)' => Before(t, q, p)
    BY <2>2, PlacesInOrder DEF Ahead, Ready, Position
  <2> HIDE DEF s, t
  <2>6. /\ Len(s) \in Nat /\ Len(t) \in Nat
        /\ DOMAIN s = 1 .. Len(s) /\ DOMAIN t = 1 .. Len(t)
    BY <2>2, LenProperties
  <2>7. CASE t = s /\ ~dispatched  BY <2>4, <2>5, <2>7
  <2>8. ASSUME NEW r \in Proc, prio[r] = prio[q], ~Ready(r), t = Append(s, r), ~dispatched
        PROVE  ~Before(t, q, p) /\ ~dispatched
    <3>1. p # r  BY <2>8
    <3>2. /\ Len(t) = Len(s) + 1 /\ t[Len(s) + 1] = r
          /\ \A l \in 1 .. Len(s) : t[l] = s[l]
      BY <2>2, <2>8
    <3>3. ASSUME NEW m \in 1 .. Len(t), NEW k \in 1 .. Len(t), m < k, t[m] = q, t[k] = p
          PROVE  FALSE
      <4>1. k \in 1 .. Len(s) /\ m \in 1 .. Len(s)  BY <2>6, <3>1, <3>2, <3>3
      <4>2. s[k] = p /\ s[m] = q  BY <3>2, <3>3, <4>1
      <4> QED  BY <2>4, <3>3, <4>1, <4>2 DEF Before
    <3> QED  BY <2>8, <3>3 DEF Before
  <2>9. ASSUME s # <<>>, t = Tail(s), dispatched => q = s[1]
        PROVE  ~Before(t, q, p) /\ ~dispatched
    <3>1. Len(t) = Len(s) - 1 /\ \A l \in 1 .. Len(t) : t[l] = s[l + 1]
      BY <2>2, <2>9, HeadTailProperties
    <3>2. ASSUME NEW m \in 1 .. Len(t), NEW k \in 1 .. Len(t), m < k, t[m] = q, t[k] = p
          PROVE  FALSE
      <4>1. k + 1 \in 1 .. Len(s) /\ m + 1 \in 1 .. Len(s) /\ m + 1 < k + 1
        BY <2>6, <3>1, <3>2
      <4>2. s[k + 1] = p /\ s[m + 1] = q  BY <3>1, <3>2
      <4> QED  BY <2>4, <4>1, <4>2 DEF Before
    <3>3. q # s[1]
      <4>1. PICK k \in 1 .. Len(t) : t[k] = p  BY <2>3, <2>6 DEF Range
      <4>2. k + 1 \in 1 .. Len(s) /\ s[k + 1] = p /\ 1 \in 1 .. Len(s) /\ 1 < k + 1
        BY <2>6, <3>1, <4>1
      <4> QED  BY <2>4, <4>2 DEF Before
    <3> QED  BY <2>9, <3>2, <3>3 DEF Before
  <2>10. \/ t = s /\ ~dispatched
         \/ /\ \E r \in Proc : prio[r] = prio[q] /\ ~Ready(r) /\ t = Append(s, r)
            /\ ~dispatched
         \/ s # <<>> /\ t = Tail(s) /\ (dispatched => q = s[1])
    BY QueueStep DEF s, t
  <2> HIDE DEF dispatched
  <2>11. ~Before(t, q, p) /\ ~dispatched  BY <2>4, <2>7, <2>8, <2>9, <2>10
  <2> QED  BY <2>5, <2>11 DEF dispatched
<1>2. FifoWithinPriority <=> [][Fifo]_cvars  BY PTL DEF FifoWithinPriority
<1> QED  BY <1>1, <1>2, ClientInvariance, PTL DEF CSpec

----------------------------------------------------------------------------
(* Where a process is, counted.                                            *)

\* A set without two elements
LEMMA AtMostOne ==
    ASSUME NEW S, \A x, y \in S : x = y
    PROVE  Cardinality(S) \in {0, 1} /\ (S = {} => Cardinality(S) = 0)
<1>1. CASE S = {}  BY <1>1, FS_EmptySet
<1>2. CASE S # {}
  <2>1. PICK x : x \in S  BY <1>2
  <2>2. S = {x}  BY <2>1
  <2> QED  BY <1>2, <2>2, FS_Singleton
<1> QED  BY <1>1, <1>2

\* A process that is not ready is nowhere in the queues, and one that is
\* ready is at one place of them
LEMMA OnePosition ==
    ASSUME CInv, NEW p \in Proc
    PROVE  /\ \A v, w \in Positions(p) : v = w
           /\ Positions(p) = {} <=> ~Ready(p)
<1>1. /\ mlq_ready_queue \in [Prio -> Seq(Proc)] /\ QueuesInv
      /\ \A i \in Prio : Len(mlq_ready_queue[i]) <= MAX_QUEUE_SIZE
  BY QueueTypes DEF CInv, CTypeOK
<1>2. \A i \in Prio : /\ DOMAIN mlq_ready_queue[i] = 1 .. Len(mlq_ready_queue[i])
                      /\ Len(mlq_ready_queue[i]) \in Nat
  BY <1>1, LenProperties
<1>3. ASSUME NEW w \in Positions(p)
      PROVE  /\ w = <<w[1], w[2]>> /\ w[1] = prio[p] /\ w[1] \in Prio
             /\ w[2] \in 1 .. Len(mlq_ready_queue[prio[p]])
             /\ mlq_ready_queue[prio[p]][w[2]] = p
  <2>1. /\ w \in Prio \X (1 .. MAX_QUEUE_SIZE)
        /\ w[2] \in DOMAIN mlq_ready_queue[w[1]]
        /\ mlq_ready_queue[w[1]][w[2]] = p
    BY DEF Positions
  <2>2. w[1] \in Prio /\ w = <<w[1], w[2]>>  BY <2>1
  <2>3. w[2] \in 1 .. Len(mlq_ready_queue[w[1]])  BY <1>2, <2>1, <2>2
  <2>4. w[1] = prio[p]  BY <1>1, <2>1, <2>2, <2>3 DEF QueuesInv
  <2> QED  BY <2>1, <2>2, <2>3, <2>4
<1>4. ASSUME NEW v \in Positions(p), NEW w \in Positions(p) PROVE v = w
  <2>1. v[2] = w[2]
    <3>1. /\ v[2] \in 1 .. Len(mlq_ready_queue[prio[p]]) /\ prio[p] \in Prio
          /\ mlq_ready_queue[prio[p]][v[2]] = p
      BY <1>3
    <3>2. /\ w[2] \in 1 .. Len(mlq_ready_queue[prio[p]])
          /\ mlq_ready_queue[prio[p]][w[2]] = p
      BY <1>3
    <3> QED  BY <1>1, <3>1, <3>2 DEF QueuesInv
  <2> QED  BY <1>3, <2>1
<1>5. ASSUME Ready(p) PROVE Positions(p) # {}
  <2>1. PICK k \in 1 .. Len(mlq_ready_queue[prio[p]]) : mlq_ready_queue[prio[p]][k] = p
    BY <1>1, <1>5, ReadyMeans
  <2>2. prio[p] \in Prio /\ MAX_QUEUE_SIZE \in Nat  BY SchedAssumption
  <2>3. k \in 1 .. MAX_QUEUE_SIZE  BY <1>1, <1>2, <2>1, <2>2
  <2>4. <<prio[p], k>> \in Positions(p)  BY <1>2, <2>1, <2>2, <2>3 DEF Positions
  <2> QED  BY <2>4
<1>6. ASSUME NEW w \in Positions(p) PROVE Ready(p)  BY <1>1, <1>3, ReadyMeans
<1> QED  BY <1>4, <1>5, <1>6

\* No process is ever in two hands, in a queue and in a hand, or twice in the
\* queues: two CPUs never run the same pcb
THEOREM ExclusiveOwnership == CSpec => []Exclusive
<1>1. CInv => Exclusive
  <2> SUFFICES ASSUME CInv, NEW p \in Proc
               PROVE  Cardinality(Holders(p)) + Cardinality(Positions(p))
                          + Cardinality(Outside(p)) <= 1
    BY DEF Exclusive
  <2>1. \A c, d \in Holders(p) : c = d  BY DEF CInv, PlaceInv, Holders
  <2>2. \A v, w \in Outside(p) : v = w  BY DEF CInv, PlaceInv, Outside
  <2>3. \/ Holders(p) = {} /\ Positions(p) = {}
        \/ Holders(p) = {} /\ Outside(p) = {}
        \/ Positions(p) = {} /\ Outside(p) = {}
    <3>1. Ready(p) => Holders(p) = {} /\ Outside(p) = {}
      BY DEF CInv, PlaceInv, Holders, Outside
    <3>2. Holders(p) # {} => Outside(p) = {}
      BY DEF CInv, PlaceInv, Holders, Outside
    <3> QED  BY <3>1, <3>2, OnePosition
  <2>4. /\ Cardinality(Holders(p)) \in {0, 1}
        /\ Holders(p) = {} => Cardinality(Holders(p)) = 0
    BY <2>1, AtMostOne
  <2>5. /\ Cardinality(Positions(p)) \in {0, 1}
        /\ Positions(p) = {} => Cardinality(Positions(p)) = 0
    BY OnePosition, AtMostOne
  <2>6. /\ Cardinality(Outside(p)) \in {0, 1}
        /\ Outside(p) = {} => Cardinality(Outside(p)) = 0
    BY <2>2, AtMostOne
  <2> QED  BY <2>3, <2>4, <2>5, <2>6
<1> QED  BY <1>1, ClientInvariance, PTL

----------------------------------------------------------------------------
(* Nothing gets lost while a queue has room for all processes.             *)

Room == IsFiniteSet(Proc) /\ Cardinality(Proc) <= MAX_QUEUE_SIZE

\* A process is in its queue, in a hand, or outside
KeptInv ==
    \A p \in Proc :
        \/ Ready(p) \/ p \in fresh \cup over \/ p = adding
        \/ \E c \in Caller : hand[c] = p

\* The others do not fill the queue of p
LEMMA RoomForOneMore ==
    ASSUME Room, CInv, NEW p \in Proc, ~Ready(p)
    PROVE  Len(mlq_ready_queue[prio[p]]) < MAX_QUEUE_SIZE
<1> DEFINE q == mlq_ready_queue[prio[p]]
<1>1. /\ mlq_ready_queue \in [Prio -> Seq(Proc)] /\ QueuesInv
      /\ prio[p] \in Prio /\ MAX_QUEUE_SIZE \in Nat
  BY QueueTypes, SchedAssumption DEF CInv, CTypeOK
<1>2. q \in Seq(Proc) /\ Len(q) \in Nat /\ q \in [1 .. Len(q) -> Proc]
  BY <1>1, LenProperties
<1>3. \A k \in 1 .. Len(q) : q[k] # p  BY <1>1, ReadyMeans
<1>4. \A k, l \in 1 .. Len(q) : q[k] = q[l] => k = l  BY <1>1 DEF QueuesInv
<1> HIDE DEF q
<1>5. q \in [1 .. Len(q) -> Proc \ {p}]  BY <1>2, <1>3
<1>6. q \in Injection(1 .. Len(q), Proc \ {p})
  BY <1>4, <1>5 DEF Injection, IsInjective
<1>7. IsFiniteSet(Proc \ {p}) /\ Cardinality(Proc \ {p}) = Cardinality(Proc) - 1
  BY FS_RemoveElement DEF Room
<1>8. Cardinality(1 .. Len(q)) <= Cardinality(Proc \ {p})
  BY <1>6, <1>7, FS_Injection
<1>9. Cardinality(1 .. Len(q)) = Len(q)
  <2>1. Cardinality(1 .. Len(q)) = IF 1 > Len(q) THEN 0 ELSE Len(q) - 1 + 1
    BY <1>2, FS_Interval
  <2> QED  BY <1>2, <2>1
<1>10. Cardinality(Proc) \in Nat  BY FS_CardinalityType DEF Room
<1>11. Len(q) < MAX_QUEUE_SIZE
  BY <1>1, <1>2, <1>7, <1>8, <1>9, <1>10 DEF Room
<1> QED  BY <1>11 DEF q

\* The second half of put_proc and of add_proc makes the process ready
LEMMA EnqueueKeeps ==
    ASSUME Room, CInv, NEW p \in Proc, ~Ready(p), EnqueueMlq(p)
    PROVE  Ready(p)' /\ \A r \in Proc : Ready(r) => Ready(r)'
<1>1. /\ mlq_ready_queue \in [Prio -> Seq(Proc)] /\ QueuesInv
      /\ \A j \in Prio : Len(mlq_ready_queue[j]) <= MAX_QUEUE_SIZE
  BY QueueTypes DEF CInv, CTypeOK
<1>2. Len(mlq_ready_queue[prio[p]]) < MAX_QUEUE_SIZE  BY RoomForOneMore
<1> QED  BY <1>1, <1>2, EnqueueQueues

\* No step of a caller or of add_proc loses a process
LEMMA KeptStep ==
    ASSUME Room, CInv, KeptInv, [CNext]_cvars
    PROVE  KeptInv'
<1> SUFFICES ASSUME NEW p \in Proc PROVE KeptInv!(p)'
  BY DEF KeptInv
<1>1. ASSUME NEW c \in Caller, Get(c) PROVE KeptInv!(p)'
  <2>1. PICK res \in Proc \cup {NoProc} :
            GetProc(res) /\ hand' = [hand EXCEPT ![c] = res]
    BY <1>1 DEF Get
  <2>2. SchedTypeOK /\ QueuesInv /\ mlq_ready_queue \in [Prio -> Seq(Proc)]
    BY QueueTypes DEF CInv, CTypeOK
  <2>3. p = res \/ (Ready(p) => Ready(p)')
    <3>1. CASE UNCHANGED mlq_ready_queue  BY <3>1 DEF Ready
    <3>2. ASSUME NEW i \in Prio, mlq_ready_queue[i] # <<>>, res = mlq_ready_queue[i][1],
                 mlq_ready_queue' = [mlq_ready_queue EXCEPT ![i] = Tail(mlq_ready_queue[i])]
          PROVE  p # res => (Ready(p)' <=> Ready(p))
      BY <2>2, <3>2, ServeQueues
    <3> QED  BY <2>1, <2>2, <3>1, <3>2, GetProcEffect
  <2>4. \A d \in Caller : hand'[d] = IF d = c THEN res ELSE hand[d]
    BY <2>1 DEF CInv, CTypeOK
  <2> QED  BY <1>1, <2>3, <2>4, SchedAssumption DEF KeptInv, Get
<1>2. ASSUME NEW c \in Caller, Discard(c) PROVE KeptInv!(p)'
  <2>1. UNCHANGED mlq_ready_queue  BY <1>2 DEF Discard, sched
  <2>2. \A d \in Caller : hand'[d] = IF d = c THEN NoProc ELSE hand[d]
    BY <1>2 DEF Discard, CInv, CTypeOK
  <2> QED  BY <1>2, <2>1, <2>2 DEF KeptInv, Discard, Ready
<1>3. ASSUME NEW c \in Caller, PutFirst(c) PROVE KeptInv!(p)'
  BY <1>3 DEF KeptInv, PutFirst, PutReady, Ready
<1>4. ASSUME NEW c \in Caller, PutSecond(c) PROVE KeptInv!(p)'
  <2>1. PICK r \in Proc : r = hand[c]  BY <1>4 DEF PutSecond, CInv, CTypeOK, PutInv
  <2>2. EnqueueMlq(r) /\ ~Ready(r)  BY <1>4, <2>1 DEF PutSecond, CInv, PlaceInv
  <2>3. Ready(r)' /\ (Ready(p) => Ready(p)')  BY <2>2, EnqueueKeeps
  <2>4. \A d \in Caller : hand'[d] = IF d = c THEN NoProc ELSE hand[d]
    BY <1>4 DEF PutSecond, CInv, CTypeOK
  <2>5. CASE p = r  BY <2>3, <2>5 DEF KeptInv
  <2>6. CASE p # r  BY <1>4, <2>1, <2>3, <2>4, <2>6 DEF KeptInv, PutSecond
  <2> QED  BY <2>5, <2>6
<1>5. ASSUME NEW r \in Proc, AddFirst(r) PROVE KeptInv!(p)'
  <2>1. UNCHANGED mlq_ready_queue  BY <1>5 DEF AddFirst, AddRunning
  <2> QED  BY <1>5, <2>1, SchedAssumption DEF KeptInv, AddFirst, Ready
<1>6. CASE AddSecond
  <2>1. PICK r \in Proc : r = adding  BY <1>6 DEF AddSecond, CInv, CTypeOK
  <2>2. EnqueueMlq(r) /\ ~Ready(r)  BY <1>6, <2>1 DEF AddSecond, CInv, PlaceInv
  <2>3. Ready(r)' /\ (Ready(p) => Ready(p)')  BY <2>2, EnqueueKeeps
  <2>4. CASE p = r  BY <2>3, <2>4 DEF KeptInv
  <2>5. CASE p # r  BY <1>6, <2>1, <2>3, <2>5 DEF KeptInv, AddSecond
  <2> QED  BY <2>4, <2>5
<1>7. CASE UNCHANGED cvars
  BY <1>7 DEF KeptInv, cvars, sched, Ready
<1> QED  BY <1>1, <1>2, <1>3, <1>4, <1>5, <1>6, <1>7 DEF CNext, CallerStep

\* While the queues have room, each process is somewhere
THEOREM StillThere ==
    ASSUME Room
    PROVE  CSpec => []KeptInv
<1>1. CInit => KeptInv  BY DEF CInit, KeptInv
<1>2. CInv /\ KeptInv /\ [CNext]_cvars => KeptInv'  BY KeptStep
<1> QED  BY <1>1, <1>2, ClientInvariance, PTL DEF CSpec

\* A process that was added and has not finished is in the queues or in
\* somebody's hands, if a queue has room for all processes
THEOREM NothingLost ==
    ASSUME Room
    PROVE  CSpec => []NoProcessLost
<1>1. CInv /\ KeptInv => NoProcessLost
  <2> SUFFICES ASSUME CInv, KeptInv, NEW p \in Proc
               PROVE  Holders(p) \cup Positions(p) \cup Outside(p) # {}
    BY DEF NoProcessLost
  <2>1. Ready(p) => Positions(p) # {}  BY OnePosition
  <2> QED  BY <2>1 DEF KeptInv, Holders, Outside
<1> QED  BY <1>1, StillThere, ClientInvariance, PTL

----------------------------------------------------------------------------
(* Nobody waits for ever: the part of it that is not liveness.             *)

\* The tickets of a whole round
AllTickets == {w \in Prio \X (1 .. MAX_PRIO) : w[2] <= Share(w[1])}

\* There are finitely many, and never more left than a round has
LEMMA TicketsCount ==
    ASSUME NEW S, S \subseteq AllTickets
    PROVE  /\ IsFiniteSet(S)
           /\ Cardinality(S) \in Nat /\ Cardinality(S) <= RoundLength
           /\ RoundLength \in Nat
<1>1. MAX_PRIO \in Nat  BY SchedAssumption
<1>2. IsFiniteSet(Prio) /\ IsFiniteSet(1 .. MAX_PRIO)
  BY <1>1, FS_Interval DEF Prio
<1>3. IsFiniteSet(Prio \X (1 .. MAX_PRIO))  BY <1>2, FS_Product
<1>4. AllTickets \subseteq Prio \X (1 .. MAX_PRIO)  BY DEF AllTickets
<1>5. IsFiniteSet(AllTickets)  BY <1>3, <1>4, FS_Subset
<1>6. RoundLength = Cardinality(AllTickets)  BY DEF RoundLength, AllTickets
<1>7. RoundLength \in Nat  BY <1>5, <1>6, FS_CardinalityType
<1>8. IsFiniteSet(S) /\ Cardinality(S) <= RoundLength
  BY <1>5, <1>6, FS_Subset
<1> QED  BY <1>7, <1>8, FS_CardinalityType

\* What counts most is the rounds, then the tickets of this one
LEMMA WaitShrinks ==
    ASSUME NEW r \in Nat, NEW a \in Int, NEW b \in Int, NEW t \in Nat, NEW u \in Nat,
           (b <= a /\ u < t) \/ (b = a - 1 /\ u <= r)
    PROVE  (r + 1) * b + u < (r + 1) * a + t
<1>1. CASE b <= a /\ u < t
  <2>1. PICK d \in Nat : a = b + d
    <3>1. a - b \in Nat /\ a = b + (a - b)  BY <1>1
    <3> QED  BY <3>1
  <2>2. (r + 1) * a = (r + 1) * b + (r + 1) * d  BY <2>1
  <2>3. (r + 1) * d \in Nat /\ (r + 1) * b \in Int  BY <2>1
  <2> QED  BY <1>1, <2>2, <2>3
<1>2. CASE b = a - 1 /\ u <= r
  <2>1. (r + 1) * a = (r + 1) * b + (r + 1)  BY <1>2
  <2>2. (r + 1) * b \in Int  OBVIOUS
  <2> QED  BY <1>2, <2>1, <2>2
<1> QED  BY <1>1, <1>2

\* Where a ready process stands, and what it waits for
LEMMA WaitTypes ==
    ASSUME CInv, NEW p \in Proc, Ready(p)
    PROVE  /\ Position(p) \in 1 .. Len(mlq_ready_queue[prio[p]])
           /\ mlq_ready_queue[prio[p]][Position(p)] = p
           /\ Rounds(p) \in Int
           /\ Tickets \subseteq AllTickets
<1>1. /\ mlq_ready_queue \in [Prio -> Seq(Proc)] /\ QueuesInv /\ prio[p] \in Prio
      /\ slot \in [Prio -> Nat] /\ \A i \in Prio : slot[i] <= Share(i)
  BY QueueTypes, SchedAssumption DEF CInv, CTypeOK, SchedTypeOK
<1>2. PICK k \in 1 .. Len(mlq_ready_queue[prio[p]]) : mlq_ready_queue[prio[p]][k] = p
  BY <1>1, ReadyMeans
<1>3. \A l, m \in 1 .. Len(mlq_ready_queue[prio[p]]) :
         mlq_ready_queue[prio[p]][l] = mlq_ready_queue[prio[p]][m] => l = m
  BY <1>1 DEF QueuesInv
<1>4. Position(p) = k  BY <1>1, <1>2, <1>3, PlaceInQueue DEF Position
<1>5. Len(mlq_ready_queue[prio[p]]) \in Nat  BY <1>1, LenProperties
<1>6. Rounds(p) \in Int  BY <1>2, <1>4, <1>5 DEF Rounds
<1>7. Tickets \subseteq AllTickets
  <2> SUFFICES ASSUME NEW w \in Prio \X (1 .. MAX_PRIO), w[2] <= slot[w[1]]
               PROVE  w[2] <= Share(w[1])
    BY DEF Tickets, AllTickets
  <2>1. w[1] \in Prio /\ w[2] \in Nat /\ MAX_PRIO \in Nat  BY SchedAssumption
  <2>2. slot[w[1]] \in Nat /\ slot[w[1]] <= Share(w[1]) /\ Share(w[1]) \in Int
    BY <1>1, <2>1 DEF Share, Prio
  <2> QED  BY <2>1, <2>2
<1> QED  BY <1>2, <1>4, <1>6, <1>7

\* A call of get_proc dispatches p or brings it nearer to that
LEMMA GetNearer ==
    ASSUME CInv, NEW c \in Caller, Get(c), NEW p \in Proc, Ready(p)
    PROVE  \/ hand[c] # p /\ hand'[c] = p
           \/ Ready(p)' /\ Wait(p)' \in Int /\ Wait(p)' < Wait(p)
<1> DEFINE i == prio[p]
           q == mlq_ready_queue[i]
           k == Position(p)
<1>1. /\ mlq_ready_queue \in [Prio -> Seq(Proc)] /\ QueuesInv /\ i \in Prio
      /\ slot \in [Prio -> Nat] /\ SchedTypeOK
      /\ \A j \in Prio : slot[j] <= Share(j) /\ Share(j) \in Nat /\ Share(j) >= 1
  <2>1. SchedTypeOK /\ QueuesInv  BY DEF CInv, CTypeOK
  <2>2. i \in Prio /\ \A j \in Prio : Share(j) \in Nat /\ Share(j) >= 1
    BY SchedAssumption DEF Share, Prio
  <2> QED  BY <2>1, <2>2 DEF SchedTypeOK
<1>2. CInv'  BY GetStep
<1>3. k \in 1 .. Len(q) /\ q[k] = p /\ Rounds(p) \in Int /\ Tickets \subseteq AllTickets
  BY WaitTypes
<1>4. PICK res \in Proc \cup {NoProc} : GetProc(res) /\ hand' = [hand EXCEPT ![c] = res]
  BY DEF Get
<1>5. /\ mlq_ready_queue' \in [Prio -> Seq(Proc)] /\ QueuesInv'
      /\ slot' \in [Prio -> Nat] /\ \A j \in Prio : slot'[j] <= Share(j)
  BY <1>2, GetProcEffect, <1>1, <1>4, QueueTypes DEF CInv, CTypeOK, SchedTypeOK, Share
<1>6. Tickets' \subseteq AllTickets
  <2> SUFFICES ASSUME NEW w \in Prio \X (1 .. MAX_PRIO), w[2] <= slot'[w[1]]
               PROVE  w[2] <= Share(w[1])
    BY DEF Tickets, AllTickets, Prio
  <2>1. w[1] \in Prio /\ w[2] \in Nat /\ MAX_PRIO \in Nat  BY SchedAssumption
  <2> QED  BY <1>1, <1>5, <2>1
<1>7. /\ Cardinality(Tickets) \in Nat /\ Cardinality(Tickets') \in Nat
      /\ Cardinality(Tickets') <= RoundLength /\ RoundLength \in Nat
      /\ IsFiniteSet(Tickets) /\ IsFiniteSet(Tickets')
  BY <1>3, <1>6, TicketsCount
<1>8. ASSUME NEW n \in Int, Rounds(p)' = n,
             \/ n <= Rounds(p) /\ Cardinality(Tickets') < Cardinality(Tickets)
             \/ n = Rounds(p) - 1
      PROVE  Wait(p)' \in Int /\ Wait(p)' < Wait(p)
  <2>1. Wait(p) = (RoundLength + 1) * Rounds(p) + Cardinality(Tickets)  BY DEF Wait
  <2>2. Wait(p)' = (RoundLength + 1) * n + Cardinality(Tickets')
    BY <1>8 DEF Wait, RoundLength, Prio, Share
  <2>3. (RoundLength + 1) * n + Cardinality(Tickets')
          < (RoundLength + 1) * Rounds(p) + Cardinality(Tickets)
    BY <1>3, <1>7, <1>8, WaitShrinks
  <2>4. (RoundLength + 1) * n + Cardinality(Tickets') \in Int  BY <1>7, <1>8
  <2> QED  BY <2>1, <2>2, <2>3, <2>4
<1>9. \A l \in 1 .. Len(mlq_ready_queue'[i]) : mlq_ready_queue'[i][l] = p =>
         Position(p)' = l /\ Ready(p)'
  <2> TAKE l \in 1 .. Len(mlq_ready_queue'[i])
  <2> HAVE mlq_ready_queue'[i][l] = p
  <2>1. \A m, n \in 1 .. Len(mlq_ready_queue'[i]) :
           mlq_ready_queue'[i][m] = mlq_ready_queue'[i][n] => m = n
    BY <1>1, <1>5 DEF QueuesInv
  <2>2. DOMAIN mlq_ready_queue'[i] = 1 .. Len(mlq_ready_queue'[i])
    BY <1>1, <1>5, LenProperties
  <2>3. Position(p)' = l
    BY <1>1, <1>5, <2>1, PlaceInQueue DEF Position
  <2> QED  BY <2>2, <2>3 DEF Ready, Range
<1>10. Len(q) \in Nat /\ q # <<>>
  <2>1. Len(q) \in Nat /\ Len(q) >= 1  BY <1>1, <1>3, LenProperties
  <2> QED  BY <1>1, <2>1, EmptySeq
<1>11. CASE QueuesEmpty
  BY <1>1, <1>10, <1>11 DEF QueuesEmpty, empty
<1>12. CASE /\ Servable = {}
            /\ slot' = [j \in Prio |-> Share(j)]
            /\ UNCHANGED mlq_ready_queue
  <2>1. slot[i] = 0  BY <1>1, <1>10, <1>12 DEF Servable, empty
  <2>2. slot'[i] > 0  BY <1>1, <1>12
  <2>3. Position(p)' = k /\ Ready(p)'
    <3>1. mlq_ready_queue'[i] = q  BY <1>12
    <3> QED  BY <1>3, <1>9, <3>1
  <2>4. Rounds(p)' = k - 1  BY <2>2, <2>3 DEF Rounds
  <2>5. Rounds(p) = k  BY <1>3, <1>10, <2>1 DEF Rounds
  <2>6. k - 1 \in Int /\ k \in Int  BY <1>3, <1>10
  <2> HIDE DEF k
  <2>7. Wait(p)' \in Int /\ Wait(p)' < Wait(p)  BY <1>8, <2>4, <2>5, <2>6
  <2> QED  BY <2>3, <2>7
<1>13. ASSUME NEW j \in Prio, mlq_ready_queue[j] # <<>>, slot[j] > 0,
              res = mlq_ready_queue[j][1],
              mlq_ready_queue' = [mlq_ready_queue EXCEPT ![j] = Tail(mlq_ready_queue[j])],
              slot' = [slot EXCEPT ![j] = slot[j] - 1]
       PROVE  \/ hand[c] # p /\ hand'[c] = p
              \/ Ready(p)' /\ Wait(p)' \in Int /\ Wait(p)' < Wait(p)
  <2>1. Cardinality(Tickets') < Cardinality(Tickets)
    <3>1. slot'[j] = slot[j] - 1 /\ \A m \in Prio : m # j => slot'[m] = slot[m]
      BY <1>1, <1>13
    <3>2. <<j, slot[j]>> \in Tickets
      <4>1. slot[j] \in Nat /\ slot[j] <= MAX_PRIO - j  BY <1>1 DEF Share
      <4>2. j \in Nat /\ MAX_PRIO \in Nat  BY SchedAssumption DEF Prio
      <4>3. slot[j] \in 1 .. MAX_PRIO  BY <1>13, <4>1, <4>2
      <4> QED  BY <1>1, <4>3 DEF Tickets
    <3>3. Tickets' \subseteq Tickets \ {<<j, slot[j]>>}
      <4> SUFFICES ASSUME NEW w \in Prio \X (1 .. MAX_PRIO), w[2] <= slot'[w[1]]
                   PROVE  w[2] <= slot[w[1]] /\ w # <<j, slot[j]>>
        BY DEF Tickets, Prio
      <4>1. w[1] \in Prio /\ w[2] \in Nat /\ MAX_PRIO \in Nat  BY SchedAssumption
      <4>2. slot[w[1]] \in Nat /\ slot[j] \in Nat  BY <1>1, <4>1
      <4> QED  BY <3>1, <4>1, <4>2
    <3>4. /\ IsFiniteSet(Tickets \ {<<j, slot[j]>>})
          /\ Cardinality(Tickets \ {<<j, slot[j]>>}) = Cardinality(Tickets) - 1
      BY <1>7, <3>2, FS_RemoveElement
    <3>5. Cardinality(Tickets') <= Cardinality(Tickets \ {<<j, slot[j]>>})
      BY <3>3, <3>4, FS_Subset
    <3> QED  BY <1>7, <3>4, <3>5
  <2>2. CASE j # i
    <3>1. mlq_ready_queue'[i] = q /\ slot'[i] = slot[i]  BY <1>1, <1>13, <2>2
    <3>2. Position(p)' = k /\ Ready(p)'  BY <1>3, <1>9, <3>1
    <3>3. Rounds(p)' = Rounds(p)  BY <3>1, <3>2 DEF Rounds
    <3> QED  BY <1>3, <1>8, <2>1, <3>2, <3>3
  <2>3. CASE j = i /\ k = 1
    <3>1. res = p  BY <1>3, <1>13, <2>3
    <3>2. hand[c] = NoProc /\ hand'[c] = p  BY <1>4, <3>1 DEF Get, CInv, CTypeOK
    <3> QED  BY <3>2, SchedAssumption
  <2>4. CASE j = i /\ k # 1
    <3>1. /\ q \in Seq(Proc) /\ q # <<>> /\ Tail(q) \in Seq(Proc)
          /\ Len(Tail(q)) = Len(q) - 1
          /\ \A l \in 1 .. Len(Tail(q)) : Tail(q)[l] = q[l + 1]
      BY <1>1, <1>10, HeadTailProperties
    <3>2. k - 1 \in 1 .. Len(Tail(q))  BY <1>3, <1>10, <2>4, <3>1
    <3>3. Tail(q)[k - 1] = q[(k - 1) + 1] /\ (k - 1) + 1 = k
      BY <1>3, <1>10, <3>1, <3>2
    <3>4. mlq_ready_queue'[i] = Tail(q)  BY <1>1, <1>13, <2>4
    <3>5. Position(p)' = k - 1 /\ Ready(p)'
      <4>1. Tail(q)[k - 1] = p  BY <1>3, <3>3
      <4> QED  BY <1>9, <3>2, <3>4, <4>1
    <3>6. Rounds(p) = k - 1  BY <1>13, <2>4 DEF Rounds
    <3>7. Rounds(p)' \in {k - 1, k - 2}
      <4>1. k \in Int  BY <1>3, <1>10
      <4> QED  BY <3>5, <4>1 DEF Rounds
    <3>8. k \in Int  BY <1>3, <1>10
    <3> HIDE DEF k
    <3>9. Rounds(p)' \in Int /\ Rounds(p)' <= Rounds(p)  BY <3>6, <3>7, <3>8
    <3>10. Wait(p)' \in Int /\ Wait(p)' < Wait(p)  BY <1>8, <2>1, <3>9
    <3> QED  BY <3>5, <3>10
  <2> QED  BY <2>2, <2>3, <2>4
<1>14. \/ QueuesEmpty
       \/ /\ Servable = {}
          /\ slot' = [j \in Prio |-> Share(j)]
          /\ UNCHANGED mlq_ready_queue
       \/ \E j \in Prio :
             /\ mlq_ready_queue[j] # <<>> /\ slot[j] > 0
             /\ res = mlq_ready_queue[j][1]
             /\ mlq_ready_queue' = [mlq_ready_queue EXCEPT ![j] = Tail(mlq_ready_queue[j])]
             /\ slot' = [slot EXCEPT ![j] = slot[j] - 1]
  BY <1>1, <1>4, GetProcCases
<1> QED  BY <1>11, <1>12, <1>13, <1>14

\* What enters a queue does so behind p
LEMMA EnqueueBehind ==
    ASSUME CInv, NEW r \in Proc, ~Ready(r), EnqueueMlq(r), NEW p \in Proc, Ready(p)
    PROVE  Ready(p)' /\ Wait(p)' = Wait(p)
<1>1. /\ mlq_ready_queue \in [Prio -> Seq(Proc)] /\ QueuesInv
      /\ \A j \in Prio : Len(mlq_ready_queue[j]) <= MAX_QUEUE_SIZE
      /\ prio[p] \in Prio /\ prio[r] \in Prio
  BY QueueTypes, SchedAssumption DEF CInv, CTypeOK
<1>2. p # r /\ Ready(p)' /\ mlq_ready_queue' \in [Prio -> Seq(Proc)] /\ QueuesInv'
  BY <1>1, EnqueueQueues
<1> DEFINE i == prio[p]
           q == mlq_ready_queue[i]
           k == Position(p)
<1>3. k \in 1 .. Len(q) /\ q[k] = p  BY WaitTypes
<1>4. k \in 1 .. Len(mlq_ready_queue'[i]) /\ mlq_ready_queue'[i][k] = p
  <2>1. q \in Seq(Proc) /\ Len(q) \in Nat  BY <1>1, LenProperties
  <2>2. mlq_ready_queue'[i] = q \/ mlq_ready_queue'[i] = Append(q, r)
    BY <1>1 DEF EnqueueMlq, enqueue
  <2>3. /\ Len(Append(q, r)) = Len(q) + 1
        /\ \A l \in 1 .. Len(q) : Append(q, r)[l] = q[l]
    BY <2>1
  <2> QED  BY <1>3, <2>1, <2>2, <2>3
<1>5. Position(p)' = k
  <2>1. \A l, m \in 1 .. Len(mlq_ready_queue'[i]) :
           mlq_ready_queue'[i][l] = mlq_ready_queue'[i][m] => l = m
    BY <1>1, <1>2 DEF QueuesInv
  <2>2. mlq_ready_queue'[i] \in Seq(Proc)  BY <1>1, <1>2
  <2> HIDE DEF k
  <2>3. (CHOOSE l \in DOMAIN mlq_ready_queue'[i] : mlq_ready_queue'[i][l] = p) = k
    BY <1>4, <2>1, <2>2, PlaceInQueue
  <2> QED  BY <2>3 DEF Position
<1>6. UNCHANGED slot  BY DEF EnqueueMlq
<1>7. Rounds(p)' = Rounds(p)  BY <1>5, <1>6 DEF Rounds
<1>8. Tickets' = Tickets  BY <1>6 DEF Tickets, Prio
<1> QED  BY <1>2, <1>7, <1>8 DEF Wait, RoundLength, Prio, Share

\* A ready process is dispatched after at most Wait(p) calls of get_proc, who-
\* ever makes them and whatever is put back or added meanwhile
THEOREM BoundedWaiting == CSpec => BoundedWait
<1> DEFINE Dispatched(p) == \E c \in Caller : hand[c] # p /\ hand'[c] = p
           Nearer(p) == /\ Ready(p)'
                        /\ Wait(p)' <= Wait(p)
                        /\ (\E c \in Caller : Get(c)) => Wait(p)' < Wait(p)
           Bounded ==
             \A p \in Proc : Ready(p) =>
                 \/ \E c \in Caller : hand[c] # p /\ hand'[c] = p
                 \/ /\ Ready(p)'
                    /\ Wait(p)' <= Wait(p)
                    /\ (\E c \in Caller : Get(c)) => Wait(p)' < Wait(p)
<1>1. ASSUME CInv, CNext, NEW p \in Proc, Ready(p)
      PROVE  Dispatched(p) \/ Nearer(p)
  <2>1. Wait(p) \in Int
    <3>1. /\ Rounds(p) \in Int
          /\ Cardinality(Tickets) \in Nat /\ RoundLength \in Nat
      BY <1>1, WaitTypes, TicketsCount
    <3> QED  BY <3>1 DEF Wait
  <2>2. ASSUME NEW c \in Caller, Get(c)
        PROVE  Dispatched(p) \/ (Ready(p)' /\ Wait(p)' \in Int /\ Wait(p)' < Wait(p))
    BY <1>1, <2>2, GetNearer
  <2>3. Wait(p)' \in Int /\ Wait(p)' < Wait(p) => Wait(p)' <= Wait(p)
    BY <2>1
  <2>4. CASE \E c \in Caller : Get(c)  BY <2>2, <2>3, <2>4
  <2>5. ASSUME Ready(p)' /\ Wait(p)' = Wait(p), ~\E c \in Caller : Get(c)
        PROVE  Nearer(p)
    <3>1. Wait(p)' <= Wait(p)  BY <2>1, <2>5
    <3> QED  BY <2>5, <3>1
  <2>6. ASSUME UNCHANGED <<mlq_ready_queue, slot>>
        PROVE  Ready(p)' /\ Wait(p)' = Wait(p)
    BY <1>1, <2>6 DEF Ready, Wait, Rounds, Position, RoundLength, Tickets, Prio, Share,
       Range
  <2> HIDE DEF Nearer, Dispatched
  <2>7. ASSUME NEW c \in Caller, Discard(c) \/ PutFirst(c)
        PROVE  Ready(p)' /\ Wait(p)' = Wait(p)
    BY <2>6, <2>7 DEF Discard, PutFirst, PutReady, sched
  <2>8. ASSUME NEW r \in Proc, AddFirst(r)
        PROVE  Ready(p)' /\ Wait(p)' = Wait(p)
    BY <2>6, <2>8 DEF AddFirst, AddRunning
  <2>9. ASSUME NEW c \in Caller, PutSecond(c)
        PROVE  Ready(p)' /\ Wait(p)' = Wait(p)
    <3>1. hand[c] \in Proc /\ ~Ready(hand[c])
      BY <1>1, <2>9 DEF PutSecond, CInv, CTypeOK, PutInv, PlaceInv
    <3> QED  BY <1>1, <2>9, <3>1, EnqueueBehind DEF PutSecond
  <2>10. ASSUME AddSecond
         PROVE  Ready(p)' /\ Wait(p)' = Wait(p)
    <3>1. adding \in Proc /\ ~Ready(adding)
      BY <1>1, <2>10 DEF AddSecond, CInv, CTypeOK, PlaceInv
    <3> QED  BY <1>1, <2>10, <3>1, EnqueueBehind DEF AddSecond
  <2> QED
    BY <1>1, <2>4, <2>5, <2>7, <2>8, <2>9, <2>10 DEF CNext, CallerStep
<1>2. CInv /\ [CNext]_cvars => [Bounded]_cvars  BY <1>1
<1> QED  BY <1>2, ClientInvariance, PTL DEF CSpec, BoundedWait
=============================================================================
