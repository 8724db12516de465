--------------------------- MODULE Killall_proofs ---------------------------
(***************************************************************************)
(* Proofs about Killall.tla: where no critical section meets the walk of   *)
(* a list, __sys_killall has the effect of an atomic operation, for queues *)
(* of any capacity, any processes and any number of other CPUs.            *)
(***************************************************************************)
EXTENDS Killall, FiniteSetTheorems, SequenceTheorems, TLAPS

----------------------------------------------------------------------------
(* The queues as sequences.                                                *)

\* get_mlq_proc takes the first process of a queue
LEMMA TailOf ==
    ASSUME NEW S, NEW s \in Seq(S), s # <<>>
    PROVE  /\ Tail(s) \in Seq(S) /\ Len(Tail(s)) = Len(s) - 1 /\ Len(s) > 0
           /\ \A k \in 1 .. Len(s) - 1 : Tail(s)[k] = s[k + 1]
           /\ s[1] \in S /\ s[1] \in Range(s) /\ Range(s) = Range(Tail(s)) \cup {s[1]}
           /\ IsInjective(s) => IsInjective(Tail(s)) /\ s[1] \notin Range(Tail(s))
<1>1. /\ Tail(s) \in Seq(S) /\ Len(Tail(s)) = Len(s) - 1 /\ Len(s) \in Nat /\ Len(s) > 0
      /\ \A k \in 1 .. Len(s) - 1 : Tail(s)[k] = s[k + 1]
  OBVIOUS
<1>2. DOMAIN s = 1 .. Len(s) /\ DOMAIN Tail(s) = 1 .. Len(s) - 1  BY <1>1
<1>3. s[1] \in S /\ s[1] \in Range(s)  BY <1>1, <1>2 DEF Range
<1>4. ASSUME NEW x \in Range(s), x # s[1] PROVE x \in Range(Tail(s))
  <2>1. PICK k \in 1 .. Len(s) : s[k] = x  BY <1>2 DEF Range
  <2>2. k - 1 \in 1 .. Len(s) - 1 /\ Tail(s)[k - 1] = x  BY <2>1, <1>1, <1>4
  <2> QED  BY <2>2, <1>2 DEF Range
<1>5. ASSUME NEW x \in Range(Tail(s))
      PROVE  \E k \in 1 .. Len(s) : k > 1 /\ s[k] = x
  <2>1. PICK k \in 1 .. Len(s) - 1 : Tail(s)[k] = x  BY <1>2 DEF Range
  <2>2. k + 1 \in 1 .. Len(s) /\ k + 1 > 1 /\ s[k + 1] = x  BY <2>1, <1>1
  <2> QED  BY <2>2
<1>6. Range(s) = Range(Tail(s)) \cup {s[1]}
  <2>1. Range(Tail(s)) \subseteq Range(s)  BY <1>5, <1>2 DEF Range
  <2> QED  BY <2>1, <1>3, <1>4
<1>7. ASSUME IsInjective(s) PROVE IsInjective(Tail(s)) /\ s[1] \notin Range(Tail(s))
  <2>1. \A a, b \in 1 .. Len(s) : s[a] = s[b] => a = b  BY <1>7, <1>2 DEF IsInjective
  <2>2. s[1] \notin Range(Tail(s))  BY <2>1, <1>5, <1>1
  <2>3. ASSUME NEW a \in 1 .. Len(s) - 1, NEW b \in 1 .. Len(s) - 1, Tail(s)[a] = Tail(s)[b]
        PROVE  a = b
    <3>1. a + 1 \in 1 .. Len(s) /\ b + 1 \in 1 .. Len(s) /\ s[a + 1] = s[b + 1]
      BY <2>3, <1>1
    <3> QED  BY <3>1, <2>1
  <2> QED  BY <2>2, <2>3, <1>2 DEF IsInjective
<1> QED  BY <1>1, <1>3, <1>6, <1>7

\* enqueue appends one
LEMMA AppendTo ==
    ASSUME NEW S, NEW s \in Seq(S), NEW x \in S
    PROVE  /\ Append(s, x) \in Seq(S) /\ Len(Append(s, x)) = Len(s) + 1
           /\ \A k \in 1 .. Len(s) : Append(s, x)[k] = s[k]
           /\ Append(s, x)[Len(s) + 1] = x
           /\ Range(Append(s, x)) = Range(s) \cup {x}
           /\ IsInjective(s) /\ x \notin Range(s) => IsInjective(Append(s, x))
<1> DEFINE t == Append(s, x)
<1>1. /\ t \in Seq(S) /\ Len(t) = Len(s) + 1 /\ Len(s) \in Nat
      /\ \A k \in 1 .. Len(s) : t[k] = s[k]
      /\ t[Len(s) + 1] = x
  OBVIOUS
<1>2. DOMAIN s = 1 .. Len(s) /\ DOMAIN t = 1 .. Len(s) + 1  BY <1>1
<1> HIDE DEF t
<1>3. ASSUME NEW k \in 1 .. Len(s) + 1 PROVE k \in 1 .. Len(s) \/ k = Len(s) + 1  BY <1>1
<1>4. Range(t) = Range(s) \cup {x}
  <2>1. Range(t) \subseteq Range(s) \cup {x}  BY <1>1, <1>2, <1>3 DEF Range
  <2>2. ASSUME NEW y \in Range(s) PROVE y \in Range(t)
    <3>1. PICK k \in 1 .. Len(s) : s[k] = y  BY <1>2 DEF Range
    <3>2. k \in 1 .. Len(s) + 1 /\ t[k] = y  BY <3>1, <1>1
    <3> QED  BY <3>2, <1>2 DEF Range
  <2>3. x \in Range(t)
    <3>1. Len(s) + 1 \in 1 .. Len(s) + 1  BY <1>1
    <3> QED  BY <3>1, <1>1, <1>2 DEF Range
  <2> QED  BY <2>1, <2>2, <2>3
<1>5. ASSUME IsInjective(s), x \notin Range(s) PROVE IsInjective(t)
  <2>1. \A a, b \in 1 .. Len(s) : s[a] = s[b] => a = b  BY <1>5, <1>2 DEF IsInjective
  <2>2. \A a \in 1 .. Len(s) : s[a] # x  BY <1>5, <1>2 DEF Range
  <2>3. ASSUME NEW a \in 1 .. Len(s) + 1, NEW b \in 1 .. Len(s) + 1, t[a] = t[b]
        PROVE  a = b
    BY <2>1, <2>2, <2>3, <1>1, <1>3
  <2> QED  BY <2>3, <1>2 DEF IsInjective
<1> QED  BY <1>1, <1>4, <1>5 DEF t

\* remove_from_queue takes out the one at place i
LEMMA WithoutOf ==
    ASSUME NEW S, NEW s \in Seq(S), NEW p
    PROVE  /\ Without(s, p) \in Seq(S)
           /\ \A i \in 1 .. Len(s) : IsInjective(s) /\ p = s[i] =>
                 LET t == Without(s, p) IN
                 /\ Len(t) = Len(s) - 1
                 /\ \A k \in 1 .. Len(s) - 1 : t[k] = IF k < i THEN s[k] ELSE s[k + 1]
                 /\ IsInjective(t) /\ Range(t) = Range(s) \ {p}
<1> DEFINE t == Without(s, p)
<1>1. Len(s) \in Nat /\ DOMAIN s = 1 .. Len(s)  OBVIOUS
<1>2. ASSUME NEW i \in 1 .. Len(s)
      PROVE  /\ RemoveAt(s, i) \in Seq(S)
             /\ Len(RemoveAt(s, i)) = Len(s) - 1
             /\ \A k \in 1 .. Len(s) - 1 :
                   RemoveAt(s, i)[k] = IF k < i THEN s[k] ELSE s[k + 1]
  <2> DEFINE u == SubSeq(s, 1, i - 1)
             v == SubSeq(s, i + 1, Len(s))
  <2>1. /\ u \in Seq(S) /\ Len(u) = i - 1
        /\ \A k \in 1 .. i - 1 : u[k] = s[k]
    <3>1. 1 \in Int /\ i - 1 \in Int /\ \A k \in 1 .. i - 1 : s[k] \in S  BY <1>1
    <3>2. /\ u \in Seq(S) /\ Len(u) = IF 1 <= i - 1 THEN (i - 1) - 1 + 1 ELSE 0
          /\ \A k \in 1 .. (i - 1) - 1 + 1 : u[k] = s[1 + k - 1]
      BY <3>1, SubSeqProperties
    <3> HIDE DEF u
    <3>3. Len(u) = i - 1  BY <3>2, <1>1
    <3>4. ASSUME NEW k \in 1 .. i - 1 PROVE u[k] = s[k]
      <4>1. k \in 1 .. (i - 1) - 1 + 1 /\ 1 + k - 1 = k  BY <1>1
      <4> QED  BY <4>1, <3>2
    <3> QED  BY <3>2, <3>3, <3>4
  <2>2. /\ v \in Seq(S) /\ Len(v) = Len(s) - i
        /\ \A k \in 1 .. Len(s) - i : v[k] = s[i + k]
    <3>1. i + 1 \in Int /\ Len(s) \in Int /\ \A k \in i + 1 .. Len(s) : s[k] \in S
      BY <1>1
    <3>2. /\ v \in Seq(S)
          /\ Len(v) = IF i + 1 <= Len(s) THEN Len(s) - (i + 1) + 1 ELSE 0
          /\ \A k \in 1 .. Len(s) - (i + 1) + 1 : v[k] = s[(i + 1) + k - 1]
      BY <3>1, SubSeqProperties
    <3> HIDE DEF v
    <3>3. Len(v) = Len(s) - i
      <4>1. CASE i + 1 <= Len(s)
        <5>1. Len(v) = Len(s) - (i + 1) + 1  BY <3>2, <4>1
        <5> QED  BY <5>1, <1>1
      <4>2. CASE ~(i + 1 <= Len(s))
        <5>1. Len(v) = 0  BY <3>2, <4>2
        <5>2. i = Len(s)
          <6>1. \A a, b \in Int : a <= b /\ ~(a + 1 <= b) => a = b  OBVIOUS
          <6>2. i \in Int /\ Len(s) \in Int /\ i <= Len(s)  BY <1>1
          <6> QED  BY <4>2, <6>1, <6>2, Zenon
        <5>3. Len(s) - i = 0  BY <5>2, <1>1
        <5> QED  BY <5>1, <5>3
      <4> QED  BY <4>1, <4>2
    <3>4. ASSUME NEW k \in 1 .. Len(s) - i PROVE v[k] = s[i + k]
      <4>1. k \in 1 .. Len(s) - (i + 1) + 1 /\ (i + 1) + k - 1 = i + k  BY <1>1
      <4> QED  BY <4>1, <3>2
    <3> QED  BY <3>2, <3>3, <3>4
  <2>3. RemoveAt(s, i) = u \o v  BY DEF RemoveAt
  <2> HIDE DEF u, v
  <2>4. /\ u \o v \in Seq(S) /\ Len(u \o v) = Len(u) + Len(v)
        /\ \A k \in 1 .. Len(u) + Len(v) :
              (u \o v)[k] = IF k <= Len(u) THEN u[k] ELSE v[k - Len(u)]
    BY <2>1, <2>2, ConcatProperties
  <2> DEFINE w == u \o v
  <2>5. ASSUME NEW k \in 1 .. Len(s) - 1
        PROVE  w[k] = IF k < i THEN s[k] ELSE s[k + 1]
    <3> HIDE DEF w
    <3>1. /\ k \in 1 .. Len(u) + Len(v)
          /\ w[k] = IF k <= i - 1 THEN u[k] ELSE v[k - (i - 1)]
      BY <2>1, <2>2, <2>4, <1>1 DEF w
    <3>2. CASE k < i
      <4>1. k <= i - 1 /\ k \in 1 .. i - 1  BY <3>2, <1>1
      <4> QED  BY <4>1, <3>1, <3>2, <2>1
    <3>3. CASE k >= i
      <4>1. k - (i - 1) \in 1 .. Len(s) - i /\ i + (k - (i - 1)) = k + 1
        BY <3>3, <1>1
      <4>2. w[k] = v[k - (i - 1)]  BY <3>3, <3>1, <1>1
      <4>3. v[k - (i - 1)] = s[i + (k - (i - 1))]  BY <4>1, <2>2
      <4> QED  BY <4>1, <4>2, <4>3, <3>3
    <3> QED  BY <3>2, <3>3
  <2>6. Len(u) + Len(v) = Len(s) - 1  BY <2>1, <2>2, <1>1
  <2> QED  BY <2>3, <2>4, <2>5, <2>6
<1>3. t \in Seq(S)
  <2>1. CASE p \in Range(s)
    <3> DEFINE c == CHOOSE k \in DOMAIN s : s[k] = p
    <3>1. c \in 1 .. Len(s)  BY <2>1, <1>1 DEF Range
    <3>2. t = RemoveAt(s, c)  BY <2>1 DEF Without
    <3> HIDE DEF c, t
    <3> QED  BY <3>1, <3>2, <1>2
  <2>2. CASE p \notin Range(s)  BY <2>2 DEF Without
  <2> QED  BY <2>1, <2>2
<1>4. ASSUME NEW i \in 1 .. Len(s), IsInjective(s), p = s[i]
      PROVE  /\ Len(t) = Len(s) - 1
             /\ \A k \in 1 .. Len(s) - 1 : t[k] = IF k < i THEN s[k] ELSE s[k + 1]
             /\ IsInjective(t) /\ Range(t) = Range(s) \ {p}
  <2> DEFINE c == CHOOSE k \in DOMAIN s : s[k] = p
  <2>1. c \in DOMAIN s /\ s[c] = p  BY <1>1, <1>4
  <2>2. c = i  BY <2>1, <1>1, <1>4 DEF IsInjective
  <2>3. p \in Range(s)  BY <1>1, <1>4 DEF Range
  <2>4. t = RemoveAt(s, i)  BY <2>2, <2>3 DEF Without
  <2> HIDE DEF t, c
  <2>5. /\ Len(t) = Len(s) - 1 /\ t \in Seq(S)
        /\ \A k \in 1 .. Len(s) - 1 : t[k] = IF k < i THEN s[k] ELSE s[k + 1]
    BY <2>4, <1>2
  <2>6. DOMAIN t = 1 .. Len(s) - 1  BY <2>5
  <2>7. \A a, b \in 1 .. Len(s) : s[a] = s[b] => a = b  BY <1>1, <1>4 DEF IsInjective
  <2>8. IsInjective(t)
    <3>1. ASSUME NEW a \in 1 .. Len(s) - 1, NEW b \in 1 .. Len(s) - 1, t[a] = t[b]
          PROVE  a = b
      BY <2>5, <2>7, <3>1, <1>1
    <3> QED  BY <3>1, <2>6 DEF IsInjective
  <2>9. Range(t) = Range(s) \ {p}
    <3>1. ASSUME NEW x \in Range(t) PROVE x \in Range(s) \ {p}
      <4>1. PICK k \in 1 .. Len(s) - 1 : t[k] = x  BY <2>6 DEF Range
      <4>2. \E j \in 1 .. Len(s) : j # i /\ s[j] = x
        <5>1. CASE k < i  BY <4>1, <5>1, <2>5, <1>1
        <5>2. CASE ~(k < i)
          <6>1. k + 1 \in 1 .. Len(s) /\ k + 1 # i /\ s[k + 1] = x
            BY <4>1, <5>2, <2>5, <1>1
          <6> QED  BY <6>1
        <5> QED  BY <5>1, <5>2
      <4> QED  BY <4>2, <2>7, <1>1, <1>4 DEF Range
    <3>2. ASSUME NEW x \in Range(s) \ {p} PROVE x \in Range(t)
      <4>1. PICK j \in 1 .. Len(s) : s[j] = x  BY <1>1 DEF Range
      <4>2. \E k \in 1 .. Len(s) - 1 : t[k] = x
        <5>1. j # i  BY <4>1, <3>2, <1>4
        <5>2. CASE j < i
          <6>1. j \in 1 .. Len(s) - 1 /\ t[j] = x  BY <5>2, <4>1, <2>5, <1>1
          <6> QED  BY <6>1
        <5>3. CASE j > i
          <6>1. j - 1 \in 1 .. Len(s) - 1 /\ t[j - 1] = x  BY <5>3, <4>1, <2>5, <1>1
          <6> QED  BY <6>1
        <5> QED  BY <5>1, <5>2, <5>3
      <4> QED  BY <4>2, <2>6 DEF Range
    <3> QED  BY <3>1, <3>2
  <2> QED  BY <2>5, <2>8, <2>9
<1> QED  BY <1>3, <1>4 DEF t

\* A queue that names each process once, and one not at all, has a place left
LEMMA NotFull ==
    ASSUME NEW s \in Seq(Proc), IsInjective(s), NEW p \in Proc, p \notin Range(s)
    PROVE  Len(s) < MAX_QUEUE_SIZE
<1>1. /\ IsFiniteSet(Proc) /\ MAX_QUEUE_SIZE \in Nat
      /\ Cardinality(Proc) <= MAX_QUEUE_SIZE
  BY KillallAssumption
<1>2. Len(s) \in Nat /\ DOMAIN s = 1 .. Len(s)  OBVIOUS
<1> DEFINE rest == Proc \ {p}
<1>3. IsFiniteSet(rest) /\ Cardinality(rest) = Cardinality(Proc) - 1
  BY <1>1, FS_RemoveElement
<1>4. s \in Injection(1 .. Len(s), rest)
  <2>1. \A k \in 1 .. Len(s) : s[k] \in rest  BY <1>2 DEF Range
  <2>2. s \in [1 .. Len(s) -> rest]  BY <1>2, <2>1
  <2> QED  BY <2>2, <1>2 DEF Injection, IsInjective
<1> HIDE DEF rest
<1>5. Cardinality(1 .. Len(s)) = Len(s)  BY <1>2, FS_Interval
<1>6. Cardinality(1 .. Len(s)) <= Cardinality(rest)  BY <1>3, <1>4, FS_Injection
<1>7. Cardinality(Proc) \in Nat  BY <1>1, FS_CardinalityType
<1> QED  BY <1>1, <1>2, <1>3, <1>5, <1>6, <1>7

----------------------------------------------------------------------------
(* Where everything is.                                                    *)

EnqPC == {"etest", "eread", "ewrite", "estore"}
DeqPC == {"gtest", "dtest", "scan", "take", "dec", "store", "shift", "copy", "put", "clear"}

\* enqueue works on list L; dequeue works
Entering(L) == sec.pc \in EnqPC /\ sec.list = L
Leaving == sec.pc \in DeqPC

SectionType ==
    [holder : Actor \cup {NoProc}, pc : {"free"} \cup EnqPC \cup DeqPC, list : List,
     proc : Proc \cup {NoProc}, i : 0 .. MAX_QUEUE_SIZE, n : Count,
     v : Proc \cup {NoProc}]

\* The registers of the system call
KillerInv ==
    /\ kpc \in {"read", "test", "load", "match", "shift", "copy", "put", "dec", "store",
                "clear", "end"}
    /\ klist \in List
    /\ kpc = "read" => klist = "ready" /\ idx = 0 /\ given = 0
    /\ kpc \in {"load", "match"} => idx < MAX_QUEUE_SIZE
    /\ kpc \in {"copy", "put"} => ki + 1 < MAX_QUEUE_SIZE
    /\ kpc = "end" => klist = "running"

\* The registers of the critical section: what the tests of size leave true,
\* even if the system call changes size after them
SecInv ==
    /\ sec \in SectionType
    /\ sec.pc = "free" => sec = NoSection
    /\ sec.pc \in EnqPC => sec.proc \in Proc
    /\ sec.pc = "eread" => size[sec.list] < MAX_QUEUE_SIZE
    /\ sec.pc \in {"ewrite", "estore"} => sec.n < MAX_QUEUE_SIZE
    /\ sec.pc \in {"gtest", "dtest", "scan", "take"} => sec.proc = NoProc
    /\ sec.pc = "take" => sec.i < MAX_QUEUE_SIZE
    /\ sec.pc \in {"shift", "copy", "put"} => size[sec.list] < MAX_QUEUE_SIZE
    /\ sec.pc \in {"copy", "put"} => sec.i + 1 < MAX_QUEUE_SIZE

\* Whom a thread holds at which point of its turn
TurnInv ==
    /\ turn \in [Actor -> {"first", "get", "add", "addmlq", "done"}]
    /\ \A c \in CPU : turn[c] = "get" => hand[c] = NoProc
    /\ turn[Loader] \in {"add", "addmlq"} => hand[Loader] \in Proc
    /\ Entering("running") => turn[Loader] = "addmlq" /\ sec.proc = hand[Loader]
    /\ Leaving => /\ sec.list = "ready" /\ sec.holder \in CPU
                  /\ turn[sec.holder] = "done" /\ hand[sec.holder] = NoProc

TypeInv ==
    /\ TypeOK
    /\ target \in Proc /\ away \subseteq Proc /\ met \subseteq List
    /\ ideal \in [List -> Seq(Proc)]
    /\ KillerInv /\ SecInv /\ TurnInv

\* What the assumption says of the constants
LEMMA Constants ==
    /\ MAX_QUEUE_SIZE \in Nat /\ NoProc \notin Proc /\ Killer \in Proc
    /\ Loader \notin CPU /\ Loader \in Actor /\ CPU \subseteq Actor
    /\ "ready" \in List /\ "running" \in List
    /\ \A k \in Slot : k \in Nat /\ k < MAX_QUEUE_SIZE
    /\ \A k \in Int : 0 <= k /\ k < MAX_QUEUE_SIZE => k \in Slot
<1>1. MAX_QUEUE_SIZE \in Nat /\ NoProc \notin Proc /\ Killer \in Proc /\ Loader \notin CPU
  BY KillallAssumption
<1> QED  BY <1>1 DEF Actor, List, Slot

\* The steps of the system call
LEMMA TypeKiller == ASSUME TypeInv, Move(KillerStep) PROVE TypeInv'
<1>1. /\ UNCHANGED <<target, away, turn, hand, sec, over>> /\ met' \subseteq List
      /\ KillerStep
  BY DEF Move, TypeInv, KillerStep, ReadName, TestIdx, EndOfList, LoadProc, NoMatch,
         Match, MatchNull, Shift, ShiftRead, ShiftWrite, DecRead, DecWrite, Clear, killer,
         lists, others
<1>2. MAX_QUEUE_SIZE \in Nat /\ Slot = 0 .. MAX_QUEUE_SIZE - 1  BY Constants DEF Slot
<1>3. TurnInv'  BY <1>1 DEF TypeInv, TurnInv, Entering, Leaving
<1>4. ideal' \in [List -> Seq(Proc)]
  <2>1. CASE UNCHANGED ideal  BY <2>1 DEF TypeInv
  <2>2. CASE Match
    <3>1. klist \in List /\ Without(ideal[klist], kp) \in Seq(Proc)
      <4>1. klist \in List /\ ideal[klist] \in Seq(Proc)  BY DEF TypeInv, KillerInv
      <4> QED  BY <4>1, WithoutOf
    <3> QED  BY <2>2, <3>1 DEF Match, TypeInv
  <2> QED  BY <1>1, <2>1, <2>2 DEF KillerStep, ReadName, TestIdx, EndOfList, LoadProc,
         NoMatch, MatchNull, Shift, ShiftRead, ShiftWrite, DecRead, DecWrite, Clear
<1>5. ASSUME KillerInv', SecInv', TypeOK' PROVE TypeInv'
  BY <1>1, <1>3, <1>4, <1>5 DEF TypeInv
<1>6. ASSUME UNCHANGED <<lists, ki, given>>, idx' \in 0 .. MAX_QUEUE_SIZE,
             kn' \in Count, {kp', kv'} \subseteq Proc \cup {NoProc}
      PROVE  TypeOK' /\ SecInv'
  <2>1. TypeOK'  BY <1>1, <1>6 DEF TypeInv, TypeOK, lists
  <2>2. SecInv'  BY <1>1, <1>6 DEF TypeInv, SecInv, lists
  <2> QED  BY <2>1, <2>2
<1>7. /\ idx \in 0 .. MAX_QUEUE_SIZE /\ kn \in Count /\ {kp, kv} \subseteq Proc \cup {NoProc}
      /\ klist \in List /\ size[klist] \in Count
  BY DEF TypeInv, TypeOK, KillerInv
<1>8. CASE ReadName \/ MatchNull
  <2>1. UNCHANGED <<lists, klist, idx, kp, ki, kn, kv, given>>
    BY <1>8 DEF ReadName, MatchNull, killer
  <2>2. KillerInv'  BY <1>8, <2>1 DEF ReadName, MatchNull, killer, TypeInv, KillerInv
  <2> QED  BY <1>5, <1>6, <1>7, <2>1, <2>2
<1>9. CASE TestIdx
  <2>1. UNCHANGED <<lists, klist, idx, kp, ki, kn, kv, given>> /\ kpc' = "load"
        /\ idx < size[klist]
    BY <1>9 DEF TestIdx
  <2>2. idx < MAX_QUEUE_SIZE  BY <2>1, <1>2, <1>7 DEF Count
  <2>3. KillerInv'  BY <2>1, <2>2, <1>7 DEF KillerInv
  <2> QED  BY <1>5, <1>6, <1>7, <2>1, <2>3
<1>10. CASE EndOfList
  <2>1. UNCHANGED <<lists, kp, ki, kn, kv, given>> /\ kpc = "test"
    BY <1>10 DEF EndOfList
  <2>2. CASE klist = "ready"
    <3>1. klist' = "running" /\ idx' = 0 /\ kpc' = "test"
      BY <1>10, <2>1, <2>2 DEF EndOfList
    <3>2. KillerInv'  BY <3>1, Constants DEF KillerInv
    <3>3. idx' \in 0 .. MAX_QUEUE_SIZE  BY <3>1, <1>2
    <3> QED  BY <1>5, <1>6, <1>7, <2>1, <3>2, <3>3
  <2>3. CASE klist # "ready"
    <3>1. kpc' = "end" /\ klist' = klist /\ idx' = idx  BY <1>10, <2>3 DEF EndOfList
    <3>2. klist = "running"  BY <2>3, <1>7 DEF List
    <3>3. KillerInv'  BY <3>1, <3>2, Constants DEF KillerInv
    <3> QED  BY <1>5, <1>6, <1>7, <2>1, <3>1, <3>3
  <2> QED  BY <2>2, <2>3
<1>11. CASE NoMatch
  <2>1. /\ UNCHANGED <<lists, klist, kp, ki, kn, kv, given>>
        /\ kpc = "match" /\ kpc' = "test" /\ idx' = idx + 1
    BY <1>11 DEF NoMatch
  <2>2. idx < MAX_QUEUE_SIZE  BY <2>1 DEF TypeInv, KillerInv
  <2>3. idx' \in 0 .. MAX_QUEUE_SIZE  BY <2>1, <2>2, <1>2, <1>7
  <2>4. KillerInv'  BY <2>1, <1>7 DEF KillerInv
  <2> QED  BY <1>5, <1>6, <1>7, <2>1, <2>3, <2>4
<1>12. CASE DecRead
  <2>1. UNCHANGED <<lists, klist, idx, kp, ki, kv, given>> /\ kpc' = "store" /\ kn' = size[klist]
    BY <1>12 DEF DecRead
  <2>2. KillerInv'  BY <2>1, <1>7 DEF KillerInv
  <2> QED  BY <1>5, <1>6, <1>7, <2>1, <2>2
<1>13. CASE LoadProc \/ Match
  <2>1. KillerInv'
    BY <1>2, <1>13 DEF LoadProc, Match, TypeInv, KillerInv
  <2>2. TypeOK'
    BY <1>1, <1>2, <1>13 DEF LoadProc, Match, lists, TypeInv, KillerInv, TypeOK, Slot, More
  <2>3. SecInv'
    BY <1>1, <1>13 DEF LoadProc, Match, lists, TypeInv, SecInv
  <2> QED  BY <2>1, <2>2, <2>3, <1>5
<1>14. CASE Shift
  <2>1. UNCHANGED <<lists, klist, idx, kp, ki, kn, kv, given>>  BY <1>14 DEF Shift
  <2>2. CASE ki < size[klist] - 1
    <3>1. kpc' = "copy"  BY <1>14, <2>2 DEF Shift
    <3>2. ki + 1 < MAX_QUEUE_SIZE
      <4>1. ki \in Nat  BY DEF TypeInv, TypeOK
      <4> QED  BY <1>2, <1>7, <2>2, <4>1 DEF Count
    <3>3. KillerInv'  BY <1>7, <2>1, <3>1, <3>2 DEF KillerInv
    <3> QED  BY <1>5, <1>6, <1>7, <2>1, <3>3
  <2>3. CASE ~(ki < size[klist] - 1)
    <3>1. kpc' = "dec"  BY <1>14, <2>3 DEF Shift
    <3>2. KillerInv'  BY <1>7, <2>1, <3>1 DEF KillerInv
    <3> QED  BY <1>5, <1>6, <1>7, <2>1, <3>2
  <2> QED  BY <2>2, <2>3
<1>15. CASE ShiftRead
  <2>1. /\ UNCHANGED <<lists, klist, idx, kp, ki, kn, given>>
        /\ kpc = "copy" /\ kpc' = "put" /\ kv' = arr[klist][ki + 1]
    BY <1>15 DEF ShiftRead
  <2>2. ki \in Nat /\ ki + 1 < MAX_QUEUE_SIZE
    BY <2>1 DEF TypeInv, TypeOK, KillerInv
  <2>3. kv' \in Proc \cup {NoProc}
    <3>1. ki + 1 \in Slot  BY <1>2, <2>2
    <3> QED  BY <1>7, <2>1, <3>1 DEF TypeInv, TypeOK
  <2>4. KillerInv'  BY <1>7, <2>1, <2>2 DEF KillerInv
  <2> QED  BY <1>5, <1>6, <1>7, <2>1, <2>3, <2>4
<1>16. CASE ShiftWrite
  <2>1. /\ UNCHANGED <<size, klist, idx, kp, kn, given>>
        /\ kpc = "put" /\ kpc' = "shift" /\ kv' = NoProc /\ ki' = ki + 1
        /\ arr' = [arr EXCEPT ![klist][ki] = kv]
    BY <1>16 DEF ShiftWrite
  <2>2. ki \in Nat /\ ki + 1 < MAX_QUEUE_SIZE
    BY <2>1 DEF TypeInv, TypeOK, KillerInv
  <2>3. ki \in Slot /\ ki + 1 \in 0 .. MAX_QUEUE_SIZE  BY <1>2, <2>2
  <2>4. KillerInv'  BY <1>7, <2>1 DEF KillerInv
  <2>5. TypeOK'
    <3>1. arr' \in [List -> [Slot -> Proc \cup {NoProc}]]
      BY <1>7, <2>1, <2>3 DEF TypeInv, TypeOK
    <3> QED  BY <1>1, <2>1, <2>3, <3>1 DEF TypeInv, TypeOK
  <2>6. SecInv'  BY <1>1, <2>1 DEF TypeInv, SecInv
  <2> QED  BY <2>4, <2>5, <2>6, <1>5
<1>17. CASE DecWrite
  <2>1. KillerInv'
    BY <1>2, <1>17 DEF DecWrite, TypeInv, KillerInv
  <2>2. /\ size' \in [List -> Count]
        /\ \A L \in List : size[L] < MAX_QUEUE_SIZE => size'[L] < MAX_QUEUE_SIZE
    BY <1>2, <1>17 DEF DecWrite, TypeInv, TypeOK, Count, KillerInv
  <2>3. TypeOK'
    BY <1>1, <1>17, <2>2 DEF DecWrite, TypeInv, TypeOK
  <2>4. SecInv'
    <3>1. sec \in SectionType /\ sec.list \in List  BY DEF TypeInv, SecInv, SectionType
    <3> QED  BY <1>1, <1>17, <2>2, <3>1 DEF TypeInv, SecInv
  <2> QED  BY <2>1, <2>3, <2>4, <1>5
<1>18. CASE Clear
  <2>1. KillerInv'
    BY <1>2, <1>18 DEF Clear, TypeInv, KillerInv
  <2>2. arr' \in [List -> [Slot -> Proc \cup {NoProc}]]
    <3>1. CASE size[klist] \in Slot
      <4>1. arr' = [arr EXCEPT ![klist][size[klist]] = NoProc]  BY <1>18, <3>1 DEF Clear
      <4> QED  BY <4>1 DEF TypeInv, TypeOK
    <3>2. CASE size[klist] \notin Slot  BY <1>18, <3>2 DEF Clear, TypeInv, TypeOK
    <3> QED  BY <3>1, <3>2
  <2>3. TypeOK'
    BY <1>1, <1>18, <2>2 DEF Clear, TypeInv, TypeOK
  <2>4. SecInv'
    BY <1>1, <1>18 DEF Clear, TypeInv, SecInv
  <2> QED  BY <2>1, <2>3, <2>4, <1>5
<1> QED  BY <1>1, <1>8, <1>9, <1>10, <1>11, <1>12, <1>13, <1>14, <1>15, <1>16, <1>17, <1>18
     DEF KillerStep

\* The turns of the other threads
LEMMA TypeTurn == ASSUME TypeInv, Move(TurnStep) PROVE TypeInv'
<1>1. /\ UNCHANGED <<target, away, ideal, lists, killer>> /\ met' \subseteq List
      /\ TurnStep
  BY DEF Move, TypeInv, TurnStep, Stay, Finish, PutBack, GetProc, AddProc, AddMlqProc
<1>2. KillerInv'  BY <1>1 DEF TypeInv, KillerInv, killer
<1>3. ASSUME SecInv', TurnInv', hand' \in [Actor -> Proc \cup {NoProc}], over' \subseteq Proc
      PROVE  TypeInv'
  <2>1. TypeOK'  BY <1>1, <1>3 DEF TypeInv, TypeOK, SecInv, SectionType, lists, killer
  <2> QED  BY <1>1, <1>2, <1>3, <2>1 DEF TypeInv
<1>4. /\ turn \in [Actor -> {"first", "get", "add", "addmlq", "done"}]
      /\ hand \in [Actor -> Proc \cup {NoProc}] /\ over \subseteq Proc
  BY DEF TypeInv, TypeOK, TurnInv
<1>5. ASSUME NEW a \in Actor, NEW L \in List, NEW p \in Proc \cup {NoProc},
             NEW pc \in {"etest", "gtest"}
      PROVE  /\ Section(a, pc, L, p) \in SectionType
             /\ Section(a, pc, L, p).pc = pc /\ Section(a, pc, L, p).list = L
             /\ Section(a, pc, L, p).proc = p /\ Section(a, pc, L, p).holder = a
  BY Constants DEF Section, SectionType, EnqPC, DeqPC, Count
<1>6. NoSection.pc = "free"  BY DEF NoSection, Section
<1>7. ASSUME NEW c \in CPU, Stay(c) PROVE TypeInv'
  <2>1. SecInv'  BY <1>1, <1>7 DEF Stay, TypeInv, SecInv, lists
  <2>2. TurnInv'
    BY <1>4, <1>7, Constants DEF Stay, TypeInv, TurnInv, Entering, Leaving
  <2> QED  BY <2>1, <2>2, <1>3, <1>4, <1>7 DEF Stay
<1>8. ASSUME NEW c \in CPU, Finish(c) PROVE TypeInv'
  <2>1. SecInv'  BY <1>1, <1>8 DEF Finish, TypeInv, SecInv, lists
  <2>2. hand' \in [Actor -> Proc \cup {NoProc}] /\ over' \subseteq Proc
    BY <1>4, <1>8, Constants DEF Finish
  <2>3. TurnInv'
    BY <1>4, <1>8, Constants DEF Finish, TypeInv, TurnInv, Entering, Leaving
  <2> QED  BY <2>1, <2>2, <2>3, <1>3
<1>9. ASSUME NEW c \in CPU, PutBack(c) PROVE TypeInv'
  <2>1. hand' \in [Actor -> Proc \cup {NoProc}] /\ over' \subseteq Proc
    BY <1>4, <1>9, Constants DEF PutBack
  <2>2. hand[c] \in Proc /\ sec' = Section(c, "etest", "ready", hand[c]) /\ c \in Actor
    BY <1>4, <1>9, Constants DEF PutBack
  <2>3. /\ sec' \in SectionType /\ sec'.pc = "etest" /\ sec'.list = "ready"
        /\ sec'.proc \in Proc
    BY <2>2, <1>5, Constants
  <2>4. SecInv'  BY <2>3 DEF SecInv, EnqPC
  <2>5. TurnInv'
    BY <1>4, <1>9, <2>3, Constants
    DEF PutBack, TypeInv, TurnInv, Entering, Leaving, EnqPC, DeqPC
  <2> QED  BY <2>1, <2>4, <2>5, <1>3
<1>10. ASSUME NEW c \in CPU, GetProc(c) PROVE TypeInv'
  <2>1. sec' = Section(c, "gtest", "ready", NoProc) /\ c \in Actor
    BY <1>10, Constants DEF GetProc
  <2>2. /\ sec' \in SectionType /\ sec'.pc = "gtest" /\ sec'.list = "ready"
        /\ sec'.proc = NoProc /\ sec'.holder = c
    BY <2>1, <1>5, Constants
  <2>3. SecInv'  BY <2>2 DEF SecInv, EnqPC
  <2>4. hand' = hand /\ hand[c] = NoProc  BY <1>10 DEF GetProc, TypeInv, TurnInv
  <2>5. TurnInv'
    BY <1>4, <1>10, <2>2, <2>4, Constants
    DEF GetProc, TypeInv, TurnInv, Entering, Leaving, EnqPC, DeqPC
  <2> QED  BY <2>3, <2>4, <2>5, <1>3, <1>4, <1>10 DEF GetProc
<1>11. ASSUME AddProc PROVE TypeInv'
  <2>1. sec' = Section(Loader, "etest", "running", hand[Loader]) /\ hand[Loader] \in Proc
    BY <1>11 DEF AddProc, TypeInv, TurnInv
  <2>2. /\ sec' \in SectionType /\ sec'.pc = "etest" /\ sec'.list = "running"
        /\ sec'.proc = hand[Loader] /\ sec'.proc \in Proc
    BY <2>1, <1>5, Constants
  <2>3. SecInv'  BY <2>2 DEF SecInv, EnqPC
  <2>4. TurnInv'
    BY <1>4, <1>11, <2>1, <2>2, Constants
    DEF AddProc, TypeInv, TurnInv, Entering, Leaving, EnqPC, DeqPC
  <2> QED  BY <2>3, <2>4, <1>3, <1>4, <1>11 DEF AddProc
<1>12. ASSUME AddMlqProc PROVE TypeInv'
  <2>1. sec' = Section(Loader, "etest", "ready", hand[Loader]) /\ hand[Loader] \in Proc
    BY <1>12 DEF AddMlqProc, TypeInv, TurnInv
  <2>2. /\ sec' \in SectionType /\ sec'.pc = "etest" /\ sec'.list = "ready"
        /\ sec'.proc \in Proc
    BY <2>1, <1>5, Constants
  <2>3. SecInv'  BY <2>2 DEF SecInv, EnqPC
  <2>4. hand' \in [Actor -> Proc \cup {NoProc}] /\ over' \subseteq Proc
    BY <1>4, <1>12, Constants DEF AddMlqProc
  <2>5. TurnInv'
    BY <1>4, <1>12, <2>2, Constants
    DEF AddMlqProc, TypeInv, TurnInv, Entering, Leaving, EnqPC, DeqPC
  <2> QED  BY <2>3, <2>4, <2>5, <1>3
<1> QED  BY <1>1, <1>7, <1>8, <1>9, <1>10, <1>11, <1>12 DEF TurnStep

\* Steps of enqueue and dequeue
LEMMA TypeSection == ASSUME TypeInv, Move(SectionStep) PROVE TypeInv'
<1>1. /\ UNCHANGED <<target, away, killer, over, turn>> /\ met' \subseteq List
      /\ SectionStep
  BY DEF Move, TypeInv, SectionStep, EnqTest, EnqRead, EnqWrite, EnqStore, GetNothing, GetSome,
         DeqTest, DeqScan, DeqTake, DeqDecRead, DeqDecWrite, DeqShift, DeqShiftRead,
         DeqShiftWrite, DeqClear
<1>2. /\ MAX_QUEUE_SIZE \in Nat /\ Slot = 0 .. MAX_QUEUE_SIZE - 1
  BY Constants DEF Slot
<1>3. /\ turn \in [Actor -> {"first", "get", "add", "addmlq", "done"}]
      /\ hand \in [Actor -> Proc \cup {NoProc}]
      /\ arr \in [List -> [Slot -> Proc \cup {NoProc}]] /\ size \in [List -> Count]
      /\ ideal \in [List -> Seq(Proc)]
      /\ sec \in SectionType
      /\ sec.list \in List /\ sec.proc \in Proc \cup {NoProc} /\ sec.i \in 0 .. MAX_QUEUE_SIZE
      /\ sec.n \in Count /\ sec.holder \in Actor \cup {NoProc} /\ size[sec.list] \in Count
  BY DEF TypeInv, TypeOK, TurnInv, SecInv, SectionType
<1>4. ASSUME SecInv', TurnInv', hand' \in [Actor -> Proc \cup {NoProc}],
             arr' \in [List -> [Slot -> Proc \cup {NoProc}]], size' \in [List -> Count],
             ideal' \in [List -> Seq(Proc)]
      PROVE  TypeInv'
  <2>1. TypeOK'  BY <1>1, <1>4 DEF TypeInv, TypeOK, SecInv, SectionType, killer
  <2>2. KillerInv'  BY <1>1 DEF TypeInv, KillerInv, killer
  <2> QED  BY <1>1, <1>4, <2>1, <2>2 DEF TypeInv
\* The section ends
<1>5. ASSUME sec' = NoSection PROVE SecInv' /\ ~Entering("running")' /\ ~Leaving'
  <2>1. NoSection \in SectionType /\ NoSection.pc = "free"
    BY Constants DEF NoSection, Section, SectionType, Count
  <2> QED  BY <1>5, <2>1 DEF SecInv, Entering, Leaving, EnqPC, DeqPC
<1>6. ASSUME sec' = NoSection, hand' \in [Actor -> Proc \cup {NoProc}],
             \A a \in Actor : hand'[a] = hand[a] \/ (a = sec.holder /\ Leaving)
      PROVE  TurnInv'
  BY <1>1, <1>5, <1>6, Constants DEF TypeInv, TurnInv
\* It goes on, with the same list, hands and holder
<1>7. ASSUME UNCHANGED <<hand>>, sec'.list = sec.list, sec'.holder = sec.holder,
             sec.pc \in EnqPC => sec'.pc \in EnqPC /\ sec'.proc = sec.proc,
             sec.pc \in DeqPC => sec'.pc \in DeqPC, sec.pc \in EnqPC \cup DeqPC
      PROVE  TurnInv'
  BY <1>1, <1>7 DEF TypeInv, TurnInv, Entering, Leaving, EnqPC, DeqPC
<1>8. ASSUME sec' = NoSection, UNCHANGED <<lists, hand, ideal>> PROVE TypeInv'
  BY <1>3, <1>4, <1>5, <1>6, <1>8 DEF lists
<1>9. CASE EnqTest
  <2>1. sec.pc = "etest" /\ UNCHANGED <<lists, hand, ideal>>  BY <1>9 DEF EnqTest
  <2>2. CASE size[sec.list] < MAX_QUEUE_SIZE
    <3>1. sec' = [sec EXCEPT !.pc = "eread"]  BY <1>9, <2>2 DEF EnqTest
    <3>2. sec' \in SectionType /\ sec'.pc = "eread" /\ sec'.list = sec.list
          /\ sec'.holder = sec.holder /\ sec'.proc = sec.proc
      BY <1>3, <3>1 DEF SectionType, EnqPC
    <3>3. SecInv'  BY <2>1, <2>2, <3>2 DEF TypeInv, SecInv, EnqPC, lists
    <3>4. TurnInv'  BY <2>1, <3>2, <1>7 DEF EnqPC, DeqPC
    <3> QED  BY <2>1, <3>3, <3>4, <1>3, <1>4 DEF lists
  <2>3. CASE ~(size[sec.list] < MAX_QUEUE_SIZE)
    <3>1. sec' = NoSection  BY <1>9, <2>3 DEF EnqTest
    <3> QED  BY <2>1, <3>1, <1>8
  <2> QED  BY <2>2, <2>3
<1>10. CASE EnqRead
  <2>1. /\ sec.pc = "eread" /\ UNCHANGED <<lists, hand, ideal>>
        /\ sec' = [sec EXCEPT !.pc = "ewrite", !.n = size[sec.list]]
    BY <1>10 DEF EnqRead
  <2>2. sec' \in SectionType /\ sec'.pc = "ewrite" /\ sec'.list = sec.list
        /\ sec'.holder = sec.holder /\ sec'.proc = sec.proc /\ sec'.n = size[sec.list]
    BY <1>3, <2>1 DEF SectionType, EnqPC
  <2>3. SecInv'  BY <2>1, <2>2 DEF TypeInv, SecInv, EnqPC, lists
  <2>4. TurnInv'  BY <2>1, <2>2, <1>7 DEF EnqPC, DeqPC
  <2> QED  BY <2>1, <2>3, <2>4, <1>3, <1>4 DEF lists
<1>11. CASE EnqWrite
  <2>1. /\ sec.pc = "ewrite" /\ UNCHANGED <<arr, hand, ideal>>
        /\ sec' = [sec EXCEPT !.pc = "estore"] /\ size' = [size EXCEPT ![sec.list] = sec.n + 1]
    BY <1>11 DEF EnqWrite
  <2>2. sec' \in SectionType /\ sec'.pc = "estore" /\ sec'.list = sec.list
        /\ sec'.holder = sec.holder /\ sec'.proc = sec.proc /\ sec'.n = sec.n
    BY <1>3, <2>1 DEF SectionType, EnqPC
  <2>3. SecInv'  BY <2>1, <2>2 DEF TypeInv, SecInv, EnqPC
  <2>4. TurnInv'  BY <2>1, <2>2, <1>7 DEF EnqPC, DeqPC
  <2>5. sec.n + 1 \in Count
    <3>1. sec.n \in Int /\ sec.n < MAX_QUEUE_SIZE  BY <1>3, <2>1 DEF TypeInv, SecInv, Count
    <3> QED  BY <3>1, <1>2 DEF Count
  <2>6. size' \in [List -> Count]  BY <1>3, <2>1, <2>5
  <2> QED  BY <2>1, <2>3, <2>4, <2>6, <1>3, <1>4
<1>12. CASE EnqStore
  <2>1. /\ sec.pc = "estore" /\ UNCHANGED <<size, hand>> /\ sec' = NoSection
        /\ ideal' = [ideal EXCEPT ![sec.list] = Append(@, sec.proc)]
    BY <1>12 DEF EnqStore
  <2>2. arr' \in [List -> [Slot -> Proc \cup {NoProc}]]
    <3>1. CASE sec.n \in Slot
      <4>1. arr' = [arr EXCEPT ![sec.list][sec.n] = sec.proc]  BY <1>12, <3>1 DEF EnqStore
      <4> QED  BY <1>3, <3>1, <4>1
    <3>2. CASE sec.n \notin Slot  BY <1>12, <1>3, <3>2 DEF EnqStore
    <3> QED  BY <3>1, <3>2
  <2>3. ideal' \in [List -> Seq(Proc)]
    <3>1. sec.proc \in Proc  BY <2>1 DEF TypeInv, SecInv, EnqPC
    <3>2. Append(ideal[sec.list], sec.proc) \in Seq(Proc)  BY <3>1, <1>3, AppendTo
    <3> QED  BY <2>1, <3>2, <1>3
  <2> QED  BY <2>1, <2>2, <2>3, <1>3, <1>4, <1>5, <1>6
<1>13. CASE GetNothing  BY <1>8, <1>13 DEF GetNothing
<1>14. CASE GetSome
  <2>1. sec.pc = "gtest" /\ UNCHANGED <<lists, hand, ideal>> /\ sec' = [sec EXCEPT !.pc = "dtest"]
    BY <1>14 DEF GetSome
  <2>2. sec' \in SectionType /\ sec'.pc = "dtest" /\ sec'.list = sec.list
        /\ sec'.holder = sec.holder /\ sec'.proc = sec.proc
    BY <1>3, <2>1 DEF SectionType, DeqPC
  <2>3. SecInv'  BY <2>1, <2>2 DEF TypeInv, SecInv, EnqPC
  <2>4. TurnInv'  BY <2>1, <2>2, <1>7 DEF EnqPC, DeqPC
  <2> QED  BY <2>1, <2>3, <2>4, <1>3, <1>4 DEF lists
<1>15. CASE DeqTest
  <2>1. sec.pc = "dtest" /\ UNCHANGED <<lists, hand, ideal>>  BY <1>15 DEF DeqTest
  <2>2. CASE size[sec.list] # 0
    <3>1. sec' = [sec EXCEPT !.pc = "scan"]  BY <1>15, <2>2 DEF DeqTest
    <3>2. sec' \in SectionType /\ sec'.pc = "scan" /\ sec'.list = sec.list
          /\ sec'.holder = sec.holder /\ sec'.proc = sec.proc
      BY <1>3, <3>1 DEF SectionType, DeqPC
    <3>3. SecInv'  BY <2>1, <3>2 DEF TypeInv, SecInv, EnqPC
    <3>4. TurnInv'  BY <2>1, <3>2, <1>7 DEF EnqPC, DeqPC
    <3> QED  BY <2>1, <3>3, <3>4, <1>3, <1>4 DEF lists
  <2>3. CASE size[sec.list] = 0
    <3>1. sec' = NoSection  BY <1>15, <2>3 DEF DeqTest
    <3> QED  BY <2>1, <3>1, <1>8
  <2> QED  BY <2>2, <2>3
<1>16. CASE DeqScan
  <2>1. sec.pc = "scan" /\ UNCHANGED <<lists, hand, ideal>>  BY <1>16 DEF DeqScan
  <2>2. CASE sec.i >= size[sec.list]
    <3>1. sec' = sec  BY <1>16, <2>2 DEF DeqScan
    <3>2. SecInv' /\ TurnInv'
      BY <1>1, <2>1, <3>1 DEF TypeInv, SecInv, TurnInv, lists, Entering, Leaving
    <3> QED  BY <2>1, <3>2, <1>3, <1>4 DEF lists
  <2>3. CASE ~(sec.i >= size[sec.list])
    <3>1. sec.i \in Nat /\ sec.i < MAX_QUEUE_SIZE /\ sec.i + 1 \in 0 .. MAX_QUEUE_SIZE
      BY <1>2, <1>3, <2>3 DEF Count
    <3>2. CASE arr[sec.list][sec.i] # NoProc
      <4>1. sec' = [sec EXCEPT !.pc = "take"]  BY <1>16, <2>3, <3>2 DEF DeqScan
      <4>2. sec' \in SectionType /\ sec'.pc = "take" /\ sec'.list = sec.list
            /\ sec'.holder = sec.holder /\ sec'.proc = sec.proc /\ sec'.i = sec.i
        BY <1>3, <4>1 DEF SectionType, DeqPC
      <4>3. SecInv'  BY <2>1, <3>1, <4>2 DEF TypeInv, SecInv, EnqPC
      <4>4. TurnInv'  BY <2>1, <4>2, <1>7 DEF EnqPC, DeqPC
      <4> QED  BY <2>1, <4>3, <4>4, <1>3, <1>4 DEF lists
    <3>3. CASE arr[sec.list][sec.i] = NoProc
      <4>1. sec' = [sec EXCEPT !.i = @ + 1]  BY <1>16, <2>3, <3>3 DEF DeqScan
      <4>2. sec' \in SectionType /\ sec'.pc = "scan" /\ sec'.list = sec.list
            /\ sec'.holder = sec.holder /\ sec'.proc = sec.proc
        BY <1>3, <2>1, <3>1, <4>1 DEF SectionType
      <4>3. SecInv'  BY <2>1, <4>2 DEF TypeInv, SecInv, EnqPC
      <4>4. TurnInv'  BY <2>1, <4>2, <1>7 DEF EnqPC, DeqPC
      <4> QED  BY <2>1, <4>3, <4>4, <1>3, <1>4 DEF lists
    <3> QED  BY <3>2, <3>3
  <2> QED  BY <2>2, <2>3
<1>17. CASE DeqTake
  <2>1. /\ sec.pc = "take" /\ UNCHANGED <<lists, hand, ideal>>
        /\ sec' = [sec EXCEPT !.pc = "dec", !.proc = arr[sec.list][sec.i]]
    BY <1>17 DEF DeqTake
  <2>2. arr[sec.list][sec.i] \in Proc \cup {NoProc}
    <3>1. sec.i \in Slot  BY <1>2, <1>3, <2>1 DEF TypeInv, SecInv
    <3> QED  BY <3>1, <1>3
  <2>3. sec' \in SectionType /\ sec'.pc = "dec" /\ sec'.list = sec.list
        /\ sec'.holder = sec.holder
    BY <1>3, <2>1, <2>2 DEF SectionType, DeqPC
  <2>4. SecInv'  BY <2>3 DEF SecInv, EnqPC
  <2>5. TurnInv'  BY <2>1, <2>3, <1>7 DEF EnqPC, DeqPC
  <2> QED  BY <2>1, <2>4, <2>5, <1>3, <1>4 DEF lists
<1>18. CASE DeqDecRead
  <2>1. /\ sec.pc = "dec" /\ UNCHANGED <<lists, hand, ideal>>
        /\ sec' = [sec EXCEPT !.pc = "store", !.n = size[sec.list]]
    BY <1>18 DEF DeqDecRead
  <2>2. sec' \in SectionType /\ sec'.pc = "store" /\ sec'.list = sec.list
        /\ sec'.holder = sec.holder
    BY <1>3, <2>1 DEF SectionType, DeqPC
  <2>3. SecInv'  BY <2>2 DEF SecInv, EnqPC
  <2>4. TurnInv'  BY <2>1, <2>2, <1>7 DEF EnqPC, DeqPC
  <2> QED  BY <2>1, <2>3, <2>4, <1>3, <1>4 DEF lists
<1>19. CASE DeqDecWrite
  <2>1. /\ sec.pc = "store" /\ UNCHANGED <<arr, hand, ideal>>
        /\ sec' = [sec EXCEPT !.pc = "shift"] /\ size' = [size EXCEPT ![sec.list] = sec.n - 1]
    BY <1>19 DEF DeqDecWrite
  <2>2. sec' \in SectionType /\ sec'.pc = "shift" /\ sec'.list = sec.list
        /\ sec'.holder = sec.holder
    BY <1>3, <2>1 DEF SectionType, DeqPC
  <2>3. sec.n - 1 \in Count /\ sec.n - 1 < MAX_QUEUE_SIZE  BY <1>2, <1>3 DEF Count
  <2>4. size' \in [List -> Count] /\ size'[sec.list] = sec.n - 1  BY <1>3, <2>1, <2>3
  <2>5. SecInv'  BY <2>2, <2>3, <2>4 DEF SecInv, EnqPC
  <2>6. TurnInv'  BY <2>1, <2>2, <1>7 DEF EnqPC, DeqPC
  <2> QED  BY <2>1, <2>4, <2>5, <2>6, <1>3, <1>4
<1>20. CASE DeqShift
  <2>1. /\ sec.pc = "shift" /\ UNCHANGED <<lists, hand, ideal>>
        /\ sec' = [sec EXCEPT !.pc = IF sec.i < size[sec.list] THEN "copy" ELSE "clear"]
    BY <1>20 DEF DeqShift
  <2>2. /\ sec' \in SectionType /\ sec'.list = sec.list /\ sec'.holder = sec.holder
        /\ sec'.i = sec.i
        /\ sec'.pc = IF sec.i < size[sec.list] THEN "copy" ELSE "clear"
    BY <1>3, <2>1 DEF SectionType, DeqPC
  <2>3. size[sec.list] < MAX_QUEUE_SIZE  BY <2>1 DEF TypeInv, SecInv
  <2>4. sec.i < size[sec.list] => sec.i + 1 < MAX_QUEUE_SIZE
    BY <1>2, <1>3, <2>3 DEF Count
  <2>5. SecInv'  BY <2>1, <2>2, <2>3, <2>4 DEF SecInv, EnqPC, lists
  <2>6. TurnInv'  BY <2>1, <2>2, <1>7 DEF EnqPC, DeqPC
  <2> QED  BY <2>1, <2>5, <2>6, <1>3, <1>4 DEF lists
<1>21. CASE DeqShiftRead
  <2>1. /\ sec.pc = "copy" /\ UNCHANGED <<lists, hand, ideal>>
        /\ sec' = [sec EXCEPT !.pc = "put", !.v = arr[sec.list][sec.i + 1]]
    BY <1>21 DEF DeqShiftRead
  <2>2. size[sec.list] < MAX_QUEUE_SIZE /\ sec.i + 1 < MAX_QUEUE_SIZE
    BY <2>1 DEF TypeInv, SecInv
  <2>3. arr[sec.list][sec.i + 1] \in Proc \cup {NoProc}
    <3>1. sec.i + 1 \in Slot  BY <1>2, <1>3, <2>2
    <3> QED  BY <1>3, <3>1
  <2>4. /\ sec' \in SectionType /\ sec'.pc = "put" /\ sec'.list = sec.list
        /\ sec'.holder = sec.holder /\ sec'.i = sec.i
    BY <1>3, <2>1, <2>3 DEF SectionType, DeqPC
  <2>5. SecInv'  BY <2>1, <2>2, <2>4 DEF SecInv, EnqPC, lists
  <2>6. TurnInv'  BY <2>1, <2>4, <1>7 DEF EnqPC, DeqPC
  <2> QED  BY <2>1, <2>5, <2>6, <1>3, <1>4 DEF lists
<1>22. CASE DeqShiftWrite
  <2>1. /\ sec.pc = "put" /\ UNCHANGED <<size, hand, ideal>>
        /\ arr' = [arr EXCEPT ![sec.list][sec.i] = sec.v]
        /\ sec' = [sec EXCEPT !.pc = "shift", !.i = @ + 1, !.v = NoProc]
    BY <1>22 DEF DeqShiftWrite
  <2>2. size[sec.list] < MAX_QUEUE_SIZE /\ sec.i + 1 < MAX_QUEUE_SIZE
    BY <2>1 DEF TypeInv, SecInv
  <2>3. sec.i \in Slot /\ sec.i + 1 \in 0 .. MAX_QUEUE_SIZE  BY <1>2, <1>3, <2>2
  <2>4. /\ sec' \in SectionType /\ sec'.pc = "shift" /\ sec'.list = sec.list
        /\ sec'.holder = sec.holder
    BY <1>3, <2>1, <2>3 DEF SectionType, DeqPC
  <2>5. arr' \in [List -> [Slot -> Proc \cup {NoProc}]]
    <3>1. sec.v \in Proc \cup {NoProc}  BY <1>3 DEF SectionType
    <3> QED  BY <1>3, <2>1, <2>3, <3>1
  <2>6. SecInv'  BY <2>1, <2>2, <2>4 DEF SecInv, EnqPC
  <2>7. TurnInv'  BY <2>1, <2>4, <1>7 DEF EnqPC, DeqPC
  <2> QED  BY <2>1, <2>5, <2>6, <2>7, <1>3, <1>4
<1>23. CASE DeqClear
  <2>1. /\ sec.pc = "clear" /\ UNCHANGED size /\ sec' = NoSection
        /\ hand' = [hand EXCEPT ![sec.holder] = sec.proc]
        /\ ideal' = [ideal EXCEPT ![sec.list] = IF @ = <<>> THEN @ ELSE Tail(@)]
    BY <1>23 DEF DeqClear
  <2>2. arr' \in [List -> [Slot -> Proc \cup {NoProc}]]
    <3>1. CASE size[sec.list] \in Slot
      <4>1. arr' = [arr EXCEPT ![sec.list][size[sec.list]] = NoProc]
        BY <1>23, <3>1 DEF DeqClear
      <4> QED  BY <1>3, <3>1, <4>1
    <3>2. CASE size[sec.list] \notin Slot  BY <1>23, <1>3, <3>2 DEF DeqClear
    <3> QED  BY <3>1, <3>2
  <2>3. ideal' \in [List -> Seq(Proc)]
    <3>1. ideal[sec.list] # <<>> => Tail(ideal[sec.list]) \in Seq(Proc)  BY <1>3, TailOf
    <3> QED  BY <2>1, <3>1, <1>3
  <2>4. hand' \in [Actor -> Proc \cup {NoProc}]
        /\ \A a \in Actor : hand'[a] = hand[a] \/ a = sec.holder
    BY <1>3, <2>1
  <2>5. Leaving  BY <2>1 DEF Leaving, DeqPC
  <2> QED  BY <2>1, <2>2, <2>3, <2>4, <2>5, <1>3, <1>4, <1>5, <1>6
<1> QED  BY <1>1, <1>9, <1>10, <1>11, <1>12, <1>13, <1>14, <1>15, <1>16, <1>17, <1>18,
       <1>19, <1>20, <1>21, <1>22, <1>23 DEF SectionStep

\* The orders a set of processes can have in a queue
LEMMA OrderOf ==
    ASSUME NEW S, S \subseteq Proc, NEW s \in Orders(S)
    PROVE  /\ s \in Seq(Proc) /\ IsInjective(s) /\ Len(s) <= MAX_QUEUE_SIZE
           /\ Range(s) = S
<1>1. /\ IsFiniteSet(Proc) /\ MAX_QUEUE_SIZE \in Nat
      /\ Cardinality(Proc) <= MAX_QUEUE_SIZE
  BY KillallAssumption
<1>2. IsFiniteSet(S) /\ Cardinality(S) <= Cardinality(Proc)  BY <1>1, FS_Subset
<1>3. Cardinality(S) \in Nat /\ Cardinality(Proc) \in Nat  BY <1>1, <1>2, FS_CardinalityType
<1>4. s \in [1 .. Cardinality(S) -> S] /\ IsInjective(s)  BY DEF Orders
<1>5. s \in Seq(Proc) /\ Len(s) = Cardinality(S)  BY <1>3, <1>4
<1>6. s \in Surjection(1 .. Cardinality(S), S)
  <2> DEFINE n == Cardinality(S)
  <2>1. s \in Injection(1 .. n, S)  BY <1>4 DEF Injection, IsInjective
  <2>2. Cardinality(1 .. n) = n  BY <1>3, FS_Interval
  <2> HIDE DEF n
  <2>3. Cardinality(1 .. n) = Cardinality(S)  BY <2>2 DEF n
  <2> QED  BY <1>2, <2>1, <2>3, FS_Injection DEF n
<1>7. Range(s) = S
  <2>1. Range(s) \subseteq S  BY <1>4 DEF Range
  <2>2. S \subseteq Range(s)  BY <1>4, <1>6 DEF Range, Surjection
  <2> QED  BY <2>1, <2>2
<1> QED  BY <1>1, <1>2, <1>3, <1>4, <1>5, <1>7

\* An array of queue.h that holds s
LEMMA FilledOf ==
    ASSUME NEW s \in Seq(Proc)
    PROVE  /\ Filled(s) \in [Slot -> Proc \cup {NoProc}]
           /\ \A k \in Slot : Filled(s)[k] = IF k < Len(s) THEN s[k + 1] ELSE NoProc
<1>1. ASSUME NEW k \in Slot, k < Len(s) PROVE s[k + 1] \in Proc
  <2>1. k + 1 \in 1 .. Len(s)  BY <1>1 DEF Slot
  <2> QED  BY <2>1
<1> QED  BY <1>1 DEF Filled

\* The slot begins
LEMMA InitFacts ==
    ASSUME Init
    PROVE  /\ ideal \in [List -> Seq(Proc)]
           /\ \A L \in List : /\ IsInjective(ideal[L]) /\ Len(ideal[L]) <= MAX_QUEUE_SIZE
                              /\ size[L] = Len(ideal[L]) /\ arr[L] = Filled(ideal[L])
           /\ arr \in [List -> [Slot -> Proc \cup {NoProc}]] /\ size \in [List -> Count]
           /\ hand \in [Actor -> Proc \cup {NoProc}]
           /\ over \subseteq Proc /\ away \subseteq Proc
           /\ away \cap Range(ideal["ready"]) = {}
           /\ \A a \in Actor : hand[a] \notin Range(ideal["ready"]) \cup away
           /\ \A a, b \in Actor : hand[a] = hand[b] /\ hand[a] # NoProc => a = b
           /\ hand[Loader] \notin Range(ideal["running"])
           /\ \A p \in Victim \ over : \/ p \in Range(ideal["ready"]) \cup away
                                       \/ \E a \in Actor : hand[a] = p
           /\ \A p \in Proc : p \in Range(ideal["running"]) \/ p = hand[Loader]
<1>1. PICK where \in [Victim -> {"queue", "elsewhere", "over", "fresh"} \cup CPU] :
          LET At(w) == {p \in Victim : where[p] = w} IN
          /\ \A a \in CPU \cup {"fresh"} : Cardinality(At(a)) <= 1
          /\ \E q \in Orders(At("queue")), r \in Orders(Proc \ At("fresh")) :
                /\ ideal = [L \in List |-> IF L = "ready" THEN q ELSE r]
                /\ arr = [L \in List |-> Filled(ideal[L])]
                /\ size = [L \in List |-> Len(ideal[L])]
          /\ LET Sole(a) == IF At(a) = {} THEN NoProc ELSE CHOOSE p \in At(a) : TRUE IN
             hand = [a \in Actor |-> Sole(IF a = Loader THEN "fresh" ELSE a)]
          /\ over = At("over")
          /\ away = At("elsewhere")
  BY DEF Init
<1> DEFINE At(w) == {p \in Victim : where[p] = w}
           Name(a) == IF a = Loader THEN "fresh" ELSE a
<1>2. PICK q \in Orders(At("queue")), r \in Orders(Proc \ At("fresh")) :
         /\ ideal = [L \in List |-> IF L = "ready" THEN q ELSE r]
         /\ arr = [L \in List |-> Filled(ideal[L])]
         /\ size = [L \in List |-> Len(ideal[L])]
  BY <1>1
<1>3. /\ q \in Seq(Proc) /\ IsInjective(q) /\ Len(q) <= MAX_QUEUE_SIZE
      /\ Range(q) = At("queue")
      /\ r \in Seq(Proc) /\ IsInjective(r) /\ Len(r) <= MAX_QUEUE_SIZE
      /\ Range(r) = Proc \ At("fresh")
  <2>1. At("queue") \subseteq Proc /\ Proc \ At("fresh") \subseteq Proc  BY DEF Victim
  <2> HIDE DEF At
  <2> QED  BY <2>1, OrderOf
<1>4. over = At("over") /\ away = At("elsewhere")  BY <1>1
<1>5. ASSUME NEW a \in Actor, NEW p \in At(Name(a)) PROVE hand[a] = p
  <2> DEFINE Sole(w) == IF At(w) = {} THEN NoProc ELSE CHOOSE x \in At(w) : TRUE
             S == At(Name(a))
  <2>1. hand[a] = Sole(Name(a))  BY <1>1
  <2>2. p \in S /\ Sole(Name(a)) \in S  BY <1>5
  <2>3. Cardinality(S) <= 1
    <3>1. Name(a) \in CPU \cup {"fresh"}  BY DEF Actor
    <3> HIDE DEF Name
    <3> QED  BY <1>1, <3>1
  <2>4. IsFiniteSet(S)
    <3>1. S \subseteq Proc  BY DEF Victim
    <3> QED  BY <3>1, KillallAssumption, FS_Subset
  <2> HIDE DEF S, Sole, Name, At
  <2>5. IsFiniteSet(S \ {p}) /\ Cardinality(S \ {p}) = Cardinality(S) - 1
    BY <2>2, <2>4, FS_RemoveElement
  <2>6. Cardinality(S) \in Nat /\ Cardinality(S \ {p}) \in Nat
    BY <2>4, <2>5, FS_CardinalityType
  <2>7. Cardinality(S \ {p}) = 0  BY <2>3, <2>5, <2>6
  <2>8. S \ {p} = {}  BY <2>5, <2>7, FS_EmptySet
  <2> QED  BY <2>1, <2>2, <2>8
<1>6. ASSUME NEW a \in Actor
      PROVE  hand[a] = NoProc \/ (hand[a] \in Victim /\ where[hand[a]] = Name(a))
  <2> DEFINE Sole(w) == IF At(w) = {} THEN NoProc ELSE CHOOSE p \in At(w) : TRUE
  <2>1. hand[a] = Sole(Name(a))  BY <1>1
  <2>2. \A w : Sole(w) = NoProc \/ Sole(w) \in At(w)  OBVIOUS
  <2> HIDE DEF Sole, Name
  <2> QED  BY <2>1, <2>2
<1>7. DOMAIN hand = Actor /\ hand = [a \in Actor |-> hand[a]]  BY <1>1
<1>8. /\ NoProc \notin Proc /\ CPU \cap {Loader, "queue", "elsewhere", "over", "fresh"} = {}
  BY KillallAssumption
<1>9. \A a, b \in Actor : Name(a) = Name(b) => a = b  BY <1>8 DEF Actor
<1>10. \A a \in Actor : Name(a) # "queue" /\ Name(a) # "elsewhere"  BY <1>8 DEF Actor
<1>11. Name(Loader) = "fresh" /\ Loader \in Actor  BY DEF Actor
<1>12. \A c \in CPU : Name(c) = c /\ c \in Actor  BY <1>8 DEF Actor
<1> HIDE DEF Name
<1>13. hand \in [Actor -> Proc \cup {NoProc}]  BY <1>6, <1>7 DEF Victim
<1>14. \A L \in List : /\ ideal[L] \in Seq(Proc) /\ IsInjective(ideal[L])
                       /\ Len(ideal[L]) <= MAX_QUEUE_SIZE /\ Len(ideal[L]) \in Nat
                       /\ size[L] = Len(ideal[L]) /\ arr[L] = Filled(ideal[L])
  BY <1>2, <1>3
<1>15. ideal \in [List -> Seq(Proc)] /\ size \in [List -> Count]
  BY <1>2, <1>14 DEF Count
<1>16. arr \in [List -> [Slot -> Proc \cup {NoProc}]]
  <2>1. \A L \in List : arr[L] \in [Slot -> Proc \cup {NoProc}]  BY <1>14, FilledOf
  <2> QED  BY <1>2, <2>1
<1>17. ideal["ready"] = q /\ ideal["running"] = r  BY <1>2 DEF List
<1>18. ASSUME NEW p \in Range(q) PROVE p \in Proc /\ where[p] = "queue"
  BY <1>3 DEF Victim
<1>19. \A p \in away : p \in Proc /\ where[p] = "elsewhere"  BY <1>4 DEF Victim
<1>20. away \cap Range(q) = {}  BY <1>18, <1>19
<1>21. \A a \in Actor : hand[a] \notin Range(q) \cup away
  BY <1>6, <1>8, <1>10, <1>18, <1>19
<1>22. \A a, b \in Actor : hand[a] = hand[b] /\ hand[a] # NoProc => a = b
  BY <1>6, <1>9
<1>23. hand[Loader] \notin Range(r)
  <2>1. hand[Loader] = NoProc \/ hand[Loader] \in At("fresh")  BY <1>6, <1>11
  <2> HIDE DEF At
  <2> QED  BY <2>1, <1>3, <1>8
<1>24. ASSUME NEW p \in Proc PROVE p \in Range(r) \/ p = hand[Loader]
  <2>1. p \in At("fresh") => p = hand[Loader]  BY <1>11, <1>5
  <2> HIDE DEF At
  <2> QED  BY <1>3, <2>1
<1>25. ASSUME NEW p \in Victim \ over
       PROVE  p \in Range(q) \cup away \/ \E a \in Actor : hand[a] = p
  <2>1. p \in At(where[p])  OBVIOUS
  <2>2. where[p] \in {"queue", "elsewhere", "over", "fresh"} \cup CPU  BY <1>1
  <2>3. CASE where[p] \in CPU  BY <1>5, <1>12, <2>1, <2>3
  <2>4. CASE where[p] = "fresh"  BY <1>11, <1>5, <2>1, <2>4
  <2>5. CASE where[p] \in {"queue", "elsewhere", "over"}
    <3> HIDE DEF At
    <3> QED  BY <1>3, <1>4, <1>25, <2>1, <2>5
  <2> QED  BY <2>2, <2>3, <2>4, <2>5
<1>26. over \subseteq Proc /\ away \subseteq Proc  BY <1>4 DEF Victim
<1> QED  BY <1>13, <1>14, <1>15, <1>16, <1>17, <1>20, <1>21, <1>22, <1>23, <1>26, <1>24, <1>25

\* The slot begins with types
LEMMA TypeInit == ASSUME Init PROVE TypeInv
<1>1. /\ target \in Proc /\ kpc = "read" /\ klist = "ready"
      /\ idx = 0 /\ kp = NoProc /\ ki = 0 /\ kn = 0 /\ kv = NoProc /\ given = 0
      /\ sec = NoSection /\ met = {}
      /\ turn = [a \in Actor |->
            IF a # Loader THEN "first" ELSE IF hand[a] = NoProc THEN "done" ELSE "add"]
  BY DEF Init
<1>2. 0 \in Count /\ 0 \in 0 .. MAX_QUEUE_SIZE  BY Constants DEF Count
<1>3. sec \in SectionType /\ sec.pc = "free"
  BY <1>1, <1>2, Constants DEF NoSection, Section, SectionType
<1>4. TypeOK
  BY <1>1, <1>2, <1>3, InitFacts DEF TypeOK, SectionType
<1>5. KillerInv  BY <1>1, Constants DEF KillerInv
<1>6. SecInv  BY <1>1, <1>3 DEF SecInv, EnqPC
<1>7. TurnInv
  <2>1. hand \in [Actor -> Proc \cup {NoProc}]  BY InitFacts
  <2> QED  BY <1>1, <1>3, <2>1, Constants DEF TurnInv, Entering, Leaving, EnqPC, DeqPC
<1> QED  BY <1>1, <1>4, <1>5, <1>6, <1>7, InitFacts DEF TypeInv

\* Every step keeps the types
LEMMA TypeNext == ASSUME TypeInv, [Next]_vars PROVE TypeInv'
<1>1. CASE UNCHANGED vars
  BY <1>1 DEF vars, lists, killer, others, TypeInv, TypeOK, KillerInv, SecInv, TurnInv,
     Entering, Leaving
<1> QED  BY <1>1, TypeKiller, TypeTurn, TypeSection DEF Next

\* Type correctness, for any number of other threads: however they meet, no
\* register leaves the array but those the code does not test (queue.c,
\* sys_killall.c)
THEOREM TypeCorrect == Spec => []TypeOK
<1>1. Init => TypeInv  BY TypeInit
<1>2. TypeInv /\ [Next]_vars => TypeInv'  BY TypeNext
<1>3. TypeInv => TypeOK  BY DEF TypeInv
<1> QED  BY <1>1, <1>2, <1>3, PTL DEF Spec

----------------------------------------------------------------------------
(* What the arrays hold while one of the two works on them.                *)

\* The array of list L is what it would be had each operation been atomic
Exact(L) == size[L] = Len(ideal[L]) /\ arr[L] = Filled(ideal[L])

\* The system call has taken a process out and moves the rest down; the place
\* h is the next to be overwritten
Gap(L, h) ==
    \A k \in Slot \ {h} :
        arr[L][k] = IF k < h THEN ideal[L][k + 1]
                    ELSE IF k <= Len(ideal[L]) THEN ideal[L][k] ELSE NoProc

\* dequeue has taken the first process and moved i of the others down
Half(L, i) ==
    \A k \in Slot :
        arr[L][k] = IF k < i THEN ideal[L][k + 2]
                    ELSE IF k < Len(ideal[L]) THEN ideal[L][k + 1] ELSE NoProc

\* The system call is in its loop over L
KillerAt(L) ==
    LET n == Len(ideal[L]) IN
    /\ n <= MAX_QUEUE_SIZE
    /\ idx <= n
    /\ kpc \in {"test", "load", "match"} => Exact(L)
    /\ kpc \in {"load", "match"} => idx < n
    /\ kpc = "match" => kp = ideal[L][idx + 1]
    /\ kpc \in {"shift", "copy", "put", "dec", "store"} =>
          size[L] = n + 1 /\ Gap(L, ki) /\ ki <= n
    /\ kpc \in {"copy", "put"} => ki < n
    /\ kpc = "put" => kv = ideal[L][ki + 1]
    /\ kpc \in {"dec", "store", "clear"} => ki = n
    /\ kpc = "store" => kn = n + 1
    /\ kpc = "clear" => size[L] = n /\ Gap(L, ki) /\ n < MAX_QUEUE_SIZE

\* A critical section is on L
SectionAt(L) ==
    LET n == Len(ideal[L]) IN
    /\ n <= MAX_QUEUE_SIZE
    /\ sec.pc \notin {"estore", "shift", "copy", "put", "clear"} => Exact(L)
    /\ sec.pc \in {"eread", "ewrite", "estore"} => n < MAX_QUEUE_SIZE
    /\ sec.pc \in {"ewrite", "estore"} => sec.n = n
    /\ sec.pc = "estore" => size[L] = n + 1 /\ arr[L] = Filled(ideal[L])
    /\ sec.pc \notin {"shift", "copy", "put", "clear"} => sec.i = 0
    /\ Leaving /\ sec.pc # "gtest" => n > 0
    /\ sec.pc = "store" => sec.n = n
    /\ sec.pc \in {"dec", "store", "shift", "copy", "put", "clear"} => sec.proc = ideal[L][1]
    /\ sec.pc \in {"shift", "copy", "put", "clear"} =>
          size[L] = n - 1 /\ sec.i < n /\ Half(L, sec.i)
    /\ sec.pc \in {"copy", "put"} => sec.i < n - 1
    /\ sec.pc = "put" => sec.v = ideal[L][sec.i + 2]
    /\ sec.pc = "clear" => sec.i = n - 1

ListInv(L) ==
    L \notin met =>
        /\ ~(Scanning(L) /\ Locked(L))
        /\ Scanning(L) => KillerAt(L)
        /\ Locked(L) => SectionAt(L)
        /\ ~Scanning(L) /\ ~Locked(L) => Exact(L)

ListsInv == \A L \in List : ListInv(L)

\* The queue of priority 0 names a process once; who is in it is in no hand and
\* in no other queue
ReadyInv ==
    "ready" \notin met =>
        LET queue == Range(ideal["ready"]) IN
        /\ IsInjective(ideal["ready"])
        /\ away \cap queue = {}
        /\ \A a \in Actor : hand[a] \notin queue \cup away
        /\ \A a, b \in Actor : hand[a] = hand[b] /\ hand[a] # NoProc => a = b
        /\ Entering("ready") => /\ sec.proc \notin queue \cup away
                                /\ \A a \in Actor : sec.proc # hand[a]

\* running_list names a process once
RunningInv ==
    "running" \notin met =>
        /\ IsInjective(ideal["running"])
        /\ turn[Loader] = "add" => hand[Loader] \notin Range(ideal["running"])
        /\ Entering("running") => sec.proc \notin Range(ideal["running"])

IInv == TypeInv /\ ListsInv /\ ReadyInv /\ RunningInv

\* What TypeInv says of one list
LEMMA ListTypes ==
    ASSUME TypeInv, NEW L \in List
    PROVE  /\ ideal[L] \in Seq(Proc) /\ Len(ideal[L]) \in Nat
           /\ arr[L] \in [Slot -> Proc \cup {NoProc}]
           /\ size[L] \in Int /\ size[L] <= MAX_QUEUE_SIZE
           /\ \A k \in Nat : k < Len(ideal[L]) => ideal[L][k + 1] \in Proc
<1>1. ideal[L] \in Seq(Proc)  BY DEF TypeInv
<1>2. \A k \in Nat : k < Len(ideal[L]) => k + 1 \in 1 .. Len(ideal[L])  BY <1>1
<1>3. \A k \in Nat : k < Len(ideal[L]) => ideal[L][k + 1] \in Proc  BY <1>1, <1>2
<1> QED  BY <1>1, <1>3 DEF TypeInv, TypeOK, Count

\* An array that agrees with s place by place
LEMMA IsFilled ==
    ASSUME NEW s \in Seq(Proc), NEW f \in [Slot -> Proc \cup {NoProc}],
           \A k \in Slot : f[k] = IF k < Len(s) THEN s[k + 1] ELSE NoProc
    PROVE  f = Filled(s)
<1>1. \A k \in Slot : f[k] = Filled(s)[k]  BY FilledOf
<1> QED  BY <1>1, FilledOf

\* The walk of a list that nobody else works on
LEMMA WalkStep ==
    ASSUME TypeInv, KillerStep, kpc \notin {"read", "end"}, KillerAt(klist),
           IsInjective(ideal[klist])
    PROVE  /\ broken' = broken
           /\ EndOfList \/ (klist' = klist /\ kpc' \notin {"read", "end"} /\ KillerAt(klist)')
<1> DEFINE L == klist
           s == ideal[L]
           n == Len(s)
<1>1. L \in List  BY DEF TypeInv, KillerInv
<1>2. /\ s \in Seq(Proc) /\ n \in Nat /\ arr[L] \in [Slot -> Proc \cup {NoProc}]
      /\ size[L] \in Int /\ size[L] <= MAX_QUEUE_SIZE
      /\ \A k \in Nat : k < n => s[k + 1] \in Proc
  BY <1>1, ListTypes
<1>3. /\ idx \in Nat /\ ki \in Nat /\ MAX_QUEUE_SIZE \in Nat
      /\ Slot = 0 .. MAX_QUEUE_SIZE - 1 /\ NoProc \notin Proc
      /\ arr \in [List -> [Slot -> Proc \cup {NoProc}]] /\ size \in [List -> Count]
      /\ ideal \in [List -> Seq(Proc)]
  BY Constants DEF TypeInv, TypeOK, Slot
<1>4. n <= MAX_QUEUE_SIZE /\ idx <= n  BY DEF KillerAt
<1>5. ~ReadName  BY DEF ReadName
<1>6. ~MatchNull
  <2>1. ASSUME kpc = "match" PROVE kp \in Proc  BY <2>1, <1>2, <1>3 DEF KillerAt
  <2> QED  BY <2>1, <1>3 DEF MatchNull
<1>7. CASE EndOfList  BY <1>7 DEF EndOfList
<1>8. CASE TestIdx
  BY <1>8 DEF TestIdx, KillerAt, Exact, lists
<1>9. CASE LoadProc
  <2>1. /\ kpc = "load" /\ kpc' = "match" /\ kp' = arr[L][idx]
        /\ UNCHANGED <<arr, size, klist, idx, ideal, broken>>
    BY <1>9 DEF LoadProc, lists
  <2>2. Exact(L) /\ idx < n  BY <2>1 DEF KillerAt
  <2>3. kp' = s[idx + 1]
    <3>1. idx \in Slot  BY <2>2, <1>3, <1>4
    <3> QED  BY <2>1, <2>2, <3>1, <1>2, FilledOf DEF Exact
  <2> QED  BY <2>1, <2>2, <2>3, <1>4 DEF KillerAt, Exact
<1>10. CASE NoMatch
  <2>1. /\ kpc = "match" /\ kpc' = "test" /\ idx' = idx + 1
        /\ UNCHANGED <<arr, size, klist, ideal, broken>>
    BY <1>10 DEF NoMatch, lists
  <2>2. Exact(L) /\ idx < n  BY <2>1 DEF KillerAt
  <2>3. idx + 1 <= n  BY <2>2, <1>2, <1>3
  <2> QED  BY <2>1, <2>2, <2>3, <1>4 DEF KillerAt, Exact
<1>11. CASE Match
  <2> DEFINE t == Without(s, kp)
  <2>1. /\ kpc = "match" /\ kpc' = "shift" /\ ki' = idx
        /\ ideal' = [ideal EXCEPT ![L] = t]
        /\ UNCHANGED <<arr, size, klist, idx, broken>>
    BY <1>11 DEF Match, lists
  <2>2. Exact(L) /\ idx < n /\ kp = s[idx + 1]  BY <2>1 DEF KillerAt
  <2>3. idx + 1 \in 1 .. n  BY <2>2, <1>2, <1>3
  <2>4. /\ t \in Seq(Proc) /\ Len(t) = n - 1
        /\ \A k \in 1 .. n - 1 : t[k] = IF k < idx + 1 THEN s[k] ELSE s[k + 1]
    BY <1>2, <2>2, <2>3, WithoutOf
  <2>5. ideal'[L] = t  BY <2>1, <1>1, <1>3
  <2> HIDE DEF t
  <2>6. \A k \in Slot : arr[L][k] = IF k < n THEN s[k + 1] ELSE NoProc
    BY <2>2, <1>2, FilledOf DEF Exact
  <2>7. Gap(L, ki)'
    <3>1. ASSUME NEW k \in Slot, k # idx
          PROVE  arr[L][k] = IF k < idx THEN t[k + 1]
                             ELSE IF k <= Len(t) THEN t[k] ELSE NoProc
      <4>1. CASE k < idx
        <5>1. k + 1 \in 1 .. n - 1 /\ k + 1 < idx + 1 /\ k < n
          BY <4>1, <2>2, <1>2, <1>3
        <5> QED  BY <5>1, <4>1, <2>4, <2>6
      <4>2. CASE ~(k < idx) /\ k <= Len(t)
        <5>1. k \in 1 .. n - 1 /\ ~(k < idx + 1) /\ k < n
          BY <4>2, <3>1, <2>2, <2>4, <1>2, <1>3
        <5> QED  BY <5>1, <4>2, <2>4, <2>6
      <4>3. CASE ~(k < idx) /\ ~(k <= Len(t))
        <5>1. ~(k < n)  BY <4>3, <2>4, <1>2, <1>3
        <5> QED  BY <5>1, <4>3, <2>6
      <4> QED  BY <4>1, <4>2, <4>3
    <3> QED  BY <3>1, <2>1, <2>5 DEF Gap
  <2>8. size[L] = Len(t) + 1 /\ idx <= Len(t) /\ Len(t) <= MAX_QUEUE_SIZE
    BY <2>2, <2>4, <1>2, <1>3, <1>4 DEF Exact
  <2> QED  BY <2>1, <2>5, <2>7, <2>8 DEF KillerAt
<1>12. CASE Shift
  <2>1. /\ kpc = "shift" /\ UNCHANGED <<arr, size, klist, idx, ki, ideal, broken>>
        /\ kpc' = IF ki < size[L] - 1 THEN "copy" ELSE "dec"
    BY <1>12 DEF Shift, lists
  <2>2. size[L] = n + 1 /\ Gap(L, ki) /\ ki <= n  BY <2>1 DEF KillerAt
  <2>3. ki < size[L] - 1 => ki < n  BY <2>2, <1>2, <1>3
  <2>4. ~(ki < size[L] - 1) => ki = n  BY <2>2, <1>2, <1>3
  <2>5. Gap(L, ki)'  BY <2>1, <2>2 DEF Gap
  <2> QED  BY <2>1, <2>2, <2>3, <2>4, <2>5, <1>4 DEF KillerAt
<1>13. CASE ShiftRead
  <2>1. /\ kpc = "copy" /\ kpc' = "put" /\ kv' = arr[L][ki + 1]
        /\ UNCHANGED <<arr, size, klist, idx, ki, ideal, broken>>
    BY <1>13 DEF ShiftRead, lists
  <2>2. size[L] = n + 1 /\ Gap(L, ki) /\ ki < n  BY <2>1 DEF KillerAt
  <2>3. ki + 1 \in Slot /\ ki + 1 <= n /\ ki + 1 # ki /\ ~(ki + 1 < ki) /\ ki <= n
    BY <2>2, <1>2, <1>3
  <2>4. kv' = s[ki + 1]  BY <2>1, <2>2, <2>3 DEF Gap
  <2>5. Gap(L, ki)'  BY <2>1, <2>2 DEF Gap
  <2> QED  BY <2>1, <2>2, <2>3, <2>4, <2>5, <1>4 DEF KillerAt
<1>14. CASE ShiftWrite
  <2>1. /\ kpc = "put" /\ kpc' = "shift" /\ ki' = ki + 1
        /\ arr' = [arr EXCEPT ![L][ki] = kv]
        /\ UNCHANGED <<size, klist, idx, ideal, broken>>
    BY <1>14 DEF ShiftWrite
  <2>2. size[L] = n + 1 /\ Gap(L, ki) /\ ki < n /\ kv = s[ki + 1]
    BY <2>1 DEF KillerAt
  <2>3. ki \in Slot /\ ki + 1 <= n  BY <2>2, <1>2, <1>3
  <2>4. \A k \in Slot : arr'[L][k] = IF k = ki THEN s[ki + 1] ELSE arr[L][k]
    BY <2>1, <2>2, <2>3, <1>1, <1>3
  <2>5. ASSUME NEW k \in Slot, k # ki + 1
        PROVE  arr'[L][k] = IF k < ki + 1 THEN s[k + 1]
                            ELSE IF k <= n THEN s[k] ELSE NoProc
    <3>1. CASE k = ki  BY <3>1, <2>4, <1>3
    <3>2. CASE k # ki
      <4>1. k < ki <=> k < ki + 1  BY <3>2, <1>3
      <4> QED  BY <3>2, <4>1, <2>2, <2>4 DEF Gap
    <3> QED  BY <3>1, <3>2
  <2>6. Gap(L, ki)'  BY <2>1, <2>5 DEF Gap
  <2> QED  BY <2>1, <2>2, <2>3, <2>6, <1>4 DEF KillerAt
<1>15. CASE DecRead
  <2>1. /\ kpc = "dec" /\ kpc' = "store" /\ kn' = size[L]
        /\ UNCHANGED <<arr, size, klist, idx, ki, ideal, broken>>
    BY <1>15 DEF DecRead, lists
  <2> QED  BY <2>1, <1>4 DEF KillerAt, Gap
<1>16. CASE DecWrite
  <2>1. /\ kpc = "store" /\ kpc' = "clear" /\ size' = [size EXCEPT ![L] = kn - 1]
        /\ UNCHANGED <<arr, klist, idx, ki, ideal, broken>>
    BY <1>16 DEF DecWrite
  <2>2. size[L] = n + 1 /\ Gap(L, ki) /\ ki = n /\ kn = n + 1  BY <2>1 DEF KillerAt
  <2>3. size'[L] = n /\ n < MAX_QUEUE_SIZE  BY <2>1, <2>2, <1>1, <1>2, <1>3
  <2>4. Gap(L, ki)'  BY <2>1, <2>2 DEF Gap
  <2> QED  BY <2>1, <2>2, <2>3, <2>4, <1>4 DEF KillerAt
<1>17. CASE Clear
  <2>1. /\ kpc = "clear" /\ kpc' = "test" /\ UNCHANGED <<size, klist, idx, ideal>>
    BY <1>17 DEF Clear
  <2>2. size[L] = n /\ Gap(L, ki) /\ ki = n /\ n < MAX_QUEUE_SIZE  BY <2>1 DEF KillerAt
  <2>3. n \in Slot  BY <2>2, <1>2, <1>3
  <2>4. arr' = [arr EXCEPT ![L][n] = NoProc] /\ broken' = broken
    BY <1>17, <2>2, <2>3 DEF Clear
  <2>5. \A k \in Slot : arr'[L][k] = IF k = n THEN NoProc ELSE arr[L][k]
    BY <2>3, <2>4, <1>1, <1>3
  <2>6. ASSUME NEW k \in Slot PROVE arr'[L][k] = IF k < n THEN s[k + 1] ELSE NoProc
    <3>1. CASE k = n  BY <3>1, <2>5, <1>2
    <3>2. CASE k < n  BY <3>2, <2>2, <2>5, <1>2, <1>3 DEF Gap
    <3>3. CASE k > n  BY <3>3, <2>2, <2>5, <1>2, <1>3 DEF Gap
    <3> QED  BY <3>1, <3>2, <3>3, <1>2, <1>3
  <2>7. arr'[L] \in [Slot -> Proc \cup {NoProc}]  BY <2>3, <2>4, <1>1, <1>3
  <2>8. arr'[L] = Filled(s)  BY <2>6, <2>7, <1>2, IsFilled
  <2> QED  BY <2>1, <2>2, <2>4, <2>8, <1>4 DEF KillerAt, Exact
<1> QED  BY <1>5, <1>6, <1>7, <1>8, <1>9, <1>10, <1>11, <1>12, <1>13, <1>14, <1>15,
       <1>16, <1>17 DEF KillerStep

\* A critical section on a list that the system call does not walk
LEMMA SectionWork ==
    ASSUME TypeInv, SectionStep, NEW L, L = sec.list, SectionAt(L)
    PROVE  /\ broken' = broken
           /\ \/ sec' = NoSection /\ Exact(L)'
              \/ sec'.pc # "free" /\ sec'.list = L /\ SectionAt(L)'
<1> DEFINE s == ideal[L]
           n == Len(s)
<1>1. L \in List /\ sec \in SectionType  BY DEF TypeInv, SecInv, SectionType
<1>2. /\ s \in Seq(Proc) /\ n \in Nat /\ arr[L] \in [Slot -> Proc \cup {NoProc}]
      /\ size[L] \in Int /\ size[L] <= MAX_QUEUE_SIZE
      /\ \A k \in Nat : k < n => s[k + 1] \in Proc
  BY <1>1, ListTypes
<1>3. /\ sec.i \in Nat /\ sec.n \in Int /\ MAX_QUEUE_SIZE \in Nat
      /\ Slot = 0 .. MAX_QUEUE_SIZE - 1 /\ NoProc \notin Proc
      /\ arr \in [List -> [Slot -> Proc \cup {NoProc}]] /\ size \in [List -> Count]
      /\ ideal \in [List -> Seq(Proc)]
  BY Constants, <1>1 DEF TypeInv, TypeOK, Slot, SectionType, Count
<1>4. n <= MAX_QUEUE_SIZE  BY DEF SectionAt
<1>5. arr[L] = Filled(s) => \A k \in Slot : arr[L][k] = IF k < n THEN s[k + 1] ELSE NoProc
  BY <1>2, FilledOf
<1>6. CASE EnqTest
  <2>1. sec.pc = "etest" /\ UNCHANGED <<arr, size, ideal, broken>>  BY <1>6 DEF EnqTest, lists
  <2>2. Exact(L) /\ sec.i = 0  BY <2>1 DEF SectionAt
  <2>3. CASE size[L] < MAX_QUEUE_SIZE
    <3>1. sec' = [sec EXCEPT !.pc = "eread"]  BY <1>6, <2>3 DEF EnqTest
    <3>2. sec'.pc = "eread" /\ sec'.list = L /\ sec'.i = 0  BY <1>1, <2>2, <3>1 DEF SectionType
    <3>3. SectionAt(L)'
      BY <2>1, <2>2, <2>3, <3>2, <1>4 DEF SectionAt, Exact, Leaving, DeqPC
    <3> QED  BY <2>1, <3>2, <3>3
  <2>4. CASE ~(size[L] < MAX_QUEUE_SIZE)
    <3>1. sec' = NoSection  BY <1>6, <2>4 DEF EnqTest
    <3> QED  BY <2>1, <2>2, <3>1 DEF Exact
  <2> QED  BY <2>3, <2>4
<1>7. CASE EnqRead
  <2>1. /\ sec.pc = "eread" /\ UNCHANGED <<arr, size, ideal, broken>>
        /\ sec' = [sec EXCEPT !.pc = "ewrite", !.n = size[L]]
    BY <1>7 DEF EnqRead, lists
  <2>2. Exact(L) /\ sec.i = 0 /\ n < MAX_QUEUE_SIZE  BY <2>1 DEF SectionAt
  <2>3. sec'.pc = "ewrite" /\ sec'.list = L /\ sec'.i = 0 /\ sec'.n = n
    BY <1>1, <2>1, <2>2 DEF SectionType, Exact
  <2>4. SectionAt(L)'  BY <2>1, <2>2, <2>3, <1>4 DEF SectionAt, Exact, Leaving, DeqPC
  <2> QED  BY <2>1, <2>3, <2>4
<1>8. CASE EnqWrite
  <2>1. /\ sec.pc = "ewrite" /\ UNCHANGED <<arr, ideal, broken>>
        /\ sec' = [sec EXCEPT !.pc = "estore"] /\ size' = [size EXCEPT ![L] = sec.n + 1]
    BY <1>8 DEF EnqWrite
  <2>2. Exact(L) /\ sec.i = 0 /\ n < MAX_QUEUE_SIZE /\ sec.n = n  BY <2>1 DEF SectionAt
  <2>3. sec'.pc = "estore" /\ sec'.list = L /\ sec'.i = 0 /\ sec'.n = n
    BY <1>1, <2>1, <2>2 DEF SectionType
  <2>4. size'[L] = n + 1  BY <2>1, <2>2, <1>1, <1>3
  <2>5. SectionAt(L)'  BY <2>1, <2>2, <2>3, <2>4, <1>4 DEF SectionAt, Exact, Leaving, DeqPC
  <2> QED  BY <2>1, <2>3, <2>5
<1>9. CASE EnqStore
  <2> DEFINE t == Append(s, sec.proc)
  <2>1. /\ sec.pc = "estore" /\ UNCHANGED size /\ sec' = NoSection
        /\ ideal' = [ideal EXCEPT ![L] = t]
    BY <1>9 DEF EnqStore
  <2>2. n < MAX_QUEUE_SIZE /\ sec.n = n /\ size[L] = n + 1 /\ arr[L] = Filled(s)
    BY <2>1 DEF SectionAt
  <2>3. n \in Slot  BY <2>2, <1>2, <1>3
  <2>4. arr' = [arr EXCEPT ![L][n] = sec.proc] /\ broken' = broken
    BY <1>9, <2>2, <2>3 DEF EnqStore
  <2>5. sec.proc \in Proc  BY <2>1 DEF TypeInv, SecInv, EnqPC
  <2>6. /\ t \in Seq(Proc) /\ Len(t) = n + 1 /\ t[n + 1] = sec.proc
        /\ \A k \in 1 .. n : t[k] = s[k]
    BY <1>2, <2>5, AppendTo
  <2>7. ideal'[L] = t  BY <2>1, <1>1, <1>3
  <2> HIDE DEF t
  <2>8. \A k \in Slot : arr'[L][k] = IF k = n THEN sec.proc ELSE arr[L][k]
    BY <2>3, <2>4, <1>1, <1>3
  <2>9. ASSUME NEW k \in Slot PROVE arr'[L][k] = IF k < n + 1 THEN t[k + 1] ELSE NoProc
    <3>1. CASE k = n  BY <3>1, <2>6, <2>8, <1>2
    <3>2. CASE k < n
      <4>1. k + 1 \in 1 .. n /\ k # n /\ k < n + 1  BY <3>2, <1>2, <1>3
      <4> QED  BY <4>1, <3>2, <2>2, <2>6, <2>8, <1>5
    <3>3. CASE k > n
      <4>1. k # n /\ ~(k < n) /\ ~(k < n + 1)  BY <3>3, <1>2, <1>3
      <4> QED  BY <4>1, <2>2, <2>8, <1>5
    <3> QED  BY <3>1, <3>2, <3>3, <1>2, <1>3
  <2>10. arr'[L] \in [Slot -> Proc \cup {NoProc}]  BY <2>3, <2>4, <2>5, <1>1, <1>3
  <2>11. arr'[L] = Filled(t)  BY <2>6, <2>9, <2>10, IsFilled
  <2>12. Exact(L)'  BY <2>1, <2>2, <2>6, <2>7, <2>11 DEF Exact
  <2> QED  BY <2>1, <2>4, <2>12
<1>10. CASE GetNothing
  <2>1. sec.pc = "gtest" /\ sec' = NoSection /\ UNCHANGED <<arr, size, ideal, broken>>
    BY <1>10 DEF GetNothing, lists
  <2> QED  BY <2>1 DEF SectionAt, Exact
<1>11. CASE GetSome
  <2>1. /\ sec.pc = "gtest" /\ UNCHANGED <<arr, size, ideal, broken>>
        /\ sec' = [sec EXCEPT !.pc = "dtest"] /\ size[L] # 0
    BY <1>11 DEF GetSome, lists
  <2>2. Exact(L) /\ sec.i = 0 /\ n > 0  BY <2>1, <1>2 DEF SectionAt, Exact
  <2>3. sec'.pc = "dtest" /\ sec'.list = L /\ sec'.i = 0  BY <1>1, <2>1, <2>2 DEF SectionType
  <2>4. SectionAt(L)'  BY <2>1, <2>2, <2>3, <1>4 DEF SectionAt, Exact
  <2> QED  BY <2>1, <2>3, <2>4
<1>12. CASE DeqTest
  <2>1. sec.pc = "dtest" /\ UNCHANGED <<arr, size, ideal, broken>>  BY <1>12 DEF DeqTest, lists
  <2>2. Exact(L) /\ sec.i = 0 /\ n > 0  BY <2>1 DEF SectionAt, Leaving, DeqPC
  <2>3. sec' = [sec EXCEPT !.pc = "scan"]  BY <1>12, <2>2, <1>2 DEF DeqTest, Exact
  <2>4. sec'.pc = "scan" /\ sec'.list = L /\ sec'.i = 0  BY <1>1, <2>2, <2>3 DEF SectionType
  <2>5. SectionAt(L)'  BY <2>1, <2>2, <2>4, <1>4 DEF SectionAt, Exact
  <2> QED  BY <2>1, <2>4, <2>5
<1>13. CASE DeqScan
  <2>1. sec.pc = "scan" /\ UNCHANGED <<arr, size, ideal>>  BY <1>13 DEF DeqScan, lists
  <2>2. Exact(L) /\ sec.i = 0 /\ n > 0  BY <2>1 DEF SectionAt, Leaving, DeqPC
  <2>3. 0 \in Slot /\ s[0 + 1] \in Proc  BY <2>2, <1>2, <1>3, <1>4
  <2>4. arr[L][0] # NoProc  BY <2>2, <2>3, <1>3, <1>5 DEF Exact
  <2>5. sec' = [sec EXCEPT !.pc = "take"] /\ broken' = broken
    <3>1. ~(sec.i >= size[L])  BY <2>2, <1>2 DEF Exact
    <3> QED  BY <1>13, <2>2, <2>4, <3>1 DEF DeqScan
  <2>6. sec'.pc = "take" /\ sec'.list = L /\ sec'.i = 0  BY <1>1, <2>2, <2>5 DEF SectionType
  <2>7. SectionAt(L)'  BY <2>1, <2>2, <2>6, <1>4 DEF SectionAt, Exact
  <2> QED  BY <2>5, <2>6, <2>7
<1>14. CASE DeqTake
  <2>1. /\ sec.pc = "take" /\ UNCHANGED <<arr, size, ideal, broken>>
        /\ sec' = [sec EXCEPT !.pc = "dec", !.proc = arr[L][sec.i]]
    BY <1>14 DEF DeqTake, lists
  <2>2. Exact(L) /\ sec.i = 0 /\ n > 0  BY <2>1 DEF SectionAt, Leaving, DeqPC
  <2>3. 0 \in Slot  BY <2>2, <1>2, <1>3, <1>4
  <2>4. arr[L][0] = s[1]
    <3>1. arr[L][0] = s[0 + 1]  BY <2>2, <2>3, <1>5 DEF Exact
    <3> QED  BY <3>1
  <2>5. sec'.pc = "dec" /\ sec'.list = L /\ sec'.i = 0 /\ sec'.proc = s[1]
    BY <1>1, <2>1, <2>2, <2>4 DEF SectionType
  <2>6. SectionAt(L)'  BY <2>1, <2>2, <2>5, <1>4 DEF SectionAt, Exact
  <2> QED  BY <2>1, <2>5, <2>6
<1>15. CASE DeqDecRead
  <2>1. /\ sec.pc = "dec" /\ UNCHANGED <<arr, size, ideal, broken>>
        /\ sec' = [sec EXCEPT !.pc = "store", !.n = size[L]]
    BY <1>15 DEF DeqDecRead, lists
  <2>2. Exact(L) /\ sec.i = 0 /\ n > 0 /\ sec.proc = s[1]
    BY <2>1 DEF SectionAt, Leaving, DeqPC
  <2>3. /\ sec'.pc = "store" /\ sec'.list = L /\ sec'.i = 0 /\ sec'.n = n
        /\ sec'.proc = s[1]
    BY <1>1, <2>1, <2>2 DEF SectionType, Exact
  <2>4. SectionAt(L)'  BY <2>1, <2>2, <2>3, <1>4 DEF SectionAt, Exact
  <2> QED  BY <2>1, <2>3, <2>4
<1>16. CASE DeqDecWrite
  <2>1. /\ sec.pc = "store" /\ UNCHANGED <<arr, ideal, broken>>
        /\ sec' = [sec EXCEPT !.pc = "shift"] /\ size' = [size EXCEPT ![L] = sec.n - 1]
    BY <1>16 DEF DeqDecWrite
  <2>2. Exact(L) /\ sec.i = 0 /\ n > 0 /\ sec.proc = s[1] /\ sec.n = n
    BY <2>1 DEF SectionAt, Leaving, DeqPC
  <2>3. sec'.pc = "shift" /\ sec'.list = L /\ sec'.i = 0 /\ sec'.proc = s[1]
    BY <1>1, <2>1, <2>2 DEF SectionType
  <2>4. size'[L] = n - 1  BY <2>1, <2>2, <1>1, <1>3
  <2>5. Half(L, 0)
    <3>1. \A k \in Slot : ~(k < 0)  BY <1>3
    <3> QED  BY <2>2, <3>1, <1>5 DEF Half, Exact
  <2>6. Half(L, sec.i)'  BY <2>1, <2>3, <2>5 DEF Half
  <2>7. SectionAt(L)'  BY <2>1, <2>2, <2>3, <2>4, <2>6, <1>4 DEF SectionAt
  <2> QED  BY <2>1, <2>3, <2>7
<1>17. CASE DeqShift
  <2>1. /\ sec.pc = "shift" /\ UNCHANGED <<arr, size, ideal, broken>>
        /\ sec' = [sec EXCEPT !.pc = IF sec.i < size[L] THEN "copy" ELSE "clear"]
    BY <1>17 DEF DeqShift, lists
  <2>2. size[L] = n - 1 /\ sec.i < n /\ Half(L, sec.i) /\ n > 0 /\ sec.proc = s[1]
    BY <2>1 DEF SectionAt, Leaving, DeqPC
  <2>3. /\ sec'.pc = IF sec.i < size[L] THEN "copy" ELSE "clear"
        /\ sec'.list = L /\ sec'.i = sec.i /\ sec'.proc = s[1]
    BY <1>1, <2>1, <2>2 DEF SectionType
  <2>4. /\ sec.i < size[L] => sec.i < n - 1
        /\ ~(sec.i < size[L]) => sec.i = n - 1
    BY <2>2, <1>2, <1>3
  <2>5. Half(L, sec.i)'  BY <2>1, <2>2, <2>3 DEF Half
  <2>6. SectionAt(L)'  BY <2>1, <2>2, <2>3, <2>4, <2>5, <1>4 DEF SectionAt
  <2> QED  BY <2>1, <2>3, <2>6
<1>18. CASE DeqShiftRead
  <2>1. /\ sec.pc = "copy" /\ UNCHANGED <<arr, size, ideal, broken>>
        /\ sec' = [sec EXCEPT !.pc = "put", !.v = arr[L][sec.i + 1]]
    BY <1>18 DEF DeqShiftRead, lists
  <2>2. /\ size[L] = n - 1 /\ sec.i < n - 1 /\ sec.i < n /\ Half(L, sec.i) /\ n > 0
        /\ sec.proc = s[1]
    BY <2>1 DEF SectionAt, Leaving, DeqPC
  <2>3. /\ sec.i + 1 \in Slot /\ sec.i + 1 < n /\ ~(sec.i + 1 < sec.i)
        /\ (sec.i + 1) + 1 = sec.i + 2
    BY <2>2, <1>2, <1>3, <1>4
  <2>4. arr[L][sec.i + 1] = s[sec.i + 2]  BY <2>2, <2>3 DEF Half
  <2>5. /\ sec'.pc = "put" /\ sec'.list = L /\ sec'.i = sec.i /\ sec'.proc = s[1]
        /\ sec'.v = s[sec.i + 2]
    BY <1>1, <2>1, <2>2, <2>4 DEF SectionType
  <2>6. Half(L, sec.i)'  BY <2>1, <2>2, <2>5 DEF Half
  <2>7. SectionAt(L)'  BY <2>1, <2>2, <2>5, <2>6, <1>4 DEF SectionAt
  <2> QED  BY <2>1, <2>5, <2>7
<1>19. CASE DeqShiftWrite
  <2>1. /\ sec.pc = "put" /\ UNCHANGED <<size, ideal, broken>>
        /\ arr' = [arr EXCEPT ![L][sec.i] = sec.v]
        /\ sec' = [sec EXCEPT !.pc = "shift", !.i = @ + 1, !.v = NoProc]
    BY <1>19 DEF DeqShiftWrite
  <2>2. /\ size[L] = n - 1 /\ sec.i < n - 1 /\ Half(L, sec.i) /\ n > 0
        /\ sec.proc = s[1] /\ sec.v = s[sec.i + 2]
    BY <2>1 DEF SectionAt, Leaving, DeqPC
  <2>3. /\ sec'.pc = "shift" /\ sec'.list = L /\ sec'.i = sec.i + 1 /\ sec'.proc = s[1]
    BY <1>1, <2>1, <2>2 DEF SectionType
  <2>4. sec.i \in Slot /\ sec.i + 1 < n  BY <2>2, <1>2, <1>3, <1>4
  <2>5. \A k \in Slot : arr'[L][k] = IF k = sec.i THEN s[sec.i + 2] ELSE arr[L][k]
    BY <2>1, <2>2, <2>4, <1>1, <1>3
  <2>6. ASSUME NEW k \in Slot
        PROVE  arr'[L][k] = IF k < sec.i + 1 THEN s[k + 2]
                            ELSE IF k < n THEN s[k + 1] ELSE NoProc
    <3>1. CASE k = sec.i  BY <3>1, <2>5, <1>3
    <3>2. CASE k # sec.i
      <4>1. k < sec.i <=> k < sec.i + 1  BY <3>2, <1>3
      <4> QED  BY <3>2, <4>1, <2>5, <2>2 DEF Half
    <3> QED  BY <3>1, <3>2
  <2>7. Half(L, sec.i)'  BY <2>1, <2>3, <2>6 DEF Half
  <2>8. SectionAt(L)'  BY <2>1, <2>2, <2>3, <2>4, <2>7, <1>4 DEF SectionAt
  <2> QED  BY <2>1, <2>3, <2>8
<1>20. CASE DeqClear
  <2> DEFINE t == Tail(s)
  <2>1. /\ sec.pc = "clear" /\ UNCHANGED size /\ sec' = NoSection
        /\ ideal' = [ideal EXCEPT ![L] = IF s = <<>> THEN s ELSE t]
    BY <1>20 DEF DeqClear
  <2>2. size[L] = n - 1 /\ sec.i = n - 1 /\ Half(L, sec.i) /\ n > 0
    BY <2>1 DEF SectionAt, Leaving, DeqPC
  <2>3. n - 1 \in Slot  BY <2>2, <1>2, <1>3, <1>4
  <2>4. arr' = [arr EXCEPT ![L][n - 1] = NoProc] /\ broken' = broken
    BY <1>20, <2>2, <2>3 DEF DeqClear
  <2>5. s # <<>>  BY <2>2
  <2>6. t \in Seq(Proc) /\ Len(t) = n - 1 /\ \A k \in 1 .. n - 1 : t[k] = s[k + 1]
    BY <1>2, <2>5, TailOf
  <2>7. ideal'[L] = t  BY <2>1, <2>5, <1>1, <1>3
  <2> HIDE DEF t
  <2>8. \A k \in Slot : arr'[L][k] = IF k = n - 1 THEN NoProc ELSE arr[L][k]
    BY <2>3, <2>4, <1>1, <1>3
  <2>9. ASSUME NEW k \in Slot PROVE arr'[L][k] = IF k < n - 1 THEN t[k + 1] ELSE NoProc
    <3>1. CASE k = n - 1  BY <3>1, <2>8, <1>2
    <3>2. CASE k < n - 1
      <4>1. k + 1 \in 1 .. n - 1 /\ (k + 1) + 1 = k + 2  BY <3>2, <1>2, <1>3
      <4>2. arr'[L][k] = s[k + 2]  BY <3>2, <2>2, <2>8, <1>2, <1>3 DEF Half
      <4> QED  BY <4>1, <4>2, <3>2, <2>6
    <3>3. CASE k > n - 1
      <4>1. ~(k < n - 1) /\ ~(k < n) /\ k # n - 1  BY <3>3, <1>2, <1>3
      <4> QED  BY <4>1, <2>2, <2>8 DEF Half
    <3>4. k = n - 1 \/ k < n - 1 \/ k > n - 1
      <4>1. \A a, b \in Int : a = b \/ a < b \/ a > b  OBVIOUS
      <4> QED  BY <4>1, <2>3, <1>3
    <3> QED  BY <3>1, <3>2, <3>3, <3>4
  <2>10. arr'[L] \in [Slot -> Proc \cup {NoProc}]  BY <2>3, <2>4, <1>1, <1>3
  <2>11. arr'[L] = Filled(t)  BY <2>6, <2>9, <2>10, IsFilled
  <2>12. Exact(L)'  BY <2>1, <2>2, <2>6, <2>7, <2>11 DEF Exact
  <2> QED  BY <2>1, <2>4, <2>12
<1> QED  BY <1>6, <1>7, <1>8, <1>9, <1>10, <1>11, <1>12, <1>13, <1>14, <1>15, <1>16,
       <1>17, <1>18, <1>19, <1>20 DEF SectionStep

----------------------------------------------------------------------------
(* The invariant.                                                          *)

\* The system call changes the list it walks, and no other
LEMMA KillerElsewhere ==
    ASSUME TypeInv, KillerStep, NEW L \in List, ~Scanning(L)
    PROVE  arr'[L] = arr[L] /\ size'[L] = size[L] /\ ideal'[L] = ideal[L]
<1>1. /\ arr \in [List -> [Slot -> Proc \cup {NoProc}]] /\ size \in [List -> Count]
      /\ ideal \in [List -> Seq(Proc)]
  BY DEF TypeInv, TypeOK
<1>2. CASE UNCHANGED <<lists, ideal>>  BY <1>2 DEF lists
<1>3. CASE Match \/ ShiftWrite \/ DecWrite \/ Clear
  <2>1. klist # L
    BY <1>3 DEF Match, ShiftWrite, DecWrite, Clear, Scanning
  <2>2. CASE Match  BY <2>1, <2>2, <1>1 DEF Match, lists
  <2>3. CASE ShiftWrite  BY <2>1, <2>3, <1>1 DEF ShiftWrite
  <2>4. CASE DecWrite  BY <2>1, <2>4, <1>1 DEF DecWrite
  <2>5. CASE Clear  BY <2>1, <2>5, <1>1 DEF Clear
  <2> QED  BY <1>3, <2>2, <2>3, <2>4, <2>5
<1> QED  BY <1>2, <1>3 DEF KillerStep, ReadName, TestIdx, EndOfList, LoadProc, NoMatch,
       MatchNull, Shift, ShiftRead, DecRead

\* A critical section stays on one list, with one holder, and is one of enqueue
\* or one of dequeue
LEMMA SectionShape ==
    ASSUME TypeInv, SectionStep
    PROVE  /\ sec.pc \in EnqPC \cup DeqPC /\ sec # NoSection /\ sec.list \in List
           /\ UNCHANGED <<turn, over>>
           /\ \/ sec' = NoSection
              \/ /\ sec'.list = sec.list /\ sec'.holder = sec.holder
                 /\ sec.pc \in EnqPC => sec'.pc \in EnqPC /\ sec'.proc = sec.proc
                 /\ sec.pc \in DeqPC => sec'.pc \in DeqPC
           /\ \A L \in List : L # sec.list =>
                 arr'[L] = arr[L] /\ size'[L] = size[L] /\ ideal'[L] = ideal[L]
           /\ UNCHANGED <<hand, ideal>> \/ EnqStore \/ DeqClear
<1>1. /\ arr \in [List -> [Slot -> Proc \cup {NoProc}]] /\ size \in [List -> Count]
      /\ ideal \in [List -> Seq(Proc)] /\ sec \in SectionType /\ sec.list \in List
  BY DEF TypeInv, TypeOK, SecInv, SectionType
<1>2. sec.pc \in EnqPC \cup DeqPC /\ UNCHANGED <<turn, over>>
  BY DEF SectionStep, EnqTest, EnqRead, EnqWrite, EnqStore, GetNothing, GetSome, DeqTest,
     DeqScan, DeqTake, DeqDecRead, DeqDecWrite, DeqShift, DeqShiftRead,
     DeqShiftWrite, DeqClear, EnqPC, DeqPC, others
<1>3. sec # NoSection  BY <1>2 DEF NoSection, Section, EnqPC, DeqPC
<1>4. \/ sec' = NoSection
      \/ /\ sec'.list = sec.list /\ sec'.holder = sec.holder
         /\ sec.pc \in EnqPC => sec'.pc \in EnqPC /\ sec'.proc = sec.proc
         /\ sec.pc \in DeqPC => sec'.pc \in DeqPC
  <2>1. CASE EnqTest \/ EnqRead \/ EnqWrite \/ EnqStore \/ GetNothing \/ GetSome
    BY <2>1, <1>1 DEF EnqTest, EnqRead, EnqWrite, EnqStore, GetNothing, GetSome, SectionType,
       EnqPC, DeqPC
  <2>2. CASE DeqTest \/ DeqScan \/ DeqTake \/ DeqDecRead
    BY <2>2, <1>1 DEF DeqTest, DeqScan, DeqTake, DeqDecRead, SectionType, EnqPC, DeqPC
  <2>3. CASE DeqDecWrite \/ DeqClear
    BY <2>3, <1>1 DEF DeqDecWrite, DeqClear, SectionType, EnqPC, DeqPC
  <2>4. CASE DeqShift \/ DeqShiftRead \/ DeqShiftWrite
    BY <2>4, <1>1 DEF DeqShift, DeqShiftRead, DeqShiftWrite, SectionType, EnqPC, DeqPC
  <2> QED  BY <2>1, <2>2, <2>3, <2>4 DEF SectionStep
<1>5. ASSUME NEW L \in List, L # sec.list
      PROVE  arr'[L] = arr[L] /\ size'[L] = size[L] /\ ideal'[L] = ideal[L]
  <2>1. CASE EnqWrite  BY <2>1, <1>1, <1>5 DEF EnqWrite
  <2>2. CASE EnqStore  BY <2>2, <1>1, <1>5 DEF EnqStore
  <2>3. CASE DeqDecWrite  BY <2>3, <1>1, <1>5 DEF DeqDecWrite
  <2>4. CASE DeqShiftWrite  BY <2>4, <1>1, <1>5 DEF DeqShiftWrite
  <2>5. CASE DeqClear  BY <2>5, <1>1, <1>5 DEF DeqClear
  <2> QED  BY <2>1, <2>2, <2>3, <2>4, <2>5 DEF SectionStep, EnqTest, EnqRead, GetNothing,
           GetSome, DeqTest, DeqScan, DeqTake, DeqDecRead, DeqShift, DeqShiftRead, lists
<1>6. UNCHANGED <<hand, ideal>> \/ EnqStore \/ DeqClear
  BY DEF SectionStep, EnqTest, EnqRead, EnqWrite, GetNothing, GetSome, DeqTest, DeqScan,
     DeqTake, DeqDecRead, DeqDecWrite, DeqShift, DeqShiftRead, DeqShiftWrite
<1> QED  BY <1>1, <1>2, <1>3, <1>4, <1>5, <1>6

\* A list on which nobody met the system call names a process once
LEMMA Once == ASSUME IInv, NEW L \in List, L \notin met PROVE IsInjective(ideal[L])
BY DEF IInv, ReadyInv, RunningInv, List

\* What a step adds to met
LEMMA Meeting ==
    ASSUME NEW A, Move(A), NEW L \in List, L \notin met'
    PROVE  L \notin met /\ ~(Scanning(L)' /\ Locked(L)')
BY DEF Move

\* A step of the system call: the list it walks, and the other one
LEMMA ListsKiller ==
    ASSUME IInv, Move(KillerStep), NEW L \in List PROVE ListInv(L)'
<1> SUFFICES ASSUME L \notin met' PROVE ListInv(L)'  BY DEF ListInv
<1>1. /\ L \notin met /\ ~(Scanning(L)' /\ Locked(L)') /\ KillerStep /\ ListInv(L)
      /\ TypeInv
  BY Meeting DEF IInv, ListsInv, Move
<1>2. sec' = sec /\ Locked(L)' = Locked(L)
  BY <1>1 DEF KillerStep, ReadName, TestIdx, EndOfList, LoadProc, NoMatch, Match, MatchNull,
     Shift, ShiftRead, ShiftWrite, DecRead, DecWrite, Clear, others, Locked
<1>3. CASE Scanning(L)
  <2>1. kpc \notin {"read", "end"} /\ klist = L /\ KillerAt(L) /\ ~Locked(L)
    BY <1>1, <1>3 DEF ListInv, Scanning
  <2>2. IsInjective(ideal[L])  BY <1>1, Once
  <2>3. CASE EndOfList
    <3>1. Exact(L)  BY <2>1, <2>3 DEF EndOfList, KillerAt
    <3>2. Exact(L)'  BY <2>3, <3>1 DEF EndOfList, lists, Exact
    <3>3. ~Scanning(L)'
      BY <2>1, <2>3 DEF EndOfList, Scanning
    <3> QED  BY <1>2, <2>1, <3>2, <3>3 DEF ListInv
  <2>4. CASE ~EndOfList
    <3>1. klist' = L /\ kpc' \notin {"read", "end"} /\ KillerAt(L)'
      BY <1>1, <2>1, <2>2, <2>4, WalkStep
    <3> QED  BY <1>2, <2>1, <3>1 DEF ListInv, Scanning
  <2> QED  BY <2>3, <2>4
<1>4. CASE ~Scanning(L)
  <2>1. arr'[L] = arr[L] /\ size'[L] = size[L] /\ ideal'[L] = ideal[L]
    BY <1>1, <1>4, KillerElsewhere
  <2>2. Locked(L) => SectionAt(L)'
    BY <1>1, <1>2, <2>1 DEF ListInv, SectionAt, Exact, Half, Leaving
  <2>3. ~Locked(L) => Exact(L)'  BY <1>1, <1>4, <2>1 DEF ListInv, Exact
  <2>4. ASSUME Scanning(L)' PROVE KillerAt(L)'
    <3>1. kpc' = "test" /\ idx' = 0
      BY <1>1, <1>4, <2>4 DEF KillerStep, ReadName, TestIdx, EndOfList, LoadProc, NoMatch,
         Match, MatchNull, Shift, ShiftRead, ShiftWrite, DecRead, DecWrite, Clear, killer,
         Scanning, TypeInv, KillerInv
    <3>2. Exact(L)'  BY <1>1, <1>2, <2>3, <2>4
    <3>3. 0 <= Len(ideal'[L]) /\ Len(ideal'[L]) <= MAX_QUEUE_SIZE
      <4>1. Len(ideal[L]) \in Nat /\ size[L] <= MAX_QUEUE_SIZE  BY <1>1, ListTypes
      <4> QED  BY <4>1, <2>1, <3>2 DEF Exact
    <3> QED  BY <3>1, <3>2, <3>3 DEF KillerAt
  <2> QED  BY <1>1, <1>2, <2>2, <2>3, <2>4 DEF ListInv
<1> QED  BY <1>3, <1>4

\* The turn of another thread takes queue_lock, but changes no list
LEMMA ListsTurn ==
    ASSUME IInv, Move(TurnStep), NEW L \in List PROVE ListInv(L)'
<1> SUFFICES ASSUME L \notin met' PROVE ListInv(L)'  BY DEF ListInv
<1>1. /\ L \notin met /\ ~(Scanning(L)' /\ Locked(L)') /\ TurnStep /\ ListInv(L)
      /\ TypeInv
  BY Meeting DEF IInv, ListsInv, Move
<1>2. UNCHANGED <<arr, size, ideal, kpc, klist, idx, kp, ki, kn, kv>>
  BY <1>1 DEF TurnStep, Stay, Finish, PutBack, GetProc, AddProc, AddMlqProc, lists, killer
<1>3. Scanning(L)' = Scanning(L)  BY <1>2 DEF Scanning
<1>4. KillerAt(L)' = KillerAt(L) /\ Exact(L)' = Exact(L)
  BY <1>2 DEF KillerAt, Exact, Gap
<1>5. CASE sec' = sec
  <2>1. Locked(L)' = Locked(L) /\ SectionAt(L)' = SectionAt(L)
    BY <1>2, <1>5 DEF Locked, SectionAt, Exact, Half, Leaving
  <2> QED  BY <1>1, <1>3, <1>4, <2>1 DEF ListInv
<1>6. CASE sec' # sec
  <2>1. sec'.pc \in {"etest", "gtest"} /\ sec'.i = 0
    BY <1>1, <1>6 DEF TurnStep, Stay, Finish, PutBack, GetProc, AddProc, AddMlqProc, Section
  <2>2. sec = NoSection
    BY <1>1, <1>6 DEF TurnStep, Stay, Finish, PutBack, GetProc, AddProc, AddMlqProc
  <2>3. ~Locked(L)  BY <2>2 DEF Locked
  <2>4. ASSUME Locked(L)' PROVE SectionAt(L)'
    <3>1. Exact(L)'  BY <1>1, <1>3, <1>4, <2>3, <2>4 DEF ListInv
    <3>2. Len(ideal'[L]) <= MAX_QUEUE_SIZE
      <4>1. size[L] <= MAX_QUEUE_SIZE  BY <1>1, ListTypes
      <4> QED  BY <4>1, <1>2, <3>1 DEF Exact
    <3> QED  BY <2>1, <3>1, <3>2 DEF SectionAt, Leaving, DeqPC
  <2> QED  BY <1>1, <1>3, <1>4, <2>3, <2>4 DEF ListInv
<1> QED  BY <1>5, <1>6

\* A step of enqueue or dequeue: the list it works on, and the other one
LEMMA ListsSection ==
    ASSUME IInv, Move(SectionStep), NEW L \in List PROVE ListInv(L)'
<1> SUFFICES ASSUME L \notin met' PROVE ListInv(L)'  BY DEF ListInv
<1>1. /\ L \notin met /\ ~(Scanning(L)' /\ Locked(L)') /\ SectionStep /\ ListInv(L)
      /\ TypeInv
  BY Meeting DEF IInv, ListsInv, Move
<1>2. UNCHANGED <<kpc, klist, idx, kp, ki, kn, kv>>  BY <1>1 DEF SectionStep, killer
<1>3. Scanning(L)' = Scanning(L)  BY <1>2 DEF Scanning
<1>4. CASE sec.list = L
  <2>1. Locked(L) /\ ~Scanning(L) /\ SectionAt(L)
    BY <1>1, <1>4, SectionShape DEF ListInv, Locked
  <2>2. CASE sec' = NoSection /\ Exact(L)'
    BY <1>3, <2>1, <2>2 DEF ListInv, Locked
  <2>3. CASE sec'.pc # "free" /\ sec'.list = L /\ SectionAt(L)'
    <3>1. sec' # NoSection  BY <2>3 DEF NoSection, Section
    <3> QED  BY <1>3, <2>1, <2>3, <3>1 DEF ListInv, Locked
  <2> QED  BY <1>1, <1>4, <2>1, <2>2, <2>3, SectionWork
<1>5. CASE sec.list # L
  <2>1. arr'[L] = arr[L] /\ size'[L] = size[L] /\ ideal'[L] = ideal[L]
    BY <1>1, <1>5, SectionShape
  <2>2. ~Locked(L) /\ ~Locked(L)'
    BY <1>1, <1>5, SectionShape DEF Locked
  <2>3. KillerAt(L)' = KillerAt(L) /\ Exact(L)' = Exact(L)
    BY <1>2, <2>1 DEF KillerAt, Exact, Gap
  <2> QED  BY <1>1, <1>3, <2>2, <2>3 DEF ListInv
<1> QED  BY <1>4, <1>5

\* The system call takes a process out, and puts none anywhere
LEMMA PlaceKiller ==
    ASSUME IInv, Move(KillerStep) PROVE ReadyInv' /\ RunningInv'
<1>1. /\ TypeInv /\ KillerStep /\ UNCHANGED <<turn, hand, sec, over, away>> /\ met \subseteq met'
  BY DEF IInv, Move, KillerStep, ReadName, TestIdx, EndOfList, LoadProc, NoMatch, Match,
     MatchNull, Shift, ShiftRead, ShiftWrite, DecRead, DecWrite, Clear, killer, others
<1>2. Entering("ready")' = Entering("ready") /\ Entering("running")' = Entering("running")
  BY <1>1 DEF Entering
<1>3. ASSUME NEW L \in List, L \notin met'
      PROVE  /\ IsInjective(ideal'[L]) /\ Range(ideal'[L]) \subseteq Range(ideal[L])
  <2>1. L \notin met /\ IsInjective(ideal[L])  BY <1>1, <1>3, Once
  <2>2. CASE ideal'[L] = ideal[L]  BY <2>1, <2>2
  <2>3. CASE ideal'[L] # ideal[L]
    <3>1. Match /\ L = klist
      BY <1>1, <1>3, <2>3 DEF KillerStep, ReadName, TestIdx, EndOfList, LoadProc, NoMatch,
         Match, MatchNull, Shift, ShiftRead, ShiftWrite, DecRead, DecWrite, Clear,
         killer, TypeInv
    <3>2. KillerAt(L) /\ kpc = "match"
      BY <1>3, <2>1, <3>1 DEF IInv, ListsInv, ListInv, Match, Scanning
    <3>3. kp = ideal[L][idx + 1] /\ idx < Len(ideal[L])  BY <3>2 DEF KillerAt
    <3>4. idx + 1 \in 1 .. Len(ideal[L]) /\ ideal[L] \in Seq(Proc)
      BY <1>1, <1>3, <3>3, ListTypes DEF TypeInv, TypeOK
    <3>5. ideal'[L] = Without(ideal[L], kp)
      BY <1>1, <1>3, <3>1 DEF Match, TypeInv
    <3>6. IsInjective(Without(ideal[L], kp))
          /\ Range(Without(ideal[L], kp)) = Range(ideal[L]) \ {kp}
      BY <2>1, <3>3, <3>4, WithoutOf
    <3> QED  BY <3>5, <3>6
  <2> QED  BY <2>2, <2>3
<1>4. "ready" \in List /\ "running" \in List  BY Constants
<1>5. ReadyInv'  BY <1>1, <1>2, <1>3, <1>4 DEF IInv, ReadyInv
<1>6. RunningInv'  BY <1>1, <1>2, <1>3, <1>4 DEF IInv, RunningInv
<1> QED  BY <1>5, <1>6

\* A process leaves a hand for the critical section, or the memory
LEMMA PlaceTurn ==
    ASSUME IInv, Move(TurnStep) PROVE ReadyInv' /\ RunningInv'
<1>1. TypeInv /\ TurnStep /\ UNCHANGED <<ideal, away>> /\ met \subseteq met'
  BY DEF IInv, Move, TurnStep, Stay, Finish, PutBack, GetProc, AddProc, AddMlqProc
<1>2. /\ \A L \in List : Range(ideal[L]) \subseteq Proc
      /\ away \subseteq Proc /\ NoProc \notin Proc /\ Loader \in Actor /\ Loader \notin CPU
      /\ CPU \subseteq Actor /\ "ready" \in List /\ "running" \in List
  <2>1. \A L \in List : ideal[L] \in Seq(Proc)  BY <1>1 DEF TypeInv
  <2>2. \A s \in Seq(Proc) : Range(s) \subseteq Proc  BY DEF Range
  <2> QED  BY <1>1, <2>1, <2>2, Constants DEF TypeInv
<1>3. /\ turn \in [Actor -> {"first", "get", "add", "addmlq", "done"}]
      /\ hand \in [Actor -> Proc \cup {NoProc}]
      /\ sec.pc \in EnqPC => sec.proc \in Proc
  BY <1>1 DEF TypeInv, TypeOK, TurnInv, SecInv
\* A hand is put down, or moves into the critical section
<1>4. ASSUME NEW a \in Actor, hand' = [hand EXCEPT ![a] = NoProc], hand[a] # NoProc,
             \/ sec' = sec
             \/ sec'.list = "ready" /\ sec'.proc = hand[a]
             \/ ~Entering("ready")'
      PROVE  ReadyInv'
  <2> SUFFICES ASSUME "ready" \notin met' PROVE ReadyInv'  BY DEF ReadyInv
  <2>1. /\ IsInjective(ideal["ready"]) /\ away \cap Range(ideal["ready"]) = {}
        /\ \A b \in Actor : hand[b] \notin Range(ideal["ready"]) \cup away
        /\ \A b, c \in Actor : hand[b] = hand[c] /\ hand[b] # NoProc => b = c
        /\ Entering("ready") => /\ sec.proc \notin Range(ideal["ready"]) \cup away
                                /\ \A b \in Actor : sec.proc # hand[b]
    BY <1>1 DEF IInv, ReadyInv
  <2>2. \A b \in Actor : hand'[b] = IF b = a THEN NoProc ELSE hand[b]  BY <1>3, <1>4
  <2>3. NoProc \notin Range(ideal["ready"]) \cup away  BY <1>2
  <2>4. \A b \in Actor : hand'[b] \notin Range(ideal["ready"]) \cup away  BY <2>1, <2>2, <2>3
  <2>5. \A b, c \in Actor : hand'[b] = hand'[c] /\ hand'[b] # NoProc => b = c
    BY <2>1, <2>2
  <2>6. ASSUME Entering("ready")'
        PROVE  /\ sec'.proc \notin Range(ideal["ready"]) \cup away
               /\ \A b \in Actor : sec'.proc # hand'[b]
    <3>1. CASE sec' = sec
      <4>1. Entering("ready") /\ sec.proc # NoProc
        BY <1>2, <1>3, <2>6, <3>1 DEF Entering
      <4> QED  BY <2>1, <2>2, <3>1, <4>1
    <3>2. CASE sec'.list = "ready" /\ sec'.proc = hand[a]
      BY <1>4, <2>1, <2>2, <3>2
    <3> QED  BY <1>4, <2>6, <3>1, <3>2
  <2> QED  BY <1>1, <2>1, <2>4, <2>5, <2>6 DEF ReadyInv
<1>5. ASSUME UNCHANGED hand, sec' = sec \/ ~Entering("ready")' PROVE ReadyInv'
  BY <1>1, <1>5 DEF IInv, ReadyInv, Entering
<1>6. ASSUME turn'[Loader] = "add" => turn[Loader] = "add" /\ hand'[Loader] = hand[Loader],
             Entering("running")' =>
                \/ sec' = sec
                \/ turn[Loader] = "add" /\ sec'.proc = hand[Loader]
      PROVE  RunningInv'
  BY <1>1, <1>6 DEF IInv, RunningInv, Entering
<1>7. ASSUME NEW c \in CPU, Stay(c) \/ Finish(c) \/ PutBack(c) \/ GetProc(c)
      PROVE  ReadyInv' /\ RunningInv'
  <2>1. turn'[Loader] = turn[Loader] /\ hand'[Loader] = hand[Loader] /\ c \in Actor
    BY <1>2, <1>3, <1>7 DEF Stay, Finish, PutBack, GetProc
  <2>2. Entering("running")' => sec' = sec
    BY <1>7 DEF Stay, Finish, PutBack, GetProc, Section, Entering
  <2>3. ReadyInv'
    <3>1. CASE Stay(c)  BY <1>5, <3>1 DEF Stay
    <3>2. CASE Finish(c)  BY <1>4, <2>1, <3>2 DEF Finish
    <3>3. CASE PutBack(c)
      <4>1. sec' = Section(c, "etest", "ready", hand[c]) /\ hand[c] # NoProc
            /\ hand' = [hand EXCEPT ![c] = NoProc]
        BY <3>3 DEF PutBack
      <4>2. sec'.list = "ready" /\ sec'.proc = hand[c]  BY <4>1 DEF Section
      <4> QED  BY <1>4, <2>1, <4>1, <4>2
    <3>4. CASE GetProc(c)
      <4>1. ~Entering("ready")' /\ UNCHANGED hand
        BY <3>4 DEF GetProc, Section, Entering, EnqPC
      <4> QED  BY <1>5, <4>1
    <3> QED  BY <1>7, <3>1, <3>2, <3>3, <3>4
  <2> QED  BY <1>6, <2>1, <2>2, <2>3
<1>8. ASSUME AddProc PROVE ReadyInv' /\ RunningInv'
  <2>1. /\ sec' = Section(Loader, "etest", "running", hand[Loader]) /\ UNCHANGED hand
        /\ turn[Loader] = "add" /\ turn' = [turn EXCEPT ![Loader] = "addmlq"]
    BY <1>8 DEF AddProc
  <2>2. sec'.list = "running" /\ sec'.proc = hand[Loader] /\ turn'[Loader] = "addmlq"
    BY <1>2, <1>3, <2>1 DEF Section
  <2>3. ~Entering("ready")'  BY <2>2 DEF Entering
  <2> QED  BY <1>5, <1>6, <2>1, <2>2, <2>3
<1>9. ASSUME AddMlqProc PROVE ReadyInv' /\ RunningInv'
  <2>1. /\ sec' = Section(Loader, "etest", "ready", hand[Loader])
        /\ hand' = [hand EXCEPT ![Loader] = NoProc]
        /\ turn[Loader] = "addmlq" /\ turn' = [turn EXCEPT ![Loader] = "done"]
    BY <1>9 DEF AddMlqProc
  <2>2. sec'.list = "ready" /\ sec'.proc = hand[Loader] /\ turn'[Loader] = "done"
    BY <1>2, <1>3, <2>1 DEF Section
  <2>3. hand[Loader] # NoProc  BY <1>1, <1>2, <2>1 DEF TypeInv, TurnInv
  <2>4. ~Entering("running")'  BY <2>2 DEF Entering
  <2> QED  BY <1>2, <1>4, <1>6, <2>1, <2>2, <2>3, <2>4
<1> QED  BY <1>1, <1>7, <1>8, <1>9 DEF TurnStep

\* A process goes from the caller into a list, or from a list to the caller
LEMMA PlaceSection ==
    ASSUME IInv, Move(SectionStep) PROVE ReadyInv' /\ RunningInv'
<1>1. TypeInv /\ SectionStep /\ UNCHANGED away /\ met \subseteq met'  BY DEF IInv, Move
<1>2. UNCHANGED turn /\ sec.list \in List /\ sec # NoSection  BY <1>1, SectionShape
<1>3. \A L \in List : Entering(L)' => Entering(L) /\ sec'.proc = sec.proc
  <2>1. CASE sec' = NoSection
    BY <2>1 DEF NoSection, Section, Entering, EnqPC
  <2>2. CASE sec' # NoSection
    <3>1. /\ sec'.list = sec.list
          /\ sec.pc \in EnqPC => sec'.pc \in EnqPC /\ sec'.proc = sec.proc
          /\ sec.pc \in DeqPC => sec'.pc \in DeqPC
          /\ sec.pc \in EnqPC \cup DeqPC
      BY <1>1, <2>2, SectionShape
    <3> QED  BY <3>1 DEF Entering, EnqPC, DeqPC
  <2> QED  BY <2>1, <2>2
<1>4. "ready" \in List /\ "running" \in List /\ List = {"ready", "running"}
      /\ NoProc \notin Proc
  BY Constants DEF List
<1>5. CASE UNCHANGED <<hand, ideal>>
  BY <1>1, <1>2, <1>3, <1>4, <1>5 DEF IInv, ReadyInv, RunningInv
<1>6. CASE EnqStore
  <2> DEFINE L == sec.list
             p == sec.proc
  <2>1. /\ sec.pc = "estore" /\ sec' = NoSection /\ UNCHANGED hand
        /\ ideal' = [ideal EXCEPT ![L] = Append(@, p)]
    BY <1>6 DEF EnqStore
  <2>2. p \in Proc /\ ideal[L] \in Seq(Proc) /\ ideal \in [List -> Seq(Proc)]
    BY <1>1, <1>2, <2>1 DEF TypeInv, SecInv, EnqPC
  <2>3. /\ Range(ideal'[L]) = Range(ideal[L]) \cup {p}
        /\ IsInjective(ideal[L]) /\ p \notin Range(ideal[L]) => IsInjective(ideal'[L])
    BY <1>2, <2>1, <2>2, AppendTo
  <2>4. Entering(L) /\ \A M \in List : ~Entering(M)'
    BY <2>1 DEF Entering, EnqPC, NoSection, Section
  <2>5. CASE L = "ready"
    <3>1. ideal'["running"] = ideal["running"]  BY <1>1, <1>4, <2>5, SectionShape
    <3>2. RunningInv'  BY <1>1, <1>2, <1>4, <2>1, <2>4, <3>1 DEF IInv, RunningInv
    <3>3. ASSUME "ready" \notin met'
          PROVE  /\ IsInjective(ideal["ready"]) /\ away \cap Range(ideal["ready"]) = {}
                 /\ \A b \in Actor : hand[b] \notin Range(ideal["ready"]) \cup away
                 /\ \A b, c \in Actor : hand[b] = hand[c] /\ hand[b] # NoProc => b = c
                 /\ p \notin Range(ideal["ready"]) \cup away
                 /\ \A b \in Actor : p # hand[b]
      BY <1>1, <2>4, <2>5, <3>3 DEF IInv, ReadyInv
    <3>4. ReadyInv'
      <4> HIDE DEF p, L
      <4> QED  BY <1>1, <1>4, <2>1, <2>3, <2>4, <2>5, <3>3 DEF ReadyInv
    <3> QED  BY <3>2, <3>4
  <2>6. CASE L = "running"
    <3>1. ideal'["ready"] = ideal["ready"]  BY <1>1, <1>4, <2>6, SectionShape
    <3>2. ReadyInv'  BY <1>1, <1>4, <2>1, <2>4, <3>1 DEF IInv, ReadyInv
    <3>3. turn[Loader] = "addmlq"  BY <1>1, <2>4, <2>6 DEF TypeInv, TurnInv
    <3>4. "running" \notin met' => IsInjective(ideal["running"]) /\ p \notin Range(ideal["running"])
      BY <1>1, <2>4, <2>6 DEF IInv, RunningInv
    <3>5. RunningInv'
      BY <1>2, <1>4, <2>3, <2>4, <2>6, <3>3, <3>4 DEF RunningInv
    <3> QED  BY <3>2, <3>5
  <2> QED  BY <1>2, <1>4, <2>5, <2>6
<1>7. CASE DeqClear
  <2> DEFINE s == ideal["ready"]
             a == sec.holder
  <2>1. /\ sec.pc = "clear" /\ sec' = NoSection /\ hand' = [hand EXCEPT ![a] = sec.proc]
        /\ ideal' = [ideal EXCEPT ![sec.list] = IF @ = <<>> THEN @ ELSE Tail(@)]
    BY <1>7 DEF DeqClear
  <2>2. /\ sec.list = "ready" /\ a \in CPU /\ a \in Actor /\ a # Loader
        /\ hand \in [Actor -> Proc \cup {NoProc}] /\ s \in Seq(Proc)
        /\ ideal \in [List -> Seq(Proc)]
    BY <1>1, <1>4, <2>1, Constants DEF TypeInv, TypeOK, TurnInv, Leaving, DeqPC
  <2>3. ideal'["running"] = ideal["running"]  BY <1>1, <1>4, <2>2, SectionShape
  <2>4. \A L \in List : ~Entering(L)'
    BY <2>1 DEF Entering, EnqPC, NoSection, Section
  <2>5. hand'[Loader] = hand[Loader]  BY <2>1, <2>2
  <2>6. RunningInv'  BY <1>1, <1>2, <1>4, <2>3, <2>4, <2>5 DEF IInv, RunningInv
  <2>7. ASSUME "ready" \notin met' PROVE ReadyInv'
    <3>1. /\ IsInjective(s) /\ away \cap Range(s) = {}
          /\ \A b \in Actor : hand[b] \notin Range(s) \cup away
          /\ \A b, c \in Actor : hand[b] = hand[c] /\ hand[b] # NoProc => b = c
      BY <1>1, <2>7 DEF IInv, ReadyInv
    <3>2. SectionAt("ready")
      BY <1>1, <1>2, <1>4, <2>2, <2>7 DEF IInv, ListsInv, ListInv, Locked
    <3>3. Len(s) > 0 /\ sec.proc = s[1]  BY <2>1, <3>2 DEF SectionAt, Leaving, DeqPC
    <3>4. s # <<>>  BY <3>3
    <3>5. ideal'["ready"] = Tail(s)  BY <1>4, <2>1, <2>2, <3>4
    <3>6. /\ Range(s) = Range(Tail(s)) \cup {s[1]} /\ IsInjective(Tail(s))
          /\ s[1] \notin Range(Tail(s)) /\ s[1] \in Range(s)
      BY <2>2, <3>1, <3>4, TailOf
    <3>7. \A b \in Actor : hand'[b] = IF b = a THEN s[1] ELSE hand[b]
      BY <2>1, <2>2, <3>3
    <3>8. \A b \in Actor : hand'[b] \notin Range(Tail(s)) \cup away
      BY <3>1, <3>6, <3>7
    <3>9. \A b, c \in Actor : hand'[b] = hand'[c] /\ hand'[b] # NoProc => b = c
      BY <3>1, <3>6, <3>7
    <3>10. away \cap Range(Tail(s)) = {}  BY <3>1, <3>6
    <3> HIDE DEF s
    <3> QED  BY <1>1, <1>4, <2>4, <3>5, <3>6, <3>8, <3>9, <3>10 DEF ReadyInv
  <2> QED  BY <2>6, <2>7 DEF ReadyInv
<1> QED  BY <1>1, <1>5, <1>6, <1>7, SectionShape

\* The invariant when the slot begins
LEMMA InvInit == ASSUME Init PROVE IInv
<1>1. TypeInv  BY TypeInit
<1>2. kpc = "read" /\ sec = NoSection /\ met = {}  BY DEF Init
<1>3. \A L \in List : IsInjective(ideal[L]) /\ Exact(L)  BY InitFacts DEF Exact
<1>4. \A L \in List : ~Scanning(L) /\ ~Locked(L)  BY <1>2 DEF Scanning, Locked
<1>5. ListsInv  BY <1>3, <1>4 DEF ListsInv, ListInv
<1>6. \A L \in List : ~Entering(L)  BY <1>2 DEF Entering, EnqPC, NoSection, Section
<1>7. ReadyInv  BY <1>3, <1>6, InitFacts, Constants DEF ReadyInv
<1>8. RunningInv  BY <1>3, <1>6, InitFacts, Constants DEF RunningInv
<1> QED  BY <1>1, <1>5, <1>7, <1>8 DEF IInv

\* Every step keeps the invariant
LEMMA InvNext == ASSUME IInv, [Next]_vars PROVE IInv'
<1>1. CASE Move(KillerStep)
  BY <1>1, TypeNext, ListsKiller, PlaceKiller DEF IInv, ListsInv, Next
<1>2. CASE Move(TurnStep)
  BY <1>2, TypeNext, ListsTurn, PlaceTurn DEF IInv, ListsInv, Next
<1>3. CASE Move(SectionStep)
  BY <1>3, TypeNext, ListsSection, PlaceSection DEF IInv, ListsInv, Next
<1>4. CASE UNCHANGED vars
  <2>1. TypeInv'  BY <1>4, TypeNext DEF IInv
  <2>2. ListsInv'
    BY <1>4 DEF vars, lists, killer, others, IInv, ListsInv, ListInv, Scanning, Locked,
       KillerAt, SectionAt, Exact, Gap, Half, Leaving
  <2>3. ReadyInv' /\ RunningInv'
    BY <1>4 DEF vars, others, IInv, ReadyInv, RunningInv, Entering
  <2> QED  BY <2>1, <2>2, <2>3 DEF IInv
<1> QED  BY <1>1, <1>2, <1>3, <1>4 DEF Next

\* The invariant holds, for any capacity of the queues and any other threads
THEOREM KillallInvariance == Spec => []IInv
<1>1. Init => IInv  BY InvInit
<1>2. IInv /\ [Next]_vars => IInv'  BY InvNext
<1> QED  BY <1>1, <1>2, PTL DEF Spec

\* A list on which no critical section met __sys_killall is what atomic
\* operations would have left, with nothing lost, doubled or stale
THEOREM ListsExactThm == Spec => []ListsExact
<1>1. IInv => ListsExact
  BY DEF IInv, ListsInv, ListInv, ListsExact, Exact
<1> QED  BY <1>1, KillallInvariance, PTL

\* A step that breaks the program is one on a list on which others were met
LEMMA BreakStep ==
    ASSUME IInv, Next, broken' # broken PROVE met' # {}
<1> SUFFICES ASSUME met' = {} PROVE FALSE  OBVIOUS
<1>1. TypeInv /\ \A L \in List : L \notin met /\ ListInv(L)
  BY DEF IInv, ListsInv, Next, Move
<1>2. CASE Move(KillerStep)
  <2>1. KillerStep /\ klist \in List  BY <1>1, <1>2 DEF Move, TypeInv, KillerInv
  <2>2. kpc \notin {"read", "end"}
    BY <2>1 DEF KillerStep, ReadName, TestIdx, EndOfList, LoadProc, NoMatch, Match,
       MatchNull, Shift, ShiftRead, ShiftWrite, DecRead, DecWrite, Clear
  <2>3. KillerAt(klist)  BY <1>1, <2>1, <2>2 DEF ListInv, Scanning
  <2>4. IsInjective(ideal[klist])  BY <1>1, <2>1, Once
  <2> QED  BY <1>1, <2>1, <2>2, <2>3, <2>4, WalkStep
<1>3. CASE Move(TurnStep)
  BY <1>3 DEF Move, TurnStep, Stay, Finish, PutBack, GetProc, AddProc, AddMlqProc
<1>4. CASE Move(SectionStep)
  <2> DEFINE L == sec.list
  <2>1. SectionStep  BY <1>4 DEF Move
  <2>2. L \in List /\ Locked(L)  BY <1>1, <2>1, SectionShape DEF Locked
  <2>3. SectionAt(L)  BY <1>1, <2>2 DEF ListInv
  <2> HIDE DEF L
  <2>4. PICK M : M = L  OBVIOUS
  <2>5. M = sec.list /\ SectionAt(M)  BY <2>3, <2>4 DEF L
  <2> QED  BY <1>1, <2>1, <2>5, SectionWork
<1> QED  BY <1>2, <1>3, <1>4 DEF Next

\* Where nobody meets the walk of a list, it follows no NULL pointer and stays
\* in the array
THEOREM BreaksOnlyTogetherThm == Spec => []BreaksOnlyTogether
<1>1. Init => BreaksOnlyTogether  BY DEF Init, BreaksOnlyTogether
<1>2. IInv /\ BreaksOnlyTogether /\ [Next]_vars => BreaksOnlyTogether'
  <2> SUFFICES ASSUME IInv, BreaksOnlyTogether, [Next]_vars PROVE BreaksOnlyTogether'
    OBVIOUS
  <2>1. CASE UNCHANGED vars  BY <2>1 DEF vars, BreaksOnlyTogether
  <2>2. CASE Next
    <3>1. met \subseteq met'  BY <2>2 DEF Next, Move
    <3> QED  BY <2>2, <3>1, BreakStep DEF BreaksOnlyTogether
  <2> QED  BY <2>1, <2>2
<1> QED  BY <1>1, <1>2, KillallInvariance, PTL DEF Spec

\* A set whose elements are all equal
LEMMA AtMostOne ==
    ASSUME NEW S, \A x, y \in S : x = y
    PROVE  /\ Cardinality(S) <= 1
           /\ S # {} => Cardinality(S) = 1
<1>1. CASE S = {}  BY <1>1, FS_EmptySet
<1>2. CASE S # {}
  <2>1. PICK x : x \in S  BY <1>2
  <2>2. S = {x}  BY <2>1
  <2> QED  BY <2>2, FS_Singleton
<1> QED  BY <1>1, <1>2

\* A process that killall does not name is in one place, and is not lost
THEOREM BystandersKeptThm == Spec => []BystandersKept
<1>1. ASSUME IInv, NEW p \in Victim \ {target},
             "ready" \notin met, ~Scanning("ready"), sec = NoSection
      PROVE  KeepsPlace(p)
  <2> DEFINE s == ideal["ready"]
  <2>1. TypeInv /\ "ready" \in List /\ p \in Proc /\ NoProc \notin Proc
    BY <1>1, Constants DEF IInv, Victim
  <2>2. s \in Seq(Proc) /\ Len(s) \in Nat /\ DOMAIN s = 1 .. Len(s)
    BY <2>1, ListTypes
  <2>3. Exact("ready")  BY <1>1, <2>1 DEF IInv, ListsInv, ListInv, Locked
  <2>4. arr["ready"] = Filled(s) /\ Len(s) <= MAX_QUEUE_SIZE
    BY <2>1, <2>3, ListTypes DEF Exact
  <2>5. /\ \A a, b \in 1 .. Len(s) : s[a] = s[b] => a = b
        /\ \A a \in Actor : hand[a] \notin Range(s)
        /\ \A a, b \in Actor : hand[a] = hand[b] /\ hand[a] # NoProc => a = b
    BY <1>1, <2>2 DEF IInv, ReadyInv, IsInjective
  <2>6. ASSUME NEW k \in Slot, arr["ready"][k] = p
        PROVE  k \in Nat /\ k + 1 \in 1 .. Len(s) /\ s[k + 1] = p /\ p \in Range(s)
    <3>1. k \in Nat  BY Constants
    <3>2. k < Len(s) /\ s[k + 1] = p  BY <2>1, <2>2, <2>4, <2>6, FilledOf
    <3>3. k + 1 \in 1 .. Len(s)  BY <2>2, <3>1, <3>2
    <3> QED  BY <2>2, <3>1, <3>2, <3>3 DEF Range
  <2>7. ASSUME NEW x \in Places(p), NEW y \in Places(p) PROVE x = y
    <3>1. \A z \in Places(p) :
             \/ \E k \in Slot : arr["ready"][k] = p /\ z = <<"ready", k>>
             \/ \E a \in Actor : hand[a] = p /\ z = <<"hand", a>>
      BY DEF Places
    <3>2. CASE p \in Range(s)
      <4>1. \A z \in Places(p) : \E k \in Slot : arr["ready"][k] = p /\ z = <<"ready", k>>
        BY <2>5, <3>1, <3>2
      <4>2. PICK j \in Slot : arr["ready"][j] = p /\ x = <<"ready", j>>  BY <4>1
      <4>3. PICK k \in Slot : arr["ready"][k] = p /\ y = <<"ready", k>>  BY <4>1
      <4>4. j + 1 = k + 1 /\ j \in Nat /\ k \in Nat  BY <2>5, <2>6, <4>2, <4>3
      <4> QED  BY <4>2, <4>3, <4>4
    <3>3. CASE p \notin Range(s)
      <4>1. \A z \in Places(p) : \E a \in Actor : hand[a] = p /\ z = <<"hand", a>>
        BY <2>6, <3>1, <3>3
      <4> QED  BY <2>1, <2>5, <4>1
    <3> QED  BY <3>2, <3>3
  <2>8. ASSUME p \in Range(s) PROVE Places(p) # {}
    <3>1. PICK k \in 1 .. Len(s) : s[k] = p  BY <2>2, <2>8 DEF Range
    <3>2. k - 1 \in Slot /\ k - 1 < Len(s) /\ (k - 1) + 1 = k
      BY <2>2, <2>4, <3>1, Constants DEF Slot
    <3>3. arr["ready"][k - 1] = p  BY <2>2, <2>4, <3>1, <3>2, FilledOf
    <3> QED  BY <3>2, <3>3 DEF Places
  <2> QED  BY <2>7, <2>8, AtMostOne DEF KeepsPlace
<1>2. IInv => BystandersKept  BY <1>1 DEF BystandersKept
<1> QED  BY <1>2, KillallInvariance, PTL


----------------------------------------------------------------------------
(* What becomes of the target.                                             *)

\* The scheduler can still give p to a CPU
Schedulable(p) ==
    \/ p \in Range(ideal["ready"]) \cup away
    \/ \E a \in Actor : hand[a] = p
    \/ sec.proc = p

\* running_list names p; the loader is about to add it
Listed(p) == p \in Range(ideal["running"])
Coming(p) == hand[Loader] = p /\ (turn[Loader] = "add" \/ Entering("running"))

\* p is at no place that the walk has passed
Passed(p) == \A k \in 1 .. idx : ideal[klist][k] # p

\* The walk of mlq_ready_queue: the target is found, or still to be found
ReadyWalk(p) ==
    /\ Listed(p) \/ Coming(p)
    /\ \/ Schedulable(p) /\ given = 0 /\ Passed(p) /\ kpc \in {"read", "test", "load", "match"}
       \/ ~Schedulable(p) /\ given = 1

\* What the walk of mlq_ready_queue gives back of p
AtReady(p) == IF Schedulable(p) THEN 0 ELSE 1

\* The walk of running_list: the target is still to be found, or no longer there
RunningWalk(p) ==
    \/ /\ given = AtReady(p)
       /\ kpc \in {"test", "load", "match"}
       /\ Passed(p)
       /\ Schedulable(p) \/ Listed(p)
    \/ /\ given = AtReady(p) + 1
       /\ kpc # "end" => ~Listed(p)
    \/ given = 0 /\ Schedulable(p) /\ kpc = "end"

OutcomeInv ==
    met = {} /\ target \in Victim \ over =>
        /\ klist = "ready" => ReadyWalk(target)
        /\ klist = "running" => RunningWalk(target)

\* Where no walk is, the places of p are those where the scheduler finds it
LEMMA PlacesOf ==
    ASSUME IInv, "ready" \notin met, ~Scanning("ready"), NEW p \in Proc
    PROVE  Schedulable(p) <=> Places(p) # {} \/ sec.proc = p \/ p \in away
<1> DEFINE s == ideal["ready"]
           n == Len(s)
<1>1. TypeInv /\ "ready" \in List /\ NoProc \notin Proc  BY Constants DEF IInv
<1>2. s \in Seq(Proc) /\ n \in Nat /\ DOMAIN s = 1 .. n  BY <1>1, ListTypes
<1>3. \/ arr["ready"] = Filled(s) /\ n <= MAX_QUEUE_SIZE
      \/ /\ Half("ready", sec.i) /\ sec.i < n /\ n <= MAX_QUEUE_SIZE
         /\ sec.i \in Nat /\ sec.proc = s[1]
  <2>1. ListInv("ready")  BY <1>1 DEF IInv, ListsInv
  <2>2. Exact("ready") => n <= MAX_QUEUE_SIZE  BY <1>1, ListTypes DEF Exact
  <2>3. sec.i \in Nat  BY <1>1 DEF TypeInv, TypeOK
  <2> QED  BY <1>1, <2>1, <2>2, <2>3 DEF ListInv, SectionAt, Exact
<1>4. Slot = 0 .. MAX_QUEUE_SIZE - 1 /\ MAX_QUEUE_SIZE \in Nat  BY Constants DEF Slot
<1>5. ASSUME NEW k \in Slot, arr["ready"][k] = p PROVE p \in Range(s)
  <2>1. \E j \in 1 .. n : s[j] = p
    <3>1. CASE arr["ready"] = Filled(s)
      <4>1. k < n /\ s[k + 1] = p  BY <1>1, <1>2, <1>5, <3>1, FilledOf
      <4>2. k + 1 \in 1 .. n  BY <1>2, <1>4, <4>1
      <4> QED  BY <4>1, <4>2
    <3>2. CASE Half("ready", sec.i) /\ sec.i < n /\ sec.i \in Nat
      <4>1. \/ k < sec.i /\ s[k + 2] = p
            \/ k < n /\ s[k + 1] = p
        BY <1>1, <1>5, <3>2 DEF Half
      <4>2. (k < sec.i => k + 2 \in 1 .. n) /\ (k < n => k + 1 \in 1 .. n)
        BY <1>2, <1>4, <3>2
      <4> QED  BY <4>1, <4>2
    <3> QED  BY <1>3, <3>1, <3>2
  <2> QED  BY <1>2, <2>1 DEF Range
<1>6. ASSUME p \in Range(s), sec.proc # p PROVE \E k \in Slot : arr["ready"][k] = p
  <2>1. PICK j \in 1 .. n : s[j] = p  BY <1>2, <1>6 DEF Range
  <2>2. CASE arr["ready"] = Filled(s) /\ n <= MAX_QUEUE_SIZE
    <3>1. j - 1 \in Slot /\ j - 1 < n /\ (j - 1) + 1 = j  BY <1>2, <1>4, <2>2
    <3>2. arr["ready"][j - 1] = p  BY <1>2, <2>1, <2>2, <3>1, FilledOf
    <3> QED  BY <3>1, <3>2
  <2>3. CASE /\ Half("ready", sec.i) /\ sec.i < n /\ n <= MAX_QUEUE_SIZE
             /\ sec.i \in Nat /\ sec.proc = s[1]
    <3>1. j # 1  BY <1>6, <2>1, <2>3
    <3>2. /\ j - 2 \in Slot /\ (j - 2) + 2 = j
          /\ j - 1 \in Slot /\ (j - 1) + 1 = j /\ j - 1 < n
          /\ j - 2 < sec.i \/ ~(j - 1 < sec.i)
      BY <1>2, <1>4, <2>3, <3>1
    <3>3. arr["ready"][j - 2] = p \/ arr["ready"][j - 1] = p
      BY <2>1, <2>3, <3>2 DEF Half
    <3> QED  BY <3>2, <3>3
  <2> QED  BY <1>3, <2>2, <2>3
<1>7. Places(p) # {} <=>
         (\E k \in Slot : arr["ready"][k] = p) \/ (\E a \in Actor : hand[a] = p)
  <2>1. ASSUME NEW k \in Slot, arr["ready"][k] = p PROVE Places(p) # {}
    <3>1. <<"ready", k>> \in Places(p)  BY <2>1 DEF Places
    <3> QED  BY <3>1
  <2>2. ASSUME NEW a \in Actor, hand[a] = p PROVE Places(p) # {}
    <3>1. <<"hand", a>> \in Places(p)  BY <2>2 DEF Places
    <3> QED  BY <3>1
  <2>3. ASSUME NEW x \in Places(p)
        PROVE  (\E k \in Slot : arr["ready"][k] = p) \/ (\E a \in Actor : hand[a] = p)
    BY <2>3 DEF Places
  <2> QED  BY <2>1, <2>2, <2>3
<1> QED  BY <1>5, <1>6, <1>7 DEF Schedulable

\* The turn of another thread
LEMMA OutcomeTurn ==
    ASSUME IInv, Move(TurnStep), NEW p \in Proc \ over'
    PROVE  /\ Schedulable(p)' <=> Schedulable(p)
           /\ Listed(p)' <=> Listed(p)
           /\ Coming(p) => Coming(p)'
<1>1. TypeInv /\ TurnStep /\ UNCHANGED <<ideal, away>>
  BY DEF IInv, Move, TurnStep, Stay, Finish, PutBack, GetProc, AddProc, AddMlqProc
<1>2. /\ turn \in [Actor -> {"first", "get", "add", "addmlq", "done"}]
      /\ hand \in [Actor -> Proc \cup {NoProc}]
  BY <1>1 DEF TypeInv, TypeOK, TurnInv
<1>3. Loader \notin CPU /\ Loader \in Actor /\ CPU \subseteq Actor /\ p # NoProc
  BY Constants
<1>4. NoSection.proc = NoProc /\ ~(NoSection.pc \in EnqPC)
  BY DEF NoSection, Section, EnqPC
<1>5. Listed(p)' <=> Listed(p)  BY <1>1 DEF Listed
<1>6. ASSUME NEW a \in Actor, hand' = [hand EXCEPT ![a] = NoProc],
             \/ hand[a] # p /\ sec'.proc = sec.proc
             \/ sec = NoSection /\ sec'.proc = hand[a]
      PROVE  Schedulable(p)' <=> Schedulable(p)
  <2>1. \A b \in Actor : hand'[b] = IF b = a THEN NoProc ELSE hand[b]  BY <1>2, <1>6
  <2> QED  BY <1>1, <1>3, <1>4, <1>6, <2>1 DEF Schedulable
<1>7. ASSUME UNCHANGED hand, sec' = sec \/ (sec = NoSection /\ sec'.proc = NoProc)
      PROVE  Schedulable(p)' <=> Schedulable(p)
  BY <1>1, <1>3, <1>4, <1>7 DEF Schedulable
<1>8. ASSUME NEW c \in CPU, Stay(c) \/ Finish(c) \/ PutBack(c) \/ GetProc(c)
      PROVE  /\ Schedulable(p)' <=> Schedulable(p)
             /\ Coming(p) => Coming(p)'
  <2>1. turn'[Loader] = turn[Loader] /\ hand'[Loader] = hand[Loader] /\ c \in Actor
    BY <1>2, <1>3, <1>8 DEF Stay, Finish, PutBack, GetProc
  <2>2. sec' = sec \/ sec = NoSection  BY <1>8 DEF Stay, Finish, PutBack, GetProc
  <2>3. Coming(p) => Coming(p)'  BY <1>4, <2>1, <2>2 DEF Coming, Entering
  <2>4. CASE Stay(c)  BY <1>7, <2>3, <2>4 DEF Stay
  <2>5. CASE Finish(c)
    <3>1. hand[c] # p  BY <2>5 DEF Finish
    <3> QED  BY <1>6, <2>1, <2>3, <2>5, <3>1 DEF Finish
  <2>6. CASE PutBack(c)
    <3>1. sec'.proc = hand[c]  BY <2>6 DEF PutBack, Section
    <3> QED  BY <1>6, <2>1, <2>3, <2>6, <3>1 DEF PutBack
  <2>7. CASE GetProc(c)
    <3>1. sec'.proc = NoProc  BY <2>7 DEF GetProc, Section
    <3> QED  BY <1>7, <2>3, <2>7, <3>1 DEF GetProc
  <2> QED  BY <1>8, <2>4, <2>5, <2>6, <2>7
<1>9. ASSUME AddProc
      PROVE  /\ Schedulable(p)' <=> Schedulable(p)
             /\ Coming(p) => Coming(p)'
  <2>1. /\ sec' = Section(Loader, "etest", "running", hand[Loader])
        /\ UNCHANGED hand /\ sec = NoSection
    BY <1>9 DEF AddProc
  <2>2. sec'.proc = hand[Loader] /\ Entering("running")'
    BY <2>1 DEF Section, Entering, EnqPC
  <2>3. Schedulable(p)' <=> Schedulable(p)
    BY <1>1, <1>3, <1>4, <2>1, <2>2 DEF Schedulable
  <2> QED  BY <2>1, <2>2, <2>3 DEF Coming
<1>10. ASSUME AddMlqProc
       PROVE  /\ Schedulable(p)' <=> Schedulable(p)
              /\ Coming(p) => Coming(p)'
  <2>1. /\ sec' = Section(Loader, "etest", "ready", hand[Loader]) /\ sec = NoSection
        /\ hand' = [hand EXCEPT ![Loader] = NoProc] /\ turn[Loader] = "addmlq"
    BY <1>10 DEF AddMlqProc
  <2>2. sec'.proc = hand[Loader]  BY <2>1 DEF Section
  <2>3. ~Coming(p)  BY <1>4, <2>1 DEF Coming, Entering
  <2> QED  BY <1>3, <1>6, <2>1, <2>2, <2>3
<1> QED  BY <1>1, <1>5, <1>8, <1>9, <1>10 DEF TurnStep

\* The queue a critical section works on is not full: it lacks the process
LEMMA RoomToEnter ==
    ASSUME IInv, met = {}, EnqTest PROVE size[sec.list] < MAX_QUEUE_SIZE
<1> DEFINE L == sec.list
<1>1. sec.pc = "etest" /\ TypeInv  BY DEF EnqTest, IInv
<1>2. L \in List /\ sec.proc \in Proc /\ Entering(L) /\ Locked(L)
  BY <1>1 DEF TypeInv, SecInv, SectionType, EnqPC, Entering, Locked, NoSection, Section
<1>3. SectionAt(L)  BY <1>2 DEF IInv, ListsInv, ListInv
<1>4. size[L] = Len(ideal[L])  BY <1>1, <1>3 DEF SectionAt, Exact
<1>5. ideal[L] \in Seq(Proc) /\ IsInjective(ideal[L])  BY <1>1, <1>2, ListTypes, Once
<1>6. sec.proc \notin Range(ideal[L])
  BY <1>2 DEF IInv, ReadyInv, RunningInv, List
<1> QED  BY <1>2, <1>4, <1>5, <1>6, NotFull

\* A step of enqueue or dequeue
LEMMA OutcomeSection ==
    ASSUME IInv, Move(SectionStep), met = {}, NEW p \in Proc
    PROVE  /\ Schedulable(p)' <=> Schedulable(p)
           /\ Listed(p) \/ Coming(p) => Listed(p)' \/ Coming(p)'
           /\ sec.list # "running" => (Listed(p)' <=> Listed(p))
<1>1. TypeInv /\ SectionStep /\ UNCHANGED away  BY DEF IInv, Move
<1>2. /\ UNCHANGED turn /\ sec.list \in List /\ sec # NoSection /\ sec.pc \in EnqPC \cup DeqPC
      /\ sec \in SectionType
  BY <1>1, SectionShape DEF TypeInv, SecInv
<1>3. /\ "ready" \in List /\ "running" \in List /\ List = {"ready", "running"}
      /\ Loader \notin CPU /\ Loader \in Actor /\ CPU \subseteq Actor
      /\ NoProc \notin Proc /\ p # NoProc
  BY Constants DEF List
<1>4. /\ hand \in [Actor -> Proc \cup {NoProc}] /\ ideal \in [List -> Seq(Proc)]
      /\ SectionAt(sec.list)
  BY <1>1, <1>2 DEF IInv, ListsInv, ListInv, Locked, TypeInv, TypeOK
<1>5. NoSection.proc = NoProc /\ ~(NoSection.pc \in EnqPC)
  BY DEF NoSection, Section, EnqPC
<1>6. sec.list # "running" => ideal'["running"] = ideal["running"]
  BY <1>1, <1>3, SectionShape
<1>7. sec.list = "running" => Entering("running") /\ turn[Loader] = "addmlq"
                              /\ sec.proc = hand[Loader]
  BY <1>1, <1>2, <1>3 DEF TypeInv, TurnInv, Leaving, Entering
\* Most steps keep the lists, the hands and the process under way
<1>8. ASSUME UNCHANGED <<hand, ideal>>,
             sec'.proc = sec.proc \/ (sec.proc = NoProc /\ sec'.proc = NoProc)
      PROVE  Schedulable(p)' <=> Schedulable(p)
  BY <1>1, <1>8 DEF Schedulable
<1>9. ASSUME UNCHANGED <<hand, ideal>>, sec.pc \in EnqPC => sec' # NoSection
      PROVE  Coming(p) \/ Listed(p) => Coming(p)' \/ Listed(p)'
  BY <1>1, <1>2, <1>9, SectionShape DEF Coming, Listed, Entering
<1>10. CASE EnqTest \/ EnqRead \/ EnqWrite
  <2>1. UNCHANGED <<hand, ideal>> /\ sec.pc \in EnqPC
    BY <1>10 DEF EnqTest, EnqRead, EnqWrite, EnqPC
  <2>2. /\ sec' \in SectionType /\ sec'.proc = sec.proc
        /\ sec'.pc \in {"eread", "ewrite", "estore"}
    <3>1. CASE EnqTest
      <4>1. sec' = [sec EXCEPT !.pc = "eread"]  BY <3>1, RoomToEnter DEF EnqTest
      <4> QED  BY <1>2, <4>1 DEF SectionType, EnqPC
    <3>2. CASE EnqRead
      <4>1. size[sec.list] \in Count  BY <1>1, <1>2 DEF TypeInv, TypeOK
      <4> QED  BY <1>2, <3>2, <4>1 DEF EnqRead, SectionType, EnqPC
    <3>3. CASE EnqWrite  BY <1>2, <3>3 DEF EnqWrite, SectionType, EnqPC
    <3> QED  BY <1>10, <3>1, <3>2, <3>3
  <2>3. sec' # NoSection  BY <2>2 DEF NoSection, Section
  <2> QED  BY <1>6, <1>8, <1>9, <2>1, <2>2, <2>3 DEF Listed
<1>11. CASE EnqStore
  <2> DEFINE L == sec.list
             q == sec.proc
  <2>1. /\ sec.pc = "estore" /\ sec' = NoSection /\ UNCHANGED hand
        /\ ideal' = [ideal EXCEPT ![L] = Append(@, q)]
    BY <1>11 DEF EnqStore
  <2>2. q \in Proc /\ ideal[L] \in Seq(Proc)
    BY <1>1, <1>2, <1>4, <2>1 DEF TypeInv, SecInv, EnqPC
  <2>3. Range(ideal'[L]) = Range(ideal[L]) \cup {q}
    BY <1>2, <1>4, <2>1, <2>2, AppendTo
  <2>4. sec'.proc = NoProc  BY <1>5, <2>1
  <2>5. CASE L = "ready"
    <3>1. Schedulable(p)' <=> Schedulable(p)
      <4> HIDE DEF L, q
      <4>1. \E r : r = q  OBVIOUS
      <4> QED  BY <1>1, <1>3, <2>1, <2>3, <2>4, <2>5 DEF Schedulable, L, q
    <3>2. ~Entering("running") /\ turn'[Loader] = turn[Loader] /\ hand'[Loader] = hand[Loader]
      BY <1>2, <1>3, <2>1, <2>5 DEF Entering
    <3> QED  BY <1>3, <1>6, <2>5, <3>1, <3>2 DEF Coming, Listed
  <2>6. CASE L = "running"
    <3>1. ideal'["ready"] = ideal["ready"]  BY <1>1, <1>3, <2>6, SectionShape
    <3>2. q = hand[Loader]  BY <1>7, <2>6
    <3>3. Schedulable(p)' <=> Schedulable(p)
      BY <1>1, <1>3, <2>1, <2>4, <3>1, <3>2 DEF Schedulable
    <3>4. Listed(p) \/ Coming(p) => Listed(p)'
      BY <2>3, <2>6, <3>2 DEF Listed, Coming
    <3> QED  BY <2>6, <3>3, <3>4
  <2> QED  BY <1>2, <1>3, <2>5, <2>6
<1>12. ASSUME sec.pc \in DeqPC
       PROVE  /\ sec.list = "ready"
              /\ Listed(p)' <=> Listed(p)
              /\ UNCHANGED hand => (Coming(p) <=> Coming(p)')
  <2>1. sec.list = "ready"  BY <1>1, <1>12 DEF TypeInv, TurnInv, Leaving
  <2>2. ~Entering("running") /\ ~Entering("running")'
    <3>1. sec' = NoSection \/ sec'.list = sec.list  BY <1>1, SectionShape
    <3> QED  BY <1>3, <1>5, <2>1, <3>1 DEF Entering
  <2> QED  BY <1>2, <1>3, <1>6, <2>1, <2>2 DEF Listed, Coming
<1>13. CASE GetNothing \/ GetSome \/ DeqTest \/ DeqScan
  <2>1. UNCHANGED <<hand, ideal>> /\ sec.pc \in {"gtest", "dtest", "scan"}
    BY <1>13 DEF GetNothing, GetSome, DeqTest, DeqScan
  <2>2. sec.proc = NoProc /\ sec.pc \in DeqPC  BY <1>1, <2>1 DEF TypeInv, SecInv, DeqPC
  <2>3. sec'.proc = NoProc
    <3>1. CASE sec' = NoSection  BY <1>5, <3>1
    <3>2. CASE sec' # NoSection
      BY <1>2, <1>13, <2>2, <3>2 DEF GetNothing, GetSome, DeqTest, DeqScan, SectionType
    <3> QED  BY <3>1, <3>2
  <2>4. Schedulable(p)' <=> Schedulable(p)  BY <1>8, <2>1, <2>2, <2>3
  <2>5. (Listed(p)' <=> Listed(p)) /\ (Coming(p)' <=> Coming(p))  BY <1>12, <2>1, <2>2
  <2> QED  BY <2>4, <2>5, <1>12, <2>1, <2>2
<1>14. CASE DeqTake
  <2>1. /\ sec.pc = "take" /\ UNCHANGED <<lists, hand, ideal>>
        /\ sec' = [sec EXCEPT !.pc = "dec", !.proc = arr[sec.list][sec.i]]
    BY <1>14 DEF DeqTake
  <2>2. sec.pc \in DeqPC /\ sec.proc = NoProc /\ sec.list = "ready"
    <3>1. sec.pc \in DeqPC  BY <2>1 DEF DeqPC
    <3>2. sec.proc = NoProc  BY <1>1, <2>1 DEF TypeInv, SecInv
    <3> QED  BY <1>12, <3>1, <3>2
  <2>3. arr["ready"] = Filled(ideal["ready"]) /\ sec.i = 0 /\ Len(ideal["ready"]) > 0
        /\ Len(ideal["ready"]) <= MAX_QUEUE_SIZE
    BY <1>4, <2>1, <2>2 DEF SectionAt, Exact, Leaving
  <2>4. sec'.proc = arr["ready"][0]  BY <1>2, <2>1, <2>2, <2>3 DEF SectionType
  <2>5. arr["ready"][0] = ideal["ready"][1]
    <3>1. ideal["ready"] \in Seq(Proc) /\ Len(ideal["ready"]) \in Nat  BY <1>3, <1>4
    <3>2. 0 \in Slot  BY <2>3, <3>1, Constants
    <3> QED  BY <2>3, <3>1, <3>2, FilledOf
  <2>6. sec'.proc \in Range(ideal["ready"])
    <3>1. ideal["ready"] \in Seq(Proc) /\ ideal["ready"] # <<>>  BY <1>3, <1>4, <2>3
    <3> QED  BY <2>4, <2>5, <3>1, TailOf
  <2>7. Schedulable(p)' <=> Schedulable(p)  BY <1>1, <1>3, <2>1, <2>2, <2>6 DEF Schedulable
  <2> QED  BY <1>12, <2>1, <2>2, <2>7
<1>15. CASE DeqDecRead \/ DeqDecWrite \/ DeqShift \/ DeqShiftRead \/ DeqShiftWrite
  <2>1. UNCHANGED <<hand, ideal>> /\ sec.pc \in DeqPC
    BY <1>15 DEF DeqDecRead, DeqDecWrite, DeqShift, DeqShiftRead, DeqShiftWrite, DeqPC
  <2>2. sec'.proc = sec.proc
    BY <1>2, <1>15
    DEF DeqDecRead, DeqDecWrite, DeqShift, DeqShiftRead, DeqShiftWrite, SectionType
  <2>3. Schedulable(p)' <=> Schedulable(p)  BY <1>8, <2>1, <2>2
  <2>4. (Listed(p)' <=> Listed(p)) /\ (Coming(p)' <=> Coming(p))  BY <1>12, <2>1
  <2> QED  BY <2>3, <2>4, <1>12, <2>1
<1>16. CASE DeqClear
  <2> DEFINE s == ideal["ready"]
             a == sec.holder
  <2>1. /\ sec.pc = "clear" /\ sec' = NoSection /\ hand' = [hand EXCEPT ![a] = sec.proc]
        /\ ideal' = [ideal EXCEPT ![sec.list] = IF @ = <<>> THEN @ ELSE Tail(@)]
    BY <1>16 DEF DeqClear
  <2>2. sec.pc \in DeqPC /\ sec.list = "ready" /\ a \in CPU /\ a \in Actor /\ a # Loader
        /\ hand[a] = NoProc
    BY <1>1, <1>3, <2>1 DEF TypeInv, TurnInv, Leaving, DeqPC
  <2>3. s \in Seq(Proc) /\ s # <<>> /\ sec.proc = s[1] /\ sec'.proc = NoProc
    BY <1>3, <1>4, <1>5, <2>1, <2>2 DEF SectionAt, Leaving
  <2>4. Range(s) = Range(ideal'["ready"]) \cup {s[1]}
    <3>1. ideal'["ready"] = Tail(s)  BY <1>3, <1>4, <2>1, <2>2, <2>3
    <3> QED  BY <2>3, <3>1, TailOf
  <2>5. \A b \in Actor : hand'[b] = IF b = a THEN s[1] ELSE hand[b]
    BY <1>4, <2>1, <2>2, <2>3
  <2>6. Schedulable(p)' <=> Schedulable(p)
    <3> HIDE DEF s, a
    <3> QED  BY <1>1, <1>3, <2>2, <2>3, <2>4, <2>5 DEF Schedulable, s
  <2>7. Coming(p) => Coming(p)'
    <3>1. hand'[Loader] = hand[Loader]  BY <1>3, <2>2, <2>5
    <3>2. ~Entering("running")  BY <1>3, <2>2 DEF Entering
    <3> QED  BY <1>2, <3>1, <3>2 DEF Coming
  <2> QED  BY <1>12, <2>2, <2>6, <2>7
<1> QED  BY <1>1, <1>10, <1>11, <1>13, <1>14, <1>15, <1>16 DEF SectionStep

\* A step of the system call
LEMMA OutcomeKiller ==
    ASSUME IInv, Move(KillerStep), met = {}, NEW p \in Proc, p = target, p \notin over,
           klist = "ready" => ReadyWalk(p), klist = "running" => RunningWalk(p)
    PROVE  /\ klist' = "ready" => ReadyWalk(p)'
           /\ klist' = "running" => RunningWalk(p)'
<1>1. /\ TypeInv /\ KillerStep /\ UNCHANGED <<turn, hand, sec, over, away>>
  BY DEF IInv, Move, KillerStep, ReadName, TestIdx, EndOfList, LoadProc, NoMatch, Match,
     MatchNull, Shift, ShiftRead, ShiftWrite, DecRead, DecWrite, Clear, killer, others
<1>2. /\ klist \in List /\ List = {"ready", "running"} /\ idx \in Nat /\ given \in 0 .. 3
      /\ ideal \in [List -> Seq(Proc)] /\ ideal[klist] \in Seq(Proc)
      /\ "ready" \in List /\ "running" \in List
  BY <1>1, Constants DEF TypeInv, KillerInv, TypeOK, List
<1>3. kpc \notin {"read", "end"} => KillerAt(klist)
  BY <1>2 DEF IInv, ListsInv, ListInv, Scanning
<1>4. IsInjective(ideal[klist])  BY <1>2, Once
<1>5. Coming(p)' <=> Coming(p)  BY <1>1 DEF Coming, Entering
<1>6. ASSUME UNCHANGED ideal
      PROVE  /\ Listed(p)' <=> Listed(p)
             /\ Schedulable(p)' <=> Schedulable(p)
             /\ AtReady(p)' = AtReady(p)
  <2>1. Schedulable(p)' <=> Schedulable(p)  BY <1>1, <1>6 DEF Schedulable
  <2> QED  BY <1>6, <2>1 DEF Listed, AtReady
\* Another place is passed
<1>7. ASSUME UNCHANGED <<ideal, klist, given>>, kpc \notin {"read", "end"} \/ idx' = 0,
             kpc \in {"read", "test", "load", "match"},
             Passed(p) => Passed(p)', kpc' \in {"test", "load", "match"}
      PROVE  /\ klist' = "ready" => ReadyWalk(p)'
             /\ klist' = "running" => RunningWalk(p)'
  <2>1. CASE klist = "ready"
    BY <1>5, <1>6, <1>7, <2>1 DEF ReadyWalk
  <2>2. CASE klist = "running"
    <3>1. kpc # "end"  BY <1>7
    <3> QED  BY <1>6, <1>7, <2>2, <3>1 DEF RunningWalk
  <2> QED  BY <1>2, <1>7, <2>1, <2>2
\* The arrays change, after the process was found
<1>8. ASSUME UNCHANGED <<ideal, klist, given>>, kpc \notin {"read", "test", "load", "match", "end"},
             kpc' # "end"
      PROVE  /\ klist' = "ready" => ReadyWalk(p)'
             /\ klist' = "running" => RunningWalk(p)'
  <2>1. CASE klist = "ready"
    BY <1>5, <1>6, <1>8, <2>1 DEF ReadyWalk
  <2>2. CASE klist = "running"
    BY <1>6, <1>8, <2>2 DEF RunningWalk
  <2> QED  BY <1>2, <1>8, <2>1, <2>2
<1>9. CASE ReadName \/ TestIdx \/ LoadProc
  <2>1. /\ UNCHANGED <<ideal, klist, idx, given>> /\ kpc' \in {"test", "load", "match"}
        /\ kpc \in {"read", "test", "load"}
    BY <1>9 DEF ReadName, TestIdx, LoadProc
  <2>2. kpc = "read" => idx = 0  BY <1>1 DEF TypeInv, KillerInv
  <2>3. Passed(p) => Passed(p)'  BY <2>1 DEF Passed
  <2> QED  BY <1>7, <2>1, <2>2, <2>3
<1>10. CASE NoMatch
  <2>1. /\ UNCHANGED <<ideal, klist, given>> /\ kpc = "match" /\ kpc' = "test"
        /\ idx' = idx + 1 /\ kp # p
    BY <1>10 DEF NoMatch, Matches
  <2>2. kp = ideal[klist][idx + 1]  BY <1>3, <2>1 DEF KillerAt
  <2>3. Passed(p) => Passed(p)'
    <3>1. \A k \in 1 .. idx + 1 : k \in 1 .. idx \/ k = idx + 1  BY <1>2
    <3> QED  BY <2>1, <2>2, <3>1 DEF Passed
  <2> QED  BY <1>7, <2>1, <2>3
<1>11. CASE Shift \/ ShiftRead \/ ShiftWrite \/ DecRead \/ DecWrite \/ Clear
  <2>1. /\ UNCHANGED <<ideal, klist, given>> /\ kpc' # "end"
        /\ kpc \notin {"read", "test", "load", "match", "end"}
    BY <1>11 DEF Shift, ShiftRead, ShiftWrite, DecRead, DecWrite, Clear
  <2> QED  BY <1>8, <2>1
<1>12. CASE EndOfList
  <2>1. /\ UNCHANGED <<ideal, given>> /\ kpc = "test" /\ idx >= size[klist]
    BY <1>12 DEF EndOfList
  <2>2. CASE klist = "ready"
    <3>1. klist' = "running" /\ idx' = 0 /\ kpc' = "test"
      BY <1>12, <2>1, <2>2 DEF EndOfList
    <3>2. Passed(p)'  BY <3>1 DEF Passed
    <3>3. Schedulable(p) \/ Listed(p)
      BY <1>2, <2>2, Constants DEF ReadyWalk, Coming, Schedulable
    <3>4. given = AtReady(p)  BY <2>2 DEF ReadyWalk, AtReady
    <3> QED  BY <1>6, <2>1, <3>1, <3>2, <3>3, <3>4 DEF RunningWalk
  <2>3. CASE klist = "running"
    <3>1. klist' = "running" /\ kpc' = "end" /\ idx' = idx
      BY <1>12, <2>1, <2>3 DEF EndOfList
    <3>2. Passed(p) => ~Listed(p)
      <4>1. Exact(klist) /\ idx <= Len(ideal[klist])  BY <1>3, <2>1 DEF KillerAt
      <4>2. \A k \in 1 .. Len(ideal[klist]) : k \in 1 .. idx
        BY <1>2, <2>1, <4>1 DEF Exact
      <4> QED  BY <1>2, <2>3, <4>2 DEF Passed, Listed, Range
    <3>3. kpc # "end" /\ RunningWalk(p)  BY <2>1, <2>3
    <3>4. Schedulable(p) => AtReady(p) = 0  BY DEF AtReady
    <3> QED  BY <1>6, <2>1, <3>1, <3>2, <3>3, <3>4 DEF RunningWalk
  <2> QED  BY <1>2, <2>2, <2>3
<1>13. CASE Match
  <2>1. /\ kpc = "match" /\ kpc' = "shift" /\ klist' = klist /\ kp = p
        /\ given' = More(given) /\ ideal' = [ideal EXCEPT ![klist] = Without(@, kp)]
    BY <1>13 DEF Match, Matches
  <2>2. p = ideal[klist][idx + 1] /\ idx + 1 \in 1 .. Len(ideal[klist])
    BY <1>2, <1>3, <2>1 DEF KillerAt
  <2>3. Range(ideal'[klist]) = Range(ideal[klist]) \ {p}
    BY <1>2, <1>4, <2>1, <2>2, WithoutOf
  <2>4. p \in Range(ideal[klist])  BY <1>2, <2>2 DEF Range
  <2>5. CASE klist = "ready"
    <3>1. /\ p \notin away /\ \A a \in Actor : hand[a] # p
          /\ Entering("ready") => sec.proc # p
      BY <1>2, <2>4, <2>5 DEF IInv, ReadyInv
    <3>2. sec.proc # p
      <4>1. ~Locked("ready")
        BY <1>2, <2>1, <2>5 DEF IInv, ListsInv, ListInv, Scanning
      <4>2. sec = NoSection \/ Entering("running")
        BY <1>1, <1>2, <4>1
        DEF Locked, TypeInv, SecInv, TurnInv, SectionType, Entering, Leaving
      <4>3. sec = NoSection => sec.proc # p  BY Constants DEF NoSection, Section
      <4>4. Entering("running") => sec.proc = hand[Loader] /\ Loader \in Actor
        BY <1>1, Constants DEF TypeInv, TurnInv
      <4> QED  BY <3>1, <4>2, <4>3, <4>4
    <3>3. ~Schedulable(p)'  BY <1>1, <2>3, <2>5, <3>1, <3>2 DEF Schedulable
    <3>4. Listed(p)' <=> Listed(p)  BY <1>2, <2>1, <2>5 DEF Listed
    <3>5. given = 0
      <4>1. Schedulable(p)  BY <2>4, <2>5 DEF Schedulable
      <4> QED  BY <2>5, <4>1 DEF ReadyWalk
    <3>6. given' = 1  BY <2>1, <3>5 DEF More
    <3> QED  BY <1>5, <2>1, <2>5, <3>3, <3>4, <3>6 DEF ReadyWalk
  <2>6. CASE klist = "running"
    <3>1. Listed(p) /\ ~Listed(p)'  BY <2>3, <2>4, <2>6 DEF Listed
    <3>2. ideal'["ready"] = ideal["ready"]  BY <1>2, <2>1, <2>6
    <3>3. Schedulable(p)' <=> Schedulable(p)  BY <1>1, <3>2 DEF Schedulable
    <3>4. given = AtReady(p) /\ AtReady(p)' = AtReady(p) /\ AtReady(p) \in {0, 1}
      BY <2>1, <2>6, <3>1, <3>3 DEF RunningWalk, AtReady
    <3>5. given' = given + 1  BY <2>1, <3>4 DEF More
    <3> QED  BY <2>1, <2>6, <3>1, <3>3, <3>4, <3>5 DEF RunningWalk
  <2> QED  BY <1>2, <2>5, <2>6
<1>14. ~MatchNull
  <2>1. ASSUME kpc = "match" PROVE kp # NoProc
    <3>1. kp = ideal[klist][idx + 1] /\ idx + 1 \in 1 .. Len(ideal[klist])
      BY <1>2, <1>3, <2>1 DEF KillerAt
    <3> QED  BY <1>2, <3>1, Constants
  <2> QED  BY <2>1 DEF MatchNull
<1> QED  BY <1>1, <1>9, <1>10, <1>11, <1>12, <1>13, <1>14 DEF KillerStep

\* While nobody meets a walk, the memory of the named process was given back once
\* for each list it was taken from, and it is schedulable unless one of them was
\* mlq_ready_queue
THEOREM OutcomeInvariance == Spec => []OutcomeInv
<1>1. ASSUME Init PROVE OutcomeInv
  <2> SUFFICES ASSUME target \in Victim \ over PROVE ReadyWalk(target)
    BY <1>1 DEF OutcomeInv, Init
  <2>1. kpc = "read" /\ klist = "ready" /\ idx = 0 /\ given = 0
        /\ turn = [a \in Actor |-> IF a # Loader THEN "first"
                                   ELSE IF hand[a] = NoProc THEN "done" ELSE "add"]
    BY <1>1 DEF Init
  <2>2. target \in Proc /\ target # NoProc /\ Loader \in Actor
    BY Constants DEF Victim
  <2>3. Schedulable(target)  BY <1>1, InitFacts DEF Schedulable
  <2>4. Listed(target) \/ Coming(target)
    BY <1>1, <2>1, <2>2, InitFacts DEF Listed, Coming
  <2>5. Passed(target)  BY <2>1 DEF Passed
  <2> QED  BY <2>1, <2>3, <2>4, <2>5 DEF ReadyWalk
<1>2. ASSUME IInv, OutcomeInv, [Next]_vars PROVE OutcomeInv'
  <2> SUFFICES ASSUME NEW q, q = target', met' = {}, q \in Victim \ over'
               PROVE  /\ klist' = "ready" => ReadyWalk(q)'
                      /\ klist' = "running" => RunningWalk(q)'
    BY DEF OutcomeInv, ReadyWalk, RunningWalk, AtReady, Listed, Coming, Schedulable, Passed
  <2>1. /\ q = target /\ met = {} /\ over \subseteq over'
    <3>1. CASE UNCHANGED vars  BY <3>1 DEF vars, others
    <3>2. CASE Next
      BY <3>2 DEF Next, Move, KillerStep, ReadName, TestIdx, EndOfList, LoadProc, NoMatch,
         Match, MatchNull, Shift, ShiftRead, ShiftWrite, DecRead, DecWrite, Clear, others,
         TurnStep, Stay, Finish, PutBack, GetProc, AddProc, AddMlqProc, SectionStep
    <3> QED  BY <1>2, <3>1, <3>2
  <2>2. q \in Proc \ over' /\ q \notin over /\ q \in Victim  BY <2>1 DEF Victim
  <2>3. /\ klist = "ready" => ReadyWalk(q)
        /\ klist = "running" => RunningWalk(q)
    BY <1>2, <2>1, <2>2 DEF OutcomeInv
  <2>4. CASE UNCHANGED vars
    BY <2>3, <2>4 DEF vars, lists, killer, others, ReadyWalk, RunningWalk, AtReady, Listed,
       Coming, Schedulable, Passed, Entering
  <2>5. CASE Move(KillerStep)  BY <1>2, <2>1, <2>2, <2>3, <2>5, OutcomeKiller
  <2>6. ASSUME UNCHANGED killer, Schedulable(q)' <=> Schedulable(q),
               Listed(q) \/ Coming(q) => Listed(q)' \/ Coming(q)',
               Scanning(klist) => ideal'[klist] = ideal[klist]
        PROVE  /\ klist' = "ready" => ReadyWalk(q)'
               /\ klist' = "running" => RunningWalk(q)'
    <3>1. UNCHANGED <<kpc, klist, idx, given>>  BY <2>6 DEF killer
    <3>2. kpc \notin {"read", "end"} => (Passed(q)' <=> Passed(q))
      BY <2>6, <3>1 DEF Passed, Scanning
    <3>3. kpc = "read" => Passed(q)'
      BY <1>2, <3>1 DEF IInv, TypeInv, KillerInv, Passed
    <3>4. CASE klist = "ready"  BY <2>3, <2>6, <3>1, <3>2, <3>3, <3>4 DEF ReadyWalk
    <3>5. CASE klist = "running"
      <4>1. kpc \notin {"read", "end"} => (Listed(q)' <=> Listed(q))
        BY <2>6, <3>1, <3>5 DEF Listed, Scanning
      <4>2. AtReady(q)' = AtReady(q)  BY <2>6 DEF AtReady
      <4>3. kpc # "read"  BY <1>2, <3>5 DEF IInv, TypeInv, KillerInv
      <4> QED  BY <2>3, <2>6, <3>1, <3>2, <3>5, <4>1, <4>2, <4>3 DEF RunningWalk
    <3> QED  BY <3>1, <3>4, <3>5
  <2>7. CASE Move(TurnStep)
    <3>1. UNCHANGED <<killer, ideal>>
      BY <2>7 DEF Move, TurnStep, Stay, Finish, PutBack, GetProc, AddProc, AddMlqProc
    <3> QED  BY <1>2, <2>2, <2>6, <2>7, <3>1, OutcomeTurn
  <2>8. CASE Move(SectionStep)
    <3>1. UNCHANGED killer /\ SectionStep /\ TypeInv /\ klist \in List
      BY <1>2, <2>8 DEF Move, SectionStep, IInv, TypeInv, KillerInv
    <3>2. Scanning(klist) => ideal'[klist] = ideal[klist]
      <4>1. Scanning(klist) => ~Locked(klist)
        BY <1>2, <2>1, <3>1 DEF IInv, ListsInv, ListInv
      <4> QED  BY <3>1, <4>1, SectionShape DEF Locked
    <3> QED  BY <1>2, <2>1, <2>2, <2>6, <2>8, <3>1, <3>2, OutcomeSection
  <2> QED  BY <1>2, <2>4, <2>5, <2>7, <2>8 DEF Next
<1> QED  BY <1>1, <1>2, KillallInvariance, PTL DEF Spec

\* No CPU will ever get p again
Terminated(p) == Places(p) = {} /\ sec.proc # p /\ p \notin away

\* The call has returned, and no critical section met it in its walks
Undisturbed == kpc = "end" /\ met = {}

\* No call of killall does what it is for: when it returns undisturbed, either its
\* target can still be given to a CPU, or its memory was given back twice
KillOutcome ==
    (Undisturbed /\ target \in Victim \ over) =>
        given <= 2 /\ (given = 2 <=> Terminated(target))

\* That holds for any processes, queues and other CPUs: the memory of a ready
\* target is given back for each of the two lists it is in (sys_killall.c:60-91), and
\* only a ready one leaves the queue that get_proc takes from
THEOREM KillOutcomeThm == Spec => []KillOutcome
<1>1. ASSUME IInv, OutcomeInv, kpc = "end", met = {}, target \in Victim \ over
      PROVE  /\ given <= 2
             /\ given = 2 <=> Terminated(target)
  <2>1. klist = "running" /\ ~Scanning("ready") /\ target \in Proc
    BY <1>1 DEF IInv, TypeInv, KillerInv, Scanning
  <2>2. RunningWalk(target)  BY <1>1, <2>1 DEF OutcomeInv
  <2>3. \/ given = AtReady(target) + 1
        \/ given = 0 /\ Schedulable(target)
    BY <1>1, <2>2 DEF RunningWalk
  <2>4. given <= 2 /\ (given = 2 <=> ~Schedulable(target))  BY <2>3 DEF AtReady
  <2>5. Schedulable(target) <=> Places(target) # {} \/ sec.proc = target \/ target \in away
    BY <1>1, <2>1, PlacesOf
  <2> QED  BY <2>4, <2>5 DEF Terminated
<1>2. IInv /\ OutcomeInv => KillOutcome  BY <1>1 DEF KillOutcome, Undisturbed
<1> QED  BY <1>2, KillallInvariance, OutcomeInvariance, PTL
=============================================================================
