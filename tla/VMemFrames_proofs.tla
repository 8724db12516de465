-------------------------- MODULE VMemFrames_proofs --------------------------
(***************************************************************************)
(* Proofs about the pages and frames of VMem.tla: which pages can be       *)
(* evicted, who holds a swap frame, where every frame of MEMRAM is, and    *)
(* that a process reads what it wrote.  They rest on the address spaces of *)
(* VMemSpace_proofs.tla.                                                   *)
(***************************************************************************)
EXTENDS VMemSpace_proofs

----------------------------------------------------------------------------
(* Lists of frames and of pages.                                           *)

\* MEMPHY_get_freefp takes the first element of a list
LEMMA TailRange ==
    ASSUME NEW S, NEW s \in Seq(S), s # <<>>
    PROVE  /\ Head(s) \in S /\ Tail(s) \in Seq(S)
           /\ Range(s) = Range(Tail(s)) \cup {Head(s)}
           /\ IsInjective(s) => IsInjective(Tail(s)) /\ Head(s) \notin Range(Tail(s))
<1> DEFINE t == Tail(s)
           n == Len(s)
<1>1. /\ n \in Nat /\ n >= 1 /\ t \in Seq(S) /\ Len(t) = n - 1
      /\ Head(s) = s[1] /\ s[1] \in S
      /\ \A i \in 1 .. n - 1 : t[i] = s[i + 1]
      /\ DOMAIN s = 1 .. n /\ DOMAIN t = 1 .. n - 1
  OBVIOUS
<1> HIDE DEF t, n
<1>2. ASSUME NEW x \in Range(s) PROVE x \in Range(t) \cup {Head(s)}
  <2>1. PICK i \in 1 .. n : x = s[i]  BY <1>1, <1>2 DEF Range
  <2>2. CASE i = 1  BY <2>1, <2>2, <1>1
  <2>3. CASE i # 1
    <3>1. i - 1 \in 1 .. n - 1 /\ t[i - 1] = s[(i - 1) + 1]  BY <2>3, <1>1
    <3>2. (i - 1) + 1 = i  OBVIOUS
    <3> QED  BY <3>1, <3>2, <2>1, <1>1 DEF Range
  <2> QED  BY <2>2, <2>3
<1>3. ASSUME NEW x \in Range(t) PROVE \E i \in 2 .. n : x = s[i]
  <2>1. PICK i \in 1 .. n - 1 : x = t[i]  BY <1>1, <1>3 DEF Range
  <2>2. i + 1 \in 2 .. n /\ x = s[i + 1]  BY <2>1, <1>1
  <2> QED  BY <2>2
<1>4. Range(s) = Range(t) \cup {Head(s)}
  <2>1. Head(s) \in Range(s)
    <3>1. 1 \in 1 .. n  BY <1>1
    <3> QED  BY <3>1, <1>1 DEF Range
  <2>2. Range(t) \subseteq Range(s)
    <3>1. \A i \in 2 .. n : i \in 1 .. n  BY <1>1
    <3> QED  BY <3>1, <1>1, <1>3 DEF Range
  <2> QED  BY <2>1, <2>2, <1>2
<1>5. ASSUME IsInjective(s) PROVE IsInjective(t) /\ Head(s) \notin Range(t)
  <2>1. \A i, j \in 1 .. n : s[i] = s[j] => i = j  BY <1>1, <1>5 DEF IsInjective
  <2>2. IsInjective(t)
    <3> SUFFICES ASSUME NEW i \in 1 .. n - 1, NEW j \in 1 .. n - 1, t[i] = t[j]
                 PROVE  i = j
      BY <1>1 DEF IsInjective
    <3>1. s[i + 1] = s[j + 1] /\ i + 1 \in 1 .. n /\ j + 1 \in 1 .. n  BY <1>1
    <3>2. i + 1 = j + 1  BY <3>1, <2>1
    <3> QED  BY <3>2
  <2>3. Head(s) \notin Range(t)
    <3>1. \A i \in 2 .. n : i \in 1 .. n /\ i # 1  OBVIOUS
    <3>2. 1 \in 1 .. n  BY <1>1
    <3> QED  BY <3>1, <3>2, <2>1, <1>1, <1>3
  <2> QED  BY <2>2, <2>3
<1> QED  BY <1>1, <1>4, <1>5 DEF t

\* alloc_pages_range adds a frame to those it has
LEMMA AppendRange ==
    ASSUME NEW S, NEW s \in Seq(S), NEW x \in S
    PROVE  /\ Append(s, x) \in Seq(S)
           /\ Range(Append(s, x)) = Range(s) \cup {x}
           /\ IsInjective(s) /\ x \notin Range(s) => IsInjective(Append(s, x))
<1> DEFINE t == Append(s, x)
           n == Len(s)
<1>1. /\ n \in Nat /\ t \in Seq(S) /\ Len(t) = n + 1
      /\ t[n + 1] = x
      /\ \A i \in 1 .. n : t[i] = s[i]
      /\ DOMAIN s = 1 .. n /\ DOMAIN t = 1 .. n + 1
  OBVIOUS
<1>2. 1 .. n + 1 = (1 .. n) \cup {n + 1}  BY <1>1
<1> HIDE DEF t, n
<1>3. Range(t) = Range(s) \cup {x}
  BY <1>1, <1>2 DEF Range
<1>4. ASSUME IsInjective(s), x \notin Range(s) PROVE IsInjective(t)
  BY <1>1, <1>2, <1>4 DEF IsInjective, Range
<1> QED  BY <1>1, <1>3, <1>4 DEF t

\* Two lists are linked
LEMMA ConcatRange ==
    ASSUME NEW S, NEW s \in Seq(S), NEW t \in Seq(S)
    PROVE  /\ s \o t \in Seq(S)
           /\ Range(s \o t) = Range(s) \cup Range(t)
           /\ IsInjective(s) /\ IsInjective(t) /\ Range(s) \cap Range(t) = {}
                => IsInjective(s \o t)
<1> DEFINE u == s \o t
           n == Len(s)
           m == Len(t)
<1>1. /\ n \in Nat /\ m \in Nat /\ u \in Seq(S) /\ Len(u) = n + m
      /\ \A i \in 1 .. n : u[i] = s[i]
      /\ \A i \in n + 1 .. n + m : u[i] = t[i - n]
      /\ DOMAIN s = 1 .. n /\ DOMAIN t = 1 .. m /\ DOMAIN u = 1 .. n + m
  OBVIOUS
<1> HIDE DEF u, n, m
<1>2. \A i \in 1 .. n + m : i \in 1 .. n \/ (i \in n + 1 .. n + m /\ i - n \in 1 .. m)
  BY <1>1
<1>3. \A i \in 1 .. m : i + n \in n + 1 .. n + m /\ i + n \in 1 .. n + m /\ (i + n) - n = i
  BY <1>1
<1>4. \A i \in 1 .. n : i \in 1 .. n + m  BY <1>1
<1>5. Range(u) = Range(s) \cup Range(t)
  <2>1. Range(u) \subseteq Range(s) \cup Range(t)  BY <1>1, <1>2 DEF Range
  <2>2. Range(s) \subseteq Range(u)  BY <1>1, <1>4 DEF Range
  <2>3. Range(t) \subseteq Range(u)
    <3> SUFFICES ASSUME NEW i \in 1 .. m PROVE t[i] \in Range(u)
      BY <1>1 DEF Range
    <3>1. u[i + n] = t[i] /\ i + n \in 1 .. n + m  BY <1>1, <1>3
    <3> QED  BY <3>1, <1>1 DEF Range
  <2> QED  BY <2>1, <2>2, <2>3
<1>6. ASSUME IsInjective(s), IsInjective(t), Range(s) \cap Range(t) = {}
      PROVE  IsInjective(u)
  <2> SUFFICES ASSUME NEW i \in 1 .. n + m, NEW j \in 1 .. n + m, u[i] = u[j] PROVE i = j
    BY <1>1 DEF IsInjective
  <2>1. CASE i \in 1 .. n /\ j \in 1 .. n  BY <2>1, <1>1, <1>6 DEF IsInjective
  <2>2. CASE i \in 1 .. n /\ j \notin 1 .. n
    <3>1. u[i] \in Range(s)  BY <2>2, <1>1 DEF Range
    <3>2. u[j] \in Range(t)  BY <2>2, <1>1, <1>2 DEF Range
    <3> QED  BY <3>1, <3>2, <1>6
  <2>3. CASE i \notin 1 .. n /\ j \in 1 .. n
    <3>1. u[j] \in Range(s)  BY <2>3, <1>1 DEF Range
    <3>2. u[i] \in Range(t)  BY <2>3, <1>1, <1>2 DEF Range
    <3> QED  BY <3>1, <3>2, <1>6
  <2>4. CASE i \notin 1 .. n /\ j \notin 1 .. n
    <3>1. /\ i - n \in 1 .. m /\ j - n \in 1 .. m
          /\ t[i - n] = t[j - n]
      BY <2>4, <1>1, <1>2
    <3>2. i - n = j - n  BY <3>1, <1>1, <1>6 DEF IsInjective
    <3> QED  BY <3>2, <1>1
  <2> QED  BY <2>1, <2>2, <2>3, <2>4
<1> QED  BY <1>1, <1>5, <1>6 DEF u

\* vmap_page_range enters the pages from pgn on into fifo_pgn
LEMMA NewPages ==
    ASSUME NEW pgn \in Int, NEW num \in Nat
    PROVE  LET s == Reverse([k \in 1 .. num |-> pgn + k - 1]) IN
           /\ \A S : pgn .. pgn + num - 1 \subseteq S => s \in Seq(S)
           /\ Range(s) = pgn .. pgn + num - 1
           /\ IsInjective(s)
<1> DEFINE u == [k \in 1 .. num |-> pgn + k - 1]
           s == Reverse(u)
<1>1. u \in Seq(Int) /\ Len(u) = num  OBVIOUS
<1>2. /\ DOMAIN s = 1 .. num
      /\ \A i \in 1 .. num : s[i] = pgn + num - i
  BY <1>1 DEF Reverse
<1>3. s = [i \in 1 .. num |-> s[i]]  BY <1>1 DEF Reverse
<1> HIDE DEF u, s
<1>4. \A i \in 1 .. num : s[i] \in pgn .. pgn + num - 1  BY <1>2
<1>5. ASSUME NEW S, pgn .. pgn + num - 1 \subseteq S PROVE s \in Seq(S)
  <2>1. \A i \in 1 .. num : s[i] \in S  BY <1>4, <1>5
  <2> QED  BY <2>1, <1>3
<1>6. Range(s) = pgn .. pgn + num - 1
  <2>1. Range(s) \subseteq pgn .. pgn + num - 1  BY <1>2, <1>4 DEF Range
  <2>2. ASSUME NEW n \in pgn .. pgn + num - 1 PROVE n \in Range(s)
    <3>1. pgn + num - n \in 1 .. num /\ s[pgn + num - n] = n  BY <1>2
    <3> QED  BY <3>1, <1>2 DEF Range
  <2> QED  BY <2>1, <2>2
<1>7. IsInjective(s)  BY <1>2 DEF IsInjective
<1> QED  BY <1>5, <1>6, <1>7 DEF s, u

\* find_victim_page takes the last element of fifo_pgn
LEMMA FrontRange ==
    ASSUME NEW S, NEW s \in Seq(S), s # <<>>
    PROVE  /\ Front(s) \in Seq(S) /\ Last(s) \in S
           /\ Range(s) = Range(Front(s)) \cup {Last(s)}
<1> DEFINE t == Front(s)
           n == Len(s)
<1>1. /\ n \in Nat /\ n >= 1 /\ t \in Seq(S) /\ Len(t) = n - 1
      /\ Last(s) = s[n] /\ s[n] \in S
      /\ \A i \in 1 .. n - 1 : t[i] = s[i]
      /\ DOMAIN s = 1 .. n /\ DOMAIN t = 1 .. n - 1
  <2>1. n \in Nat /\ n >= 1 /\ Last(s) = s[n] /\ s[n] \in S /\ DOMAIN s = 1 .. n
    BY DEF Last
  <2>2. t = SubSeq(s, 1, n - 1)  BY DEF Front
  <2>3. /\ SubSeq(s, 1, n - 1) \in Seq(S) /\ Len(SubSeq(s, 1, n - 1)) = n - 1
        /\ \A i \in 1 .. n - 1 : SubSeq(s, 1, n - 1)[i] = s[i]
    BY <2>1
  <2> HIDE DEF t, n
  <2>4. DOMAIN t = 1 .. n - 1  BY <2>2, <2>3
  <2> QED  BY <2>1, <2>2, <2>3, <2>4
<1> HIDE DEF t, n
<1>2. 1 .. n = (1 .. n - 1) \cup {n}  BY <1>1
<1>3. Range(s) = Range(t) \cup {Last(s)}  BY <1>1, <1>2 DEF Range
<1> QED  BY <1>1, <1>3 DEF t

----------------------------------------------------------------------------
(* Page table entries.                                                     *)

\* The two fields of an entry: 13 and 26 bits
LEMMA Widths ==
    /\ FPN_SPAN \in Nat \ {0} /\ LOW_SPAN = FPN_SPAN * FPN_SPAN
    /\ SWPOFF_UNIT \in Nat \ {0}
<1>1. FPN_SPAN \in Nat \ {0}  BY SMT DEF FPN_SPAN
<1>2. LOW_SPAN = FPN_SPAN * FPN_SPAN  BY SMT DEF FPN_SPAN, LOW_SPAN
<1>3. SWPOFF_UNIT \in Nat \ {0}  BY SMT DEF SWPOFF_UNIT
<1> QED  BY <1>1, <1>2, <1>3

\* Replacing the last digit, base N, of a number of two digits
LEMMA LastDigit ==
    ASSUME NEW N \in Nat \ {0}, NEW f \in 0 .. N - 1, NEW low \in 0 .. N * N - 1
    PROVE  /\ low - (low % N) + f \in 0 .. N * N - 1
           /\ (low - (low % N) + f) % N = f
           /\ f % N = f
<1>1. N * N \in Nat  BY SMT
<1> DEFINE q == low \div N
<1>2. q \in Nat /\ q < N  BY <1>1, DivLess
<1>3. low = q * N + (low % N) /\ low % N \in 0 .. N - 1  BY <1>1, SMT
<1> HIDE DEF q
<1>4. low - (low % N) = q * N  BY <1>1, <1>2, <1>3, SMT
<1>5. q * N + N <= N * N  BY <1>2, SMT
<1>6. q * N \in Nat  BY <1>2, SMT
<1>7. low - (low % N) + f \in 0 .. N * N - 1  BY <1>1, <1>4, <1>5, <1>6, SMT
<1>8. (q * N + f) % N = f /\ f % N = f  BY <1>2, SMT
<1> QED  BY <1>4, <1>7, <1>8

\* The frame number that pte_set_fpn stores is read back, and the entry keeps
\* its width
LEMMA PteFpn ==
    ASSUME NEW pte, pte.low \in 0 .. LOW_SPAN - 1, NEW fpn \in 0 .. FPN_SPAN - 1
    PROVE  LET e == pte_set_fpn(pte, fpn) IN
           /\ e.present /\ ~e.swapped
           /\ e.low \in 0 .. LOW_SPAN - 1
           /\ PAGING_FPN(e) = fpn
<1> DEFINE e == pte_set_fpn(pte, fpn)
           low == pte.low
<1>1. /\ e.present /\ ~e.swapped
      /\ e.low = low - (low % FPN_SPAN) + (fpn % FPN_SPAN)
      /\ PAGING_FPN(e) = e.low % FPN_SPAN
  BY DEF pte_set_fpn, PAGING_FPN
<1>2. FPN_SPAN \in Nat \ {0} /\ LOW_SPAN = FPN_SPAN * FPN_SPAN  BY Widths
<1> HIDE DEF e, low
<1>3. e.low \in 0 .. LOW_SPAN - 1 /\ PAGING_FPN(e) = fpn
  <2>1. low \in 0 .. FPN_SPAN * FPN_SPAN - 1  BY <1>2 DEF low
  <2>2. /\ low - (low % FPN_SPAN) + fpn \in 0 .. FPN_SPAN * FPN_SPAN - 1
        /\ (low - (low % FPN_SPAN) + fpn) % FPN_SPAN = fpn
        /\ fpn % FPN_SPAN = fpn
    BY <1>2, <2>1, LastDigit
  <2> QED  BY <1>1, <1>2, <2>2
<1> QED  BY <1>1, <1>3 DEF e

\* The swap offset that pte_set_swap stores is read back
LEMMA PteSwap ==
    ASSUME NEW pte, NEW off \in Nat, off * SWPOFF_UNIT < LOW_SPAN
    PROVE  LET e == pte_set_swap(pte, off) IN
           /\ e.present /\ e.swapped
           /\ PAGING_SWP(e) = off
<1>1. SWPOFF_UNIT \in Nat \ {0} /\ LOW_SPAN \in Nat  BY Widths
<1>2. \A U \in Nat \ {0} : \A o, l \in Nat : o * U < l => ((o * U) % l) \div U = o
  BY SMT
<1> QED  BY <1>1, <1>2 DEF pte_set_swap, PAGING_SWP

----------------------------------------------------------------------------
(* What holds whatever the programs access.                                *)

\* Page tables have an entry for each page of each process
Tables == DOMAIN pgd = Proc /\ \A p \in Proc : DOMAIN pgd[p] = Page

\* The page tables after a page fault
LEMMA FaultEntries ==
    ASSUME Tables, NEW p \in Proc, NEW n \in Page, NEW v, AccessFault(p, n, v)
    PROVE  LET vic == Last(fifo[p])
               old == pte_set_swap(pgd[p][vic], Head(swpfree))
               new == pte_set_fpn(pgd[p][n], PAGING_FPN(pgd[p][vic]))
           IN  /\ Tables'
               /\ \A q \in Proc : \A m \in Page :
                     pgd'[q][m] = IF q # p THEN pgd[q][m]
                                  ELSE IF m = n THEN new
                                  ELSE IF m = vic THEN old ELSE pgd[q][m]
<1> DEFINE vic == Last(fifo[p])
           old == pte_set_swap(pgd[p][vic], Head(swpfree))
           new == pte_set_fpn(pgd[p][n], PAGING_FPN(pgd[p][vic]))
<1>1. pgd' = [pgd EXCEPT ![p][vic] = old, ![p][n] = new]  BY DEF AccessFault
<1> HIDE DEF vic, old, new
<1>2. /\ Tables'
      /\ \A q \in Proc : \A m \in Page :
            pgd'[q][m] = IF q # p THEN pgd[q][m]
                         ELSE IF m = n THEN new
                         ELSE IF m = vic THEN old ELSE pgd[q][m]
  BY <1>1 DEF Tables
<1> QED  BY <1>2 DEF vic, old, new

\* ... and after vm_map_ram has mapped the frames it got
LEMMA MapEntries ==
    ASSUME Tables, NEW p \in Proc, MapPages(p)
    PROVE  LET got == grow[p].got
               pgn == Top(p) - grow[p].need
           IN  /\ Tables'
               /\ \A q \in Proc : \A m \in Page :
                     pgd'[q][m] = IF q = p /\ m \in pgn .. pgn + Len(got) - 1
                                  THEN pte_set_fpn(pgd[p][m], got[Len(got) - (m - pgn)])
                                  ELSE pgd[q][m]
<1> DEFINE got == grow[p].got
           pgn == Top(p) - grow[p].need
<1>1. pgd' = [pgd EXCEPT ![p] = MapFrames(p, pgn, got)]  BY DEF MapPages, Top
<1> HIDE DEF got, pgn
<1>2. /\ Tables'
      /\ \A q \in Proc : \A m \in Page :
            pgd'[q][m] = IF q = p /\ m \in pgn .. pgn + Len(got) - 1
                         THEN pte_set_fpn(pgd[p][m], got[Len(got) - (m - pgn)])
                         ELSE pgd[q][m]
  BY <1>1 DEF Tables, MapFrames
<1> QED  BY <1>2 DEF got, pgn

\* The offset of every swap frame fits into a page table entry
SwapWidth == SwpFrames * SWPOFF_UNIT <= LOW_SPAN

\* Until somebody is killed, free_fp_list of MEMSWP names a frame once, and no
\* frame that a page is in
SwapInv ==
    /\ Tables
    /\ killed = {} => swpfree \in Seq(SwpFrame) /\ SwapExclusive

\* At first no page is in MEMSWP
LEMMA SwapInit == ASSUME Init PROVE SwapInv
<1>1. Tables /\ \A p \in Proc : \A n \in Page : ~pgd[p][n].swapped
  BY DEF Init, Tables, NewPte
<1>2. swpfree \in Seq(SwpFrame) /\ IsInjective(swpfree)
  <2>1. SwpFrames \in Nat  BY VMemAssumption
  <2> QED  BY <2>1 DEF Init, SwpFrame, IsInjective
<1> QED  BY <1>1, <1>2 DEF SwapInv, SwapExclusive, Swapped

\* A page fault takes a swap frame off the list; a kill ends what is said
LEMMA SwapNext == ASSUME SwapWidth, SwapInv, [Next]_vars PROVE SwapInv'
<1>1. CASE UNCHANGED <<pgd, swpfree, killed>>
  BY <1>1 DEF SwapInv, Tables, SwapExclusive, Swapped
<1>2. ASSUME NEW p \in Proc, MapPages(p), UNCHANGED fate PROVE SwapInv'
  <2>1. Tables' /\ UNCHANGED <<swpfree, killed>>
    BY <1>2, MapEntries DEF SwapInv, MapPages, fate
  <2>2. \A q \in Proc : \A m \in Page :
           pgd'[q][m].swapped => pgd'[q][m] = pgd[q][m]
    <3>1. \A pte, fpn : ~pte_set_fpn(pte, fpn).swapped  BY DEF pte_set_fpn
    <3> QED  BY <3>1, <1>2, MapEntries DEF SwapInv
  <2> QED  BY <2>1, <2>2, SMTT(40) DEF SwapInv, SwapExclusive, Swapped
<1>3. ASSUME NEW p \in Proc, NEW n \in Page, NEW v, AccessFault(p, n, v), UNCHANGED fate
      PROVE  SwapInv'
  <2> DEFINE vic == Last(fifo[p])
             off == Head(swpfree)
             old == pte_set_swap(pgd[p][vic], off)
             new == pte_set_fpn(pgd[p][n], PAGING_FPN(pgd[p][vic]))
  <2>1. /\ Tables'
        /\ \A q \in Proc : \A m \in Page :
              pgd'[q][m] = IF q # p THEN pgd[q][m]
                           ELSE IF m = n THEN new
                           ELSE IF m = vic THEN old ELSE pgd[q][m]
    BY <1>3, FaultEntries DEF SwapInv
  <2>2. ~new.swapped  BY DEF pte_set_fpn
  <2>3. swpfree # <<>> /\ swpfree' = Tail(swpfree) /\ killed' = killed
    BY <1>3 DEF AccessFault, FaultLists, fate
  <2> SUFFICES ASSUME killed = {}
               PROVE  swpfree' \in Seq(SwpFrame) /\ SwapExclusive'
    BY <2>1, <2>3 DEF SwapInv
  <2>4. swpfree \in Seq(SwpFrame) /\ IsInjective(swpfree) /\ SwapExclusive
    BY DEF SwapInv, SwapExclusive
  <2>5. /\ off \in SwpFrame /\ swpfree' \in Seq(SwpFrame) /\ IsInjective(swpfree')
        /\ Range(swpfree) = Range(swpfree') \cup {off} /\ off \notin Range(swpfree')
    BY <2>3, <2>4, TailRange
  <2>6. PAGING_SWP(old) = off
    <3>1. off \in Nat /\ off < SwpFrames /\ SwpFrames \in Nat
      BY <2>5, VMemAssumption DEF SwpFrame
    <3>2. \A U \in Nat \ {0} : \A a, b, c \in Nat : a < b /\ b * U <= c => a * U < c
      BY SMT
    <3>3. SWPOFF_UNIT \in Nat \ {0} /\ LOW_SPAN \in Nat  BY Widths
    <3>4. off * SWPOFF_UNIT < LOW_SPAN  BY <3>1, <3>2, <3>3 DEF SwapWidth
    <3> QED  BY <3>1, <3>4, PteSwap
  <2> HIDE DEF vic, off, old, new
  <2>7. ASSUME NEW q \in Proc, NEW m \in Page, pgd'[q][m].swapped
        PROVE  \/ q = p /\ m = vic /\ PAGING_SWP(pgd'[q][m]) = off
               \/ /\ pgd'[q][m] = pgd[q][m]
                  /\ pgd[q][m].swapped
                  /\ PAGING_SWP(pgd[q][m]) \notin Range(swpfree)
    BY <2>1, <2>2, <2>4, <2>6, <2>7 DEF SwapExclusive, Swapped
  <2>8. SwapExclusive'
    <3> SUFFICES ASSUME NEW a \in Proc, NEW b \in Proc, NEW m \in Page, NEW l \in Page,
                        pgd'[a][m].swapped, pgd'[b][l].swapped
                 PROVE  /\ PAGING_SWP(pgd'[a][m]) \notin Range(swpfree')
                        /\ PAGING_SWP(pgd'[a][m]) = PAGING_SWP(pgd'[b][l]) => <<a, m>> = <<b, l>>
      BY <2>5 DEF SwapExclusive, Swapped
    <3>1. PAGING_SWP(pgd'[a][m]) \notin Range(swpfree')  BY <2>5, <2>7
    <3>2. ASSUME PAGING_SWP(pgd'[a][m]) = PAGING_SWP(pgd'[b][l]) PROVE <<a, m>> = <<b, l>>
      BY <3>2, <2>4, <2>5, <2>7 DEF SwapExclusive, Swapped
    <3> QED  BY <3>1, <3>2
  <2> QED  BY <2>5, <2>8
<1>4. ASSUME NEW p \in Proc, NEW q \in Proc, NEW r \in RgId, Kill(p, q, r) PROVE SwapInv'
  BY <1>4 DEF Kill, SwapInv, Tables
<1>5. CASE Next
  <2>1. PICK p \in Proc : \/ Instruction(p) /\ UNCHANGED fate
                          \/ Finish(p)
                          \/ \E q \in Proc, r \in RgId : Kill(p, q, r)
    BY <1>5 DEF Next
  <2>2. CASE Instruction(p) /\ UNCHANGED fate
    <3>1. CASE TakeFrame(p) \/ NoFrame(p)
      BY <1>1, <2>2, <3>1 DEF TakeFrame, NoFrame, paging, fate
    <3>2. CASE MapPages(p)  BY <1>2, <2>2, <3>2
    <3>3. ASSUME NEW r \in RgId, NEW size \in Size, Alloc(p, r, size) PROVE SwapInv'
      BY <1>1, <2>2, <3>3 DEF Alloc, AllocFree, AllocBrk, paging, fate
    <3>4. ASSUME NEW r \in RgId, Free(p, r) PROVE SwapInv'
      BY <1>1, <2>2, <3>4 DEF Free, paging, fate
    <3>5. ASSUME NEW r \in RgId, NEW off, NEW v, Access(p, r, off, v) PROVE SwapInv'
      BY <1>1, <1>3, <2>2, <3>5 DEF Access, AccessPresent, AccessWild, AccessUndefined, paging, fate
    <3> QED  BY <2>2, <3>1, <3>2, <3>3, <3>4, <3>5 DEF Instruction
  <2>3. CASE Finish(p)  BY <1>1, <2>3 DEF Finish, paging
  <2> QED  BY <1>4, <2>1, <2>2, <2>3
<1>6. CASE UNCHANGED vars  BY <1>1, <1>6 DEF vars, paging, fate
<1> QED  BY <1>5, <1>6

\* Until somebody is killed, no swap frame holds two pages, and none is in the
\* free list while it holds one, whatever the programs access (pg_getpage,
\* MEMPHY_get_freefp)
THEOREM SwapExclusiveThm ==
    ASSUME SwapWidth PROVE Spec => []SwapExclusiveUntilKilled
<1>1. Init => SwapInv  BY SwapInit
<1>2. SwapInv /\ [Next]_vars => SwapInv'  BY SwapNext
<1>3. SwapInv => SwapExclusiveUntilKilled  BY DEF SwapInv, SwapExclusiveUntilKilled
<1> QED  BY <1>1, <1>2, <1>3, PTL DEF Spec

\* Why every resident page is in fifo_pgn: a page enters it with its frame, and
\* as many pages enter it as frames were taken
BookInv ==
    /\ Tables
    /\ vma \in [Proc -> [vm_end : Nat, sbrk : Nat]]
    /\ \E S : grow \in [Proc -> [need : Nat, got : Seq(S), from : Nat]]
    /\ fifo \in [Proc -> Seq(Int)]
    /\ \A p \in Proc : Len(grow[p].got) <= grow[p].need
    /\ Evictable

\* At first no page is present
LEMMA BookInit == ASSUME Init PROVE BookInv
<1>1. NoGrow \in [need : Nat, got : Seq({}), from : Nat] /\ NoGrow.need = 0 /\ NoGrow.got = <<>>
  BY DEF NoGrow, Growing
<1>2. /\ Tables /\ vma \in [Proc -> [vm_end : Nat, sbrk : Nat]]
      /\ \A p \in Proc : \A n \in Page : ~pgd[p][n].present
  BY DEF Init, Tables, NewPte
<1>3. grow \in [Proc -> [need : Nat, got : Seq({}), from : Nat]]  BY <1>1 DEF Init
<1>4. \A p \in Proc : Len(grow[p].got) <= grow[p].need  BY <1>1 DEF Init
<1>5. fifo \in [Proc -> Seq(Int)]  BY DEF Init
<1>6. Evictable  BY <1>2 DEF Evictable, Resident
<1> QED  BY <1>2, <1>3, <1>4, <1>5, <1>6 DEF BookInv

\* vmap_page_range enters the pages it gives frames to
LEMMA BookMapPages == ASSUME BookInv, NEW p \in Proc, MapPages(p) PROVE BookInv'
<1> DEFINE got == grow[p].got
           num == grow[p].need
           pgn == Top(p) - num
           new == Reverse([k \in 1 .. num |-> pgn + k - 1])
<1>1. PICK S : grow \in [Proc -> [need : Nat, got : Seq(S), from : Nat]]
  BY DEF BookInv
<1>2. got \in Seq(S) /\ num \in Nat /\ Len(got) <= num  BY <1>1 DEF BookInv
<1>3. pgn \in Int
  <2>1. vma[p].vm_end \in Nat /\ PAGESZ \in Nat \ {0}  BY VMemAssumption DEF BookInv
  <2>2. Top(p) \in Nat  BY <2>1, DivNat DEF Top
  <2> QED  BY <2>2, <1>2
<1>4. /\ ~Lacking(p)
      /\ fifo' = [fifo EXCEPT ![p] = new \o @]
      /\ grow' = [grow EXCEPT ![p] = NoGrow]
      /\ UNCHANGED vma
  BY DEF MapPages, Top
<1>5. Len(got) = num
  <2>1. Len(got) \in Nat  BY <1>2
  <2> QED  BY <2>1, <1>2, <1>4 DEF Lacking
<1>6. /\ Tables'
      /\ \A q \in Proc : \A m \in Page :
            q # p \/ m \notin pgn .. pgn + num - 1 => pgd'[q][m] = pgd[q][m]
  BY <1>5, MapEntries DEF BookInv
<1> HIDE DEF got, num, pgn
<1>7. new \in Seq(Int) /\ Range(new) = pgn .. pgn + num - 1
  <2>1. pgn .. pgn + num - 1 \subseteq Int  OBVIOUS
  <2> QED  BY <2>1, <1>2, <1>3, NewPages
<1> HIDE DEF new
<1>8. /\ fifo' \in [Proc -> Seq(Int)]
      /\ Range(fifo'[p]) = (pgn .. pgn + num - 1) \cup Range(fifo[p])
      /\ \A q \in Proc \ {p} : fifo'[q] = fifo[q]
  <2>1. fifo \in [Proc -> Seq(Int)] /\ fifo[p] \in Seq(Int)  BY DEF BookInv
  <2>2. /\ new \o fifo[p] \in Seq(Int)
        /\ Range(new \o fifo[p]) = Range(new) \cup Range(fifo[p])
    BY <1>7, <2>1, ConcatRange, ZenonT(60)
  <2>3. fifo'[p] = new \o fifo[p]  BY <1>4, <2>1
  <2> QED  BY <1>4, <1>7, <2>1, <2>2, <2>3
<1>9. /\ grow' \in [Proc -> [need : Nat, got : Seq(S), from : Nat]]
      /\ \A q \in Proc : Len(grow'[q].got) <= grow'[q].need
  <2>1. NoGrow \in [need : Nat, got : Seq(S), from : Nat] /\ NoGrow.need = 0 /\ NoGrow.got = <<>>
    BY DEF NoGrow, Growing
  <2>2. grow' \in [Proc -> [need : Nat, got : Seq(S), from : Nat]]  BY <1>1, <1>4, <2>1
  <2>3. ASSUME NEW q \in Proc PROVE Len(grow'[q].got) <= grow'[q].need
    <3>1. CASE q = p
      <4>1. grow'[q] = NoGrow /\ Len(<<>>) = 0  BY <1>1, <1>4, <3>1
      <4> QED  BY <4>1, <2>1
    <3>2. CASE q # p
      <4>1. grow'[q] = grow[q]  BY <1>1, <1>4, <3>2
      <4> QED  BY <4>1 DEF BookInv
    <3> QED  BY <3>1, <3>2
  <2> QED  BY <2>2, <2>3
<1>10. Evictable'
  <2> SUFFICES ASSUME NEW q \in Proc, NEW m \in Page, pgd'[q][m].present, ~pgd'[q][m].swapped
               PROVE  m \in Range(fifo'[q])
    BY DEF Evictable, Resident
  <2>1. CASE q = p /\ m \in pgn .. pgn + num - 1  BY <2>1, <1>8
  <2>2. CASE q # p \/ m \notin pgn .. pgn + num - 1
    <3>1. m \in Range(fifo[q])  BY <2>2, <1>6 DEF BookInv, Evictable, Resident
    <3> QED  BY <3>1, <1>8
  <2> QED  BY <2>1, <2>2
<1> QED  BY <1>4, <1>6, <1>8, <1>9, <1>10 DEF BookInv

\* The page that is brought in enters fifo_pgn, the victim leaves MEMRAM
LEMMA BookFault ==
    ASSUME BookInv, NEW p \in Proc, NEW n \in Page, NEW v, AccessFault(p, n, v)
    PROVE  BookInv'
<1> DEFINE vic == Last(fifo[p])
           old == pte_set_swap(pgd[p][vic], Head(swpfree))
           new == pte_set_fpn(pgd[p][n], PAGING_FPN(pgd[p][vic]))
<1>1. /\ Tables'
      /\ \A q \in Proc : \A m \in Page :
            pgd'[q][m] = IF q # p THEN pgd[q][m]
                         ELSE IF m = n THEN new
                         ELSE IF m = vic THEN old ELSE pgd[q][m]
  BY FaultEntries DEF BookInv
<1>2. old.swapped  BY DEF pte_set_swap
<1>3. /\ fifo[p] # <<>> /\ fifo' = [fifo EXCEPT ![p] = <<n>> \o Front(@)]
      /\ UNCHANGED <<vma, grow>>
  BY DEF AccessFault, FaultLists, space
<1>4. /\ fifo \in [Proc -> Seq(Int)] /\ fifo[p] \in Seq(Int)
      /\ Front(fifo[p]) \in Seq(Int)
      /\ Range(fifo[p]) = Range(Front(fifo[p])) \cup {vic}
  BY <1>3, FrontRange DEF BookInv
<1> HIDE DEF vic, old, new
<1>5. /\ <<n>> \o Front(fifo[p]) \in Seq(Int)
      /\ Range(<<n>> \o Front(fifo[p])) = {n} \cup Range(Front(fifo[p]))
  <2>1. n \in Int  BY DEF Page
  <2>2. <<n>> \in Seq(Int) /\ Range(<<n>>) = {n}
    <3>1. DOMAIN <<n>> = {1} /\ <<n>>[1] = n  OBVIOUS
    <3>2. Range(<<n>>) = {n}  BY <3>1, Zenon DEF Range
    <3> QED  BY <2>1, <3>2
  <2> DEFINE one == <<n>>
             front == Front(fifo[p])
  <2>3. one \in Seq(Int) /\ Range(one) = {n} /\ front \in Seq(Int)  BY <2>2, <1>4
  <2> HIDE DEF one, front
  <2>4. one \o front \in Seq(Int) /\ Range(one \o front) = {n} \cup Range(front)
    BY <2>3, ConcatRange
  <2> QED  BY <2>4 DEF one, front
<1>6. /\ fifo' \in [Proc -> Seq(Int)]
      /\ Range(fifo'[p]) = {n} \cup Range(Front(fifo[p]))
      /\ \A q \in Proc \ {p} : fifo'[q] = fifo[q]
  <2>1. fifo'[p] = <<n>> \o Front(fifo[p])  BY <1>3, <1>4
  <2> QED  BY <2>1, <1>3, <1>4, <1>5
<1>7. Evictable'
  <2> SUFFICES ASSUME NEW q \in Proc, NEW m \in Page, pgd'[q][m].present, ~pgd'[q][m].swapped
               PROVE  m \in Range(fifo'[q])
    BY DEF Evictable, Resident
  <2>1. CASE q # p
    <3>1. m \in Range(fifo[q])  BY <2>1, <1>1 DEF BookInv, Evictable, Resident
    <3> QED  BY <3>1, <2>1, <1>6
  <2>2. CASE q = p /\ m = n  BY <2>2, <1>6
  <2>3. CASE q = p /\ m # n
    <3>1. m # vic /\ pgd'[q][m] = pgd[q][m]  BY <2>3, <1>1, <1>2
    <3>2. m \in Range(fifo[p])  BY <2>3, <3>1 DEF BookInv, Evictable, Resident
    <3> QED  BY <2>3, <3>1, <3>2, <1>4, <1>6
  <2> QED  BY <2>1, <2>2, <2>3
<1> QED  BY <1>1, <1>3, <1>6, <1>7 DEF BookInv

\* Every step keeps the books
LEMMA BookNext == ASSUME BookInv, [Next]_vars PROVE BookInv'
<1>1. CASE UNCHANGED <<vma, grow, pgd, fifo>>
  BY <1>1 DEF BookInv, Tables, Evictable, Resident
<1>2. PICK S : grow \in [Proc -> [need : Nat, got : Seq(S), from : Nat]]
  BY DEF BookInv
<1>3. ASSUME NEW p \in Proc, TakeFrame(p) PROVE BookInv'
  <2>1. /\ Lacking(p) /\ grow' = [grow EXCEPT ![p].got = Append(@, Head(ramfree))]
        /\ UNCHANGED <<vma, pgd, fifo>>
    BY <1>3 DEF TakeFrame, space
  <2>2. /\ grow'[p].need = grow[p].need
        /\ Len(grow'[p].got) = Len(grow[p].got) + 1
        /\ grow' \in [Proc -> [need : Nat, got : Seq(S \cup {Head(ramfree)}), from : Nat]]
        /\ \A q \in Proc \ {p} : grow'[q] = grow[q]
    BY <1>2, <2>1, OneMore
  <2>3. Len(grow[p].got) \in Nat /\ grow[p].need \in Nat  BY <1>2
  <2>4. Len(grow'[p].got) <= grow'[p].need  BY <2>1, <2>2, <2>3 DEF Lacking
  <2> QED  BY <2>1, <2>2, <2>4 DEF BookInv, Tables, Evictable, Resident
<1>4. ASSUME NEW p \in Proc, NEW r \in RgId, NEW size \in Size, AllocBrk(p, r, size)
      PROVE  BookInv'
  <2> DEFINE k == (size + PAGESZ - 1) \div PAGESZ
             inc == k * PAGESZ
             end == vma[p].sbrk + inc
             g == Growing(inc \div PAGESZ, vma[p].sbrk + size)
  <2>1. /\ vma' = [vma EXCEPT ![p] = [vm_end |-> end, sbrk |-> end]]
        /\ grow' = [grow EXCEPT ![p] = g]
        /\ UNCHANGED <<pgd, fifo>>
    BY <1>4 DEF AllocBrk, inc_vma_limit, PAGING_PAGE_ALIGNSZ, paging
  <2>2. /\ size \in Nat \ {0} /\ PAGESZ \in Nat \ {0}
        /\ vma \in [Proc -> [vm_end : Nat, sbrk : Nat]] /\ vma[p].sbrk \in Nat
    BY VMemAssumption DEF BookInv
  <2>3. k \in Nat  BY <2>2, Aligned
  <2>4. inc \div PAGESZ = k /\ inc \in Nat
    <3> HIDE DEF k
    <3> QED  BY <2>2, <2>3, DivMul, MulSum
  <2> HIDE DEF inc, k
  <2>5. end \in Nat /\ vma[p].sbrk + size \in Nat  BY <2>2, <2>4
  <2>6. vma' \in [Proc -> [vm_end : Nat, sbrk : Nat]]
    <3> HIDE DEF end
    <3> QED  BY <2>1, <2>2, <2>5
  <2>7. g \in [need : Nat, got : Seq(S), from : Nat] /\ g.got = <<>> /\ g.need \in Nat
    BY <2>3, <2>4, <2>5 DEF Growing
  <2> HIDE DEF g
  <2>8. grow' \in [Proc -> [need : Nat, got : Seq(S), from : Nat]]  BY <1>2, <2>1, <2>7
  <2>9. ASSUME NEW q \in Proc PROVE Len(grow'[q].got) <= grow'[q].need
    <3>1. CASE q = p
      <4>1. grow'[q] = g /\ Len(<<>>) = 0  BY <1>2, <2>1, <3>1
      <4> QED  BY <4>1, <2>7
    <3>2. CASE q # p
      <4>1. grow'[q] = grow[q]  BY <1>2, <2>1, <3>2
      <4> QED  BY <4>1 DEF BookInv
    <3> QED  BY <3>1, <3>2
  <2> QED  BY <2>1, <2>6, <2>8, <2>9 DEF BookInv, Tables, Evictable, Resident
<1>5. CASE Next
  <2>1. PICK p \in Proc : \/ Instruction(p)
                          \/ Finish(p)
                          \/ \E q \in Proc, r \in RgId : Kill(p, q, r)
    BY <1>5 DEF Next
  <2>2. CASE Instruction(p)
    <3>1. CASE TakeFrame(p)  BY <1>3, <3>1
    <3>2. CASE NoFrame(p)  BY <1>1, <3>2 DEF NoFrame, paging, space
    <3>3. CASE MapPages(p)  BY <3>3, BookMapPages
    <3>4. ASSUME NEW r \in RgId, NEW size \in Size, AllocFree(p, r, size) PROVE BookInv'
      BY <1>1, <3>4 DEF AllocFree, paging
    <3>5. ASSUME NEW r \in RgId, Free(p, r) PROVE BookInv'
      BY <1>1, <3>5 DEF Free, paging
    <3>6. ASSUME NEW r \in RgId, NEW off, NEW v, Access(p, r, off, v) PROVE BookInv'
      BY <1>1, <3>6, BookFault
      DEF Access, AccessPresent, AccessWild, AccessUndefined, paging, space
    <3> QED  BY <1>4, <2>2, <3>1, <3>2, <3>3, <3>4, <3>5, <3>6 DEF Instruction, Alloc
  <2>3. CASE Finish(p)  BY <1>1, <2>3 DEF Finish, paging, space
  <2>4. CASE \E q \in Proc, r \in RgId : Kill(p, q, r)  BY <1>1, <2>4 DEF Kill
  <2> QED  BY <2>1, <2>2, <2>3, <2>4
<1>6. CASE UNCHANGED vars  BY <1>1, <1>6 DEF vars, paging, space
<1> QED  BY <1>5, <1>6

\* Every page in MEMRAM is in fifo_pgn of its process, so find_victim_page
\* comes to it some day, whatever the programs access and whoever is killed
THEOREM EvictableThm == Spec => []Evictable
<1>1. Init => BookInv  BY BookInit
<1>2. BookInv /\ [Next]_vars => BookInv'  BY BookNext
<1>3. BookInv => Evictable  BY DEF BookInv
<1> QED  BY <1>1, <1>2, <1>3, PTL DEF Spec

----------------------------------------------------------------------------
(* What holds while nobody strays and nobody is killed.                    *)

\* Accesses stay inside regions, and a page table entry can name every frame:
\* PAGING_PTE_FPN_MASK has 13 bits
Tame ==
    /\ EvenSizes /\ NoKills
    /\ Stray = {}
    /\ RamFrames <= FPN_SPAN

\* The pages that have their frames
Mapped(p) == {n \in Page : n + grow[p].need < Top(p)}

\* The frame behind a page
Behind(p, n) == PAGING_FPN(pgd[p][n])

\* The frames on their way into an address space
Got(p) == Range(grow[p].got)

\* Exactly the mapped pages are present, they are in MEMRAM, and each is in
\* fifo_pgn once
PagesInv(p) ==
    /\ IsInjective(grow[p].got)
    /\ \A n \in Page :
          /\ pgd[p][n].present = (n \in Mapped(p))
          /\ pgd[p][n].swapped = FALSE
          /\ pgd[p][n].low \in 0 .. LOW_SPAN - 1
    /\ \A n \in Mapped(p) : Behind(p, n) \in Frame
    /\ IsInjective(fifo[p]) /\ Range(fifo[p]) = Mapped(p)

\* A frame is free, or taken by one process, or behind one page
FramesInv ==
    /\ IsInjective(ramfree)
    /\ \A p \in Proc : Got(p) \cap Range(ramfree) = {}
    /\ \A p, q \in Proc : p # q => Got(p) \cap Got(q) = {}
    /\ \A p \in Proc : \A n \in Mapped(p) :
          /\ Behind(p, n) \notin Range(ramfree)
          /\ \A q \in Proc : Behind(p, n) \notin Got(q)
    /\ \A p, q \in Proc : \A n \in Mapped(p), m \in Mapped(q) :
          Behind(p, n) = Behind(q, m) => p = q /\ n = m
    /\ \A f \in Frame :
          \/ f \in Range(ramfree)
          \/ \E p \in Proc : f \in Got(p) \/ \E n \in Mapped(p) : f = Behind(p, n)

Extension == [need : Nat, got : Seq(Frame), from : Nat]

FInv ==
    /\ Tables
    /\ grow \in [Proc -> Extension]
    /\ fifo \in [Proc -> Seq(Page)]
    /\ ramfree \in Seq(Frame)
    /\ \A p \in Proc : PagesInv(p)
    /\ FramesInv

\* At first all frames are free
LEMMA FrameInit == ASSUME Init PROVE FInv
<1>1. NoGrow \in Extension /\ NoGrow.need = 0 /\ NoGrow.got = <<>>
  BY DEF NoGrow, Growing, Extension
<1>2. RamFrames \in Nat /\ ramfree = [k \in 1 .. RamFrames |-> k - 1]
  BY VMemAssumption DEF Init
<1>3. /\ ramfree \in Seq(Frame) /\ IsInjective(ramfree) /\ Range(ramfree) = Frame
  <2>1. ramfree \in Seq(Frame) /\ IsInjective(ramfree)
    BY <1>2 DEF Frame, IsInjective
  <2>2. Range(ramfree) \subseteq Frame  BY <1>2 DEF Range, Frame
  <2>3. ASSUME NEW f \in Frame PROVE f \in Range(ramfree)
    <3>1. f + 1 \in 1 .. RamFrames /\ ramfree[f + 1] = f  BY <1>2 DEF Frame
    <3>2. DOMAIN ramfree = 1 .. RamFrames  BY <1>2
    <3> QED  BY <3>1, <3>2 DEF Range
  <2> QED  BY <2>1, <2>2, <2>3
<1>4. ASSUME NEW p \in Proc
      PROVE  /\ grow[p] = NoGrow /\ Got(p) = {} /\ Mapped(p) = {} /\ fifo[p] = <<>>
             /\ \A n \in Page : pgd[p][n] = NewPte
  <2>1. /\ grow[p] = NoGrow /\ fifo[p] = <<>> /\ vma[p].vm_end = 0
        /\ \A n \in Page : pgd[p][n] = NewPte
    BY DEF Init
  <2>2. Top(p) = 0  BY <2>1, VMemAssumption DEF Top
  <2>3. Mapped(p) = {}  BY <2>1, <2>2, <1>1 DEF Mapped, Page
  <2>4. Got(p) = {}  BY <2>1, <1>1 DEF Got, Range
  <2> QED  BY <2>1, <2>3, <2>4
<1>5. Tables /\ grow \in [Proc -> Extension] /\ fifo \in [Proc -> Seq(Page)]
  BY <1>1 DEF Init, Tables
<1>6. ASSUME NEW p \in Proc PROVE PagesInv(p)
  <2>1. IsInjective(<<>>) /\ Range(<<>>) = {}  BY DEF IsInjective, Range
  <2>2. NewPte.low \in 0 .. LOW_SPAN - 1
    <3>1. \A N \in Nat \ {0} : 0 \in 0 .. N * N - 1  BY SMT
    <3> QED  BY <3>1, Widths DEF NewPte
  <2>3. NewPte.present = FALSE /\ NewPte.swapped = FALSE  BY DEF NewPte
  <2>4. IsInjective(grow[p].got)  BY <2>1, <1>1, <1>4
  <2>5. IsInjective(fifo[p]) /\ Range(fifo[p]) = Mapped(p)  BY <2>1, <1>4
  <2>6. \A n \in Page : /\ pgd[p][n].present = (n \in Mapped(p))
                         /\ pgd[p][n].swapped = FALSE
                         /\ pgd[p][n].low \in 0 .. LOW_SPAN - 1
    <3> TAKE n \in Page
    <3>1. (n \in Mapped(p)) = FALSE /\ pgd[p][n] = NewPte  BY <1>4
    <3> QED  BY <3>1, <2>2, <2>3, Zenon
  <2> QED  BY <2>4, <2>5, <2>6, <1>4 DEF PagesInv
<1>7. FramesInv  BY <1>3, <1>4 DEF FramesInv
<1> QED  BY <1>3, <1>5, <1>6, <1>7 DEF FInv

\* A step that moves no frame
LEMMA FrameQuiet ==
    ASSUME FInv, UNCHANGED <<pgd, fifo, ramfree>>,
           grow' \in [Proc -> Extension],
           \A p \in Proc : grow'[p].got = grow[p].got /\ Mapped(p)' = Mapped(p)
    PROVE  FInv'
<1>1. \A p \in Proc : Got(p)' = Got(p)  BY DEF Got
<1>2. \A p \in Proc : PagesInv(p)'  BY DEF FInv, PagesInv, Behind
<1>3. FramesInv'  BY <1>1 DEF FInv, FramesInv, Behind
<1> QED  BY <1>2, <1>3 DEF FInv, Tables

\* MEMPHY_get_freefp hands a frame from the free list to one process
LEMMA FrameTake == ASSUME FInv, NEW p \in Proc, TakeFrame(p) PROVE FInv'
<1> DEFINE f == Head(ramfree)
<1>1. /\ grow' = [grow EXCEPT ![p].got = Append(@, f)]
      /\ ramfree # <<>> /\ ramfree' = Tail(ramfree)
      /\ UNCHANGED <<vma, pgd, fifo>>
  BY DEF TakeFrame, space
<1>2. /\ f \in Frame /\ ramfree' \in Seq(Frame) /\ IsInjective(ramfree')
      /\ Range(ramfree) = Range(ramfree') \cup {f} /\ f \notin Range(ramfree')
  BY <1>1, TailRange DEF FInv, FramesInv
<1> HIDE DEF f
<1>3. /\ grow'[p].need = grow[p].need
      /\ grow'[p].got = Append(grow[p].got, f)
      /\ grow' \in [Proc -> Extension]
      /\ \A q \in Proc \ {p} : grow'[q] = grow[q]
  <2>1. Frame \cup {f} = Frame  BY <1>2
  <2>2. grow \in [Proc -> [need : Nat, got : Seq(Frame), from : Nat]]
    BY DEF FInv, Extension
  <2>3. /\ grow'[p].need = grow[p].need
        /\ grow'[p].got = Append(grow[p].got, f)
        /\ grow' \in [Proc -> [need : Nat, got : Seq(Frame \cup {f}), from : Nat]]
        /\ \A q \in Proc \ {p} : grow'[q] = grow[q]
    BY <1>1, <2>2, OneMore
  <2> QED  BY <2>1, <2>3 DEF Extension
<1>4. /\ grow[p].got \in Seq(Frame) /\ IsInjective(grow[p].got)
      /\ f \notin Got(p)
  BY <1>2 DEF FInv, Extension, PagesInv, FramesInv
<1>5. Got(p)' = Got(p) \cup {f} /\ IsInjective(grow'[p].got)
  BY <1>2, <1>3, <1>4, AppendRange DEF Got
<1>6. /\ \A q \in Proc \ {p} : Got(q)' = Got(q)
      /\ \A q \in Proc : Mapped(q)' = Mapped(q)
      /\ \A q \in Proc : \A n : Behind(q, n)' = Behind(q, n)
  BY <1>1, <1>3 DEF Got, Mapped, Top, Behind
<1>7. ASSUME NEW q \in Proc PROVE PagesInv(q)'
  <2>1. PagesInv(q)  BY DEF FInv
  <2>2. IsInjective(grow'[q].got)  BY <2>1, <1>3, <1>5 DEF PagesInv
  <2> QED  BY <2>1, <2>2, <1>1, <1>6 DEF PagesInv
<1>8. FramesInv'
  <2>1. FramesInv  BY DEF FInv
  <2>2. \A q \in Proc : Got(q)' \cap Range(ramfree') = {}
    BY <2>1, <1>2, <1>5, <1>6 DEF FramesInv
  <2>3. \A a, b \in Proc : a # b => Got(a)' \cap Got(b)' = {}
    BY <2>1, <1>2, <1>5, <1>6 DEF FramesInv
  <2>4. \A a \in Proc : \A n \in Mapped(a) :
           /\ Behind(a, n) \notin Range(ramfree')
           /\ \A q \in Proc : Behind(a, n) \notin Got(q)'
    BY <2>1, <1>2, <1>5, <1>6 DEF FramesInv
  <2>5. \A g \in Frame :
           \/ g \in Range(ramfree')
           \/ \E q \in Proc : g \in Got(q)' \/ \E n \in Mapped(q) : g = Behind(q, n)
    BY <2>1, <1>2, <1>5, <1>6 DEF FramesInv
  <2>6. \A a, b \in Proc : \A n \in Mapped(a), m \in Mapped(b) :
           Behind(a, n) = Behind(b, m) => a = b /\ n = m
    BY <2>1 DEF FramesInv
  <2> QED  BY <2>2, <2>3, <2>4, <2>5, <2>6, <1>2, <1>6 DEF FramesInv
<1> QED  BY <1>1, <1>2, <1>3, <1>7, <1>8 DEF FInv, Tables

\* The frames that were taken go behind the new pages, one each
LEMMA FrameMap ==
    ASSUME Tame, SInv, FInv, NEW p \in Proc, MapPages(p)
    PROVE  FInv'
<1> DEFINE got == grow[p].got
           num == grow[p].need
           pgn == Top(p) - num
           new == pgn .. pgn + num - 1
           list == Reverse([k \in 1 .. num |-> pgn + k - 1])
<1>1. /\ num \in Nat /\ Len(got) = num /\ got \in Seq(Frame) /\ IsInjective(got)
      /\ pgn \in Nat /\ pgn + num = Top(p) /\ Top(p) <= MaxPgn /\ MaxPgn \in Nat
  <2>1. /\ num \in Nat /\ Top(p) \in Nat /\ Len(got) \in Nat /\ GrowOK(p)
    BY SpaceParts DEF SInv, SpaceInv
  <2>2. ~Lacking(p)  BY DEF MapPages
  <2>3. got \in Seq(Frame) /\ IsInjective(got)  BY DEF FInv, Extension, PagesInv
  <2>4. MaxPgn \in Nat  BY VMemAssumption
  <2> QED  BY <2>1, <2>2, <2>3, <2>4, SMTT(40) DEF GrowOK, Lacking
<1>2. /\ fifo' = [fifo EXCEPT ![p] = list \o @]
      /\ grow' = [grow EXCEPT ![p] = NoGrow]
      /\ UNCHANGED <<vma, ramfree>>
  BY DEF MapPages, Top
<1>3. /\ Tables'
      /\ \A q \in Proc : \A m \in Page :
            pgd'[q][m] = IF q = p /\ m \in new
                         THEN pte_set_fpn(pgd[p][m], got[num - (m - pgn)])
                         ELSE pgd[q][m]
  <2>1. Tables  BY DEF FInv
  <2>2. /\ Tables'
        /\ \A q \in Proc : \A m \in Page :
              pgd'[q][m] = IF q = p /\ m \in pgn .. pgn + Len(got) - 1
                           THEN pte_set_fpn(pgd[p][m], got[Len(got) - (m - pgn)])
                           ELSE pgd[q][m]
    BY <2>1, MapEntries, Zenon
  <2> HIDE DEF got, num, pgn
  <2>3. Len(got) = num  BY <1>1
  <2> QED  BY <2>2, <2>3, Zenon
<1>4. /\ grow' \in [Proc -> Extension] /\ grow'[p].need = 0 /\ grow'[p].got = <<>>
      /\ \A q \in Proc \ {p} : grow'[q] = grow[q]
  <2>1. NoGrow \in Extension /\ NoGrow.need = 0 /\ NoGrow.got = <<>>
    BY DEF NoGrow, Growing, Extension
  <2> QED  BY <1>2, <2>1 DEF FInv
<1> HIDE DEF got, num, pgn, list
<1>5. new \subseteq Page /\ \A m \in new : num - (m - pgn) \in 1 .. num
  BY <1>1 DEF Page
<1>6. /\ Mapped(p)' = Mapped(p) \cup new /\ Mapped(p) \cap new = {}
      /\ \A q \in Proc \ {p} : Mapped(q)' = Mapped(q)
  <2>1. \A q \in Proc : Top(q)' = Top(q)  BY <1>2 DEF Top
  <2>2. Mapped(p) = {n \in Page : n + num < Top(p)}  BY DEF Mapped, num
  <2>3. Mapped(p)' = {n \in Page : n + 0 < Top(p)}  BY <2>1, <1>4 DEF Mapped
  <2>4. \A n \in Page : n \in Nat /\ (n + 0 < Top(p) <=> n + num < Top(p) \/ n \in new)
    BY <1>1 DEF Page
  <2>5. \A n \in new : ~(n + num < Top(p))  BY <1>1
  <2>6. \A q \in Proc \ {p} : Mapped(q)' = Mapped(q)  BY <2>1, <1>4 DEF Mapped
  <2> HIDE DEF new
  <2> QED  BY <2>2, <2>3, <2>4, <2>5, <2>6, <1>5
<1>7. /\ Got(p) = Range(got) /\ Got(p)' = {}
      /\ \A q \in Proc \ {p} : Got(q)' = Got(q)
  BY <1>4 DEF Got, got, Range
<1>8. ASSUME NEW m \in new
      PROVE  /\ pgd'[p][m].present = TRUE /\ pgd'[p][m].swapped = FALSE
             /\ pgd'[p][m].low \in 0 .. LOW_SPAN - 1
             /\ Behind(p, m)' = got[num - (m - pgn)]
  <2> DEFINE f == got[num - (m - pgn)]
  <2>1. pgd'[p][m] = pte_set_fpn(pgd[p][m], f) /\ m \in Page  BY <1>3, <1>5
  <2>2. f \in 0 .. FPN_SPAN - 1
    <3>1. f \in Frame  BY <1>1, <1>5
    <3>2. RamFrames \in Nat /\ RamFrames <= FPN_SPAN /\ FPN_SPAN \in Nat
      BY VMemAssumption, Widths DEF Tame
    <3> QED  BY <3>1, <3>2 DEF Frame
  <2>3. pgd[p][m].low \in 0 .. LOW_SPAN - 1  BY <2>1 DEF FInv, PagesInv
  <2> HIDE DEF f
  <2>4. /\ pte_set_fpn(pgd[p][m], f).low \in 0 .. LOW_SPAN - 1
        /\ PAGING_FPN(pte_set_fpn(pgd[p][m], f)) = f
    BY <2>2, <2>3, PteFpn
  <2>5. /\ pte_set_fpn(pgd[p][m], f).present = TRUE
        /\ pte_set_fpn(pgd[p][m], f).swapped = FALSE
    BY DEF pte_set_fpn
  <2>6. Behind(p, m)' = PAGING_FPN(pgd'[p][m])  BY DEF Behind
  <2> QED  BY <2>1, <2>4, <2>5, <2>6, Zenon DEF f
<1>9. \A q \in Proc : \A n \in Page :
         q # p \/ n \notin new => pgd'[q][n] = pgd[q][n] /\ Behind(q, n)' = Behind(q, n)
  BY <1>3 DEF Behind
<1>10. /\ \A m \in new : Behind(p, m)' \in Got(p)
       /\ \A m, n \in new : Behind(p, m)' = Behind(p, n)' => m = n
       /\ \A f \in Got(p) : \E m \in new : f = Behind(p, m)'
  <2>1. DOMAIN got = 1 .. num  BY <1>1
  <2>2. \A m \in new : Behind(p, m)' \in Got(p)
    BY <2>1, <1>5, <1>7, <1>8 DEF Range
  <2>3. ASSUME NEW m \in new, NEW n \in new, Behind(p, m)' = Behind(p, n)' PROVE m = n
    <3>1. got[num - (m - pgn)] = got[num - (n - pgn)]  BY <2>3, <1>8
    <3>2. num - (m - pgn) = num - (n - pgn)  BY <3>1, <2>1, <1>1, <1>5 DEF IsInjective
    <3> QED  BY <3>2, <1>1
  <2>4. ASSUME NEW f \in Got(p) PROVE \E m \in new : f = Behind(p, m)'
    <3>1. PICK k \in 1 .. num : f = got[k]  BY <2>1, <1>7 DEF Range
    <3>2. num - ((pgn + num - k) - pgn) = k /\ pgn + num - k \in new  BY <1>1
    <3> QED  BY <3>1, <3>2, <1>8
  <2> QED  BY <2>2, <2>3, <2>4
<1>11. /\ fifo' \in [Proc -> Seq(Page)]
       /\ IsInjective(fifo'[p]) /\ Range(fifo'[p]) = Mapped(p) \cup new
       /\ \A q \in Proc \ {p} : fifo'[q] = fifo[q]
  <2>1. /\ fifo \in [Proc -> Seq(Page)] /\ fifo[p] \in Seq(Page)
        /\ IsInjective(fifo[p]) /\ Range(fifo[p]) = Mapped(p)
    BY DEF FInv, PagesInv
  <2>2. list \in Seq(Page) /\ Range(list) = new /\ IsInjective(list)
    <3>1. pgn \in Int  BY <1>1
    <3> QED  BY <3>1, <1>1, <1>5, NewPages DEF list
  <2>3. /\ list \o fifo[p] \in Seq(Page)
        /\ Range(list \o fifo[p]) = new \cup Mapped(p)
        /\ IsInjective(list \o fifo[p])
    <3>1. Range(list) \cap Range(fifo[p]) = {}  BY <2>1, <2>2, <1>6, Zenon
    <3> HIDE DEF new
    <3>2. /\ list \o fifo[p] \in Seq(Page)
          /\ Range(list \o fifo[p]) = Range(list) \cup Range(fifo[p])
          /\ IsInjective(list) /\ IsInjective(fifo[p]) /\ Range(list) \cap Range(fifo[p]) = {}
               => IsInjective(list \o fifo[p])
      BY <2>1, <2>2, ConcatRange, Zenon
    <3> QED  BY <2>1, <2>2, <3>1, <3>2, Zenon
  <2>4. fifo'[p] = list \o fifo[p]  BY <1>2, <2>1
  <2>5. fifo' \in [Proc -> Seq(Page)]  BY <1>2, <2>1, <2>3
  <2> QED  BY <1>2, <2>1, <2>3, <2>4, <2>5
<1> HIDE DEF new
<1>12. ASSUME NEW q \in Proc \ {p} PROVE PagesInv(q)'
  <2>1. PagesInv(q) /\ Mapped(q) \subseteq Page  BY DEF FInv, Mapped
  <2>2. grow'[q] = grow[q] /\ Mapped(q)' = Mapped(q) /\ fifo'[q] = fifo[q]
    BY <1>4, <1>6, <1>11
  <2>3. \A n \in Page : pgd'[q][n] = pgd[q][n] /\ Behind(q, n)' = Behind(q, n)
    BY <1>9
  <2> QED  BY <2>1, <2>2, <2>3 DEF PagesInv
<1>13. PagesInv(p)'
  <2>1. PagesInv(p)  BY DEF FInv
  <2>2. IsInjective(grow'[p].got)  BY <1>4 DEF IsInjective
  <2>3. ASSUME NEW n \in Page
        PROVE  /\ pgd'[p][n].present = (n \in Mapped(p)')
               /\ pgd'[p][n].swapped = FALSE
               /\ pgd'[p][n].low \in 0 .. LOW_SPAN - 1
    <3>1. CASE n \in new  BY <3>1, <1>6, <1>8
    <3>2. CASE n \notin new
      <4>1. pgd'[p][n] = pgd[p][n]  BY <3>2, <1>9
      <4>2. (n \in Mapped(p)') = (n \in Mapped(p))  BY <3>2, <1>6
      <4> QED  BY <4>1, <4>2, <2>1, Zenon DEF PagesInv
    <3> QED  BY <3>1, <3>2
  <2>4. ASSUME NEW n \in Mapped(p)' PROVE Behind(p, n)' \in Frame
    <3>1. Got(p) \subseteq Frame
      <4>1. \A k \in DOMAIN got : got[k] \in Frame  BY <1>1
      <4> QED  BY <4>1, <1>7 DEF Range
    <3>2. Mapped(p) \subseteq Page  BY DEF Mapped
    <3> QED  BY <3>1, <3>2, <1>6, <1>9, <1>10, <2>1, <2>4 DEF PagesInv
  <2> QED  BY <2>2, <2>3, <2>4, <1>6, <1>11 DEF PagesInv
<1>14. FramesInv'
  <2>1. FramesInv /\ \A q \in Proc : Mapped(q) \subseteq Page  BY DEF FInv, Mapped
  <2>2. \A q \in Proc : \A n \in Mapped(q) : Behind(q, n)' = Behind(q, n)
    BY <2>1, <1>6, <1>9
  <2>3. \A q \in Proc : \A n \in Mapped(q)' :
           n \in Mapped(q) \/ (q = p /\ n \in new /\ Behind(q, n)' \in Got(p))
    BY <1>6, <1>10
  <2>4. /\ \A q \in Proc : Got(q)' \cap Range(ramfree') = {}
        /\ \A a, b \in Proc : a # b => Got(a)' \cap Got(b)' = {}
    BY <2>1, <1>2, <1>7 DEF FramesInv
  <2>5. ASSUME NEW a \in Proc, NEW n \in Mapped(a)'
        PROVE  /\ Behind(a, n)' \notin Range(ramfree')
               /\ \A q \in Proc : Behind(a, n)' \notin Got(q)'
    <3>1. CASE n \in Mapped(a)  BY <3>1, <2>1, <2>2, <1>2, <1>7 DEF FramesInv
    <3>2. CASE a = p /\ n \in new /\ Behind(a, n)' \in Got(p)
      BY <3>2, <2>1, <1>2, <1>7 DEF FramesInv
    <3> QED  BY <2>3, <3>1, <3>2
  <2>6. ASSUME NEW a \in Proc, NEW b \in Proc, NEW n \in Mapped(a)', NEW m \in Mapped(b)',
               Behind(a, n)' = Behind(b, m)'
        PROVE  a = b /\ n = m
    <3>1. CASE n \in Mapped(a) /\ m \in Mapped(b)
      BY <3>1, <2>6, <2>1, <2>2 DEF FramesInv
    <3>2. CASE n \in Mapped(a) /\ b = p /\ Behind(b, m)' \in Got(p)
      BY <3>2, <2>6, <2>1, <2>2 DEF FramesInv
    <3>3. CASE m \in Mapped(b) /\ a = p /\ Behind(a, n)' \in Got(p)
      BY <3>3, <2>6, <2>1, <2>2 DEF FramesInv
    <3>4. CASE a = p /\ b = p /\ n \in new /\ m \in new  BY <3>4, <2>6, <1>10
    <3> QED  BY <2>3, <3>1, <3>2, <3>3, <3>4
  <2>7. ASSUME NEW f \in Frame
        PROVE  \/ f \in Range(ramfree')
               \/ \E q \in Proc : f \in Got(q)' \/ \E n \in Mapped(q)' : f = Behind(q, n)'
    <3>1. CASE f \in Range(ramfree)  BY <3>1, <1>2
    <3>2. ASSUME NEW q \in Proc, f \in Got(q) PROVE
             \/ f \in Got(q)' \/ \E n \in Mapped(q)' : f = Behind(q, n)'
      BY <3>2, <1>6, <1>7, <1>10
    <3>3. ASSUME NEW q \in Proc, NEW n \in Mapped(q), f = Behind(q, n)
          PROVE  n \in Mapped(q)' /\ f = Behind(q, n)'
      BY <3>3, <1>6, <2>2
    <3> QED  BY <2>1, <3>1, <3>2, <3>3 DEF FramesInv
  <2>8. IsInjective(ramfree')  BY <2>1, <1>2 DEF FramesInv
  <2> QED  BY <2>4, <2>5, <2>6, <2>7, <2>8 DEF FramesInv
<1>15. ramfree' \in Seq(Frame)  BY <1>2 DEF FInv
<1> QED  BY <1>3, <1>4, <1>11, <1>12, <1>13, <1>14, <1>15 DEF FInv

\* Pages are added to the area, their frames to come
LEMMA FrameBrk ==
    ASSUME SInv, FInv, NEW p \in Proc, NEW r \in RgId, NEW size \in Size,
           grow[p] = NoGrow, AllocBrk(p, r, size)
    PROVE  FInv'
<1> DEFINE k == (size + PAGESZ - 1) \div PAGESZ
           inc == k * PAGESZ
           end == vma[p].sbrk + inc
           g == Growing(inc \div PAGESZ, vma[p].sbrk + size)
<1>1. /\ vma' = [vma EXCEPT ![p] = [vm_end |-> end, sbrk |-> end]]
      /\ grow' = [grow EXCEPT ![p] = g]
      /\ UNCHANGED <<pgd, fifo, ramfree>>
  BY DEF AllocBrk, inc_vma_limit, PAGING_PAGE_ALIGNSZ, paging
<1>2. /\ size \in Nat \ {0} /\ PAGESZ \in Nat \ {0}
      /\ vma \in [Proc -> [vm_end : Nat, sbrk : Nat]]
      /\ vma[p].sbrk = Top(p) * PAGESZ /\ Top(p) \in Nat
  <2>1. GrowOK(p) /\ Top(p) \in Nat  BY SpaceParts DEF SInv, SpaceInv
  <2> QED  BY <2>1, VMemAssumption DEF GrowOK, SInv, SpaceTypes
<1>3. k \in Nat  BY <1>2, Aligned
<1> HIDE DEF k
<1>4. inc \div PAGESZ = k /\ inc \in Nat  BY <1>2, <1>3, DivMul, MulSum
<1>5. end \div PAGESZ = Top(p) + k
  <2>1. Top(p) * PAGESZ + k * PAGESZ = (Top(p) + k) * PAGESZ /\ Top(p) + k \in Nat
    BY <1>2, <1>3, MulSum
  <2>2. end = (Top(p) + k) * PAGESZ  BY <2>1, <1>2
  <2> HIDE DEF end
  <2> QED  BY <2>1, <2>2, <1>2, DivMul
<1>6. g.got = <<>> /\ g.need = k /\ g \in Extension
  BY <1>2, <1>3, <1>4 DEF Growing, Extension
<1> HIDE DEF end, inc, g
<1>7. /\ grow' \in [Proc -> Extension]
      /\ grow'[p] = g /\ \A q \in Proc \ {p} : grow'[q] = grow[q]
      /\ Top(p)' = Top(p) + k /\ \A q \in Proc \ {p} : Top(q)' = Top(q)
  <2>1. grow \in [Proc -> Extension]  BY DEF FInv
  <2>2. vma'[p].vm_end = end /\ \A q \in Proc \ {p} : vma'[q] = vma[q]  BY <1>1, <1>2
  <2> QED  BY <2>1, <2>2, <1>1, <1>5, <1>6 DEF Top
<1>8. ASSUME NEW q \in Proc PROVE grow'[q].got = grow[q].got /\ Mapped(q)' = Mapped(q)
  <2>1. CASE q = p
    <3>1. grow[p].got = <<>> /\ grow[p].need = 0  BY DEF NoGrow, Growing
    <3>2. \A n \in Page : n + k < Top(p) + k <=> n + 0 < Top(p)  BY <1>2, <1>3 DEF Page
    <3> QED  BY <2>1, <3>1, <3>2, <1>6, <1>7 DEF Mapped
  <2>2. CASE q # p  BY <2>2, <1>7 DEF Mapped
  <2> QED  BY <2>1, <2>2
<1> QED  BY <1>1, <1>7, <1>8, FrameQuiet

\* A program that does not stray finds its page present, in a frame of MEMRAM
LEMMA TameAccess ==
    ASSUME Tame, SInv, FInv, NEW p \in Proc, NEW r \in RgId, NEW off, NEW v,
           grow[p] = NoGrow, Access(p, r, off, v)
    PROVE  \E n \in Mapped(p) : AccessPresent(p, n, v)
<1> DEFINE n == (symrg[p][r].start + off) \div PAGESZ
<1>1. /\ symrg[p][r].start + off \in Bytes(symrg[p][r])
      /\ \/ AccessPresent(p, n, v) \/ AccessWild(p, n)
         \/ AccessFault(p, n, v) \/ AccessUndefined(p, n)
  BY DEF Access, Tame
<1>2. n \in Page /\ pgd[p][n].present  BY <1>1, SInvRegionsMapped DEF RegionsMapped
<1> HIDE DEF n
<1>3. n \in Mapped(p) /\ Behind(p, n) \in Frame  BY <1>2 DEF FInv, PagesInv
<1>4. AccessPresent(p, n, v)
  BY <1>1, <1>2, <1>3 DEF AccessWild, AccessFault, AccessUndefined, Behind
<1> QED  BY <1>3, <1>4

\* The contents of memory, and why the program stopped if it did
DataInv ==
    /\ swpfree \in Seq(SwpFrame)
    /\ ram \in [Frame -> Val \cup {NoVal}]
    /\ swp \in [SwpFrame -> Val \cup {NoVal}]
    /\ expected \in [Proc -> [Page -> Val \cup {NoVal}]]
    /\ life \in [Proc -> {"live", "over", "gone"}]
    /\ ReadsSeeWrites
    /\ BreaksOnlyWhenFull

TameInv == SInv /\ FInv /\ killed = {} /\ DataInv

\* At first nothing is written and nothing broken
LEMMA TameInit == ASSUME Tame, Init PROVE TameInv
<1>1. SInv /\ FInv /\ killed = {}  BY SpaceInit, FrameInit DEF Tame, Init
<1>2. swpfree \in Seq(SwpFrame)
  <2>1. SwpFrames \in Nat  BY VMemAssumption
  <2> QED  BY <2>1 DEF Init, SwpFrame
<1>3. /\ ram \in [Frame -> Val \cup {NoVal}] /\ swp \in [SwpFrame -> Val \cup {NoVal}]
      /\ expected \in [Proc -> [Page -> Val \cup {NoVal}]]
      /\ life \in [Proc -> {"live", "over", "gone"}]
  BY DEF Init
<1>4. ReadsSeeWrites /\ BreaksOnlyWhenFull  BY DEF Init, ReadsSeeWrites, BreaksOnlyWhenFull
<1> QED  BY <1>1, <1>2, <1>3, <1>4 DEF TameInv, DataInv

\* When a process is refused a frame, every frame has a page of its own, and
\* the page the process wants a frame for is one more
LEMMA AllTaken ==
    ASSUME IsFiniteSet(Proc), SInv, FInv, NEW p \in Proc, NoFrame(p)
    PROVE  Cardinality(Committed) > RamFrames
<1> DEFINE Base(q) == Top(q) - grow[q].need
           last == <<p, Top(p) - 1>>
           rest == Committed \ {last}
           Holds(w) == IF w[2] \in Mapped(w[1]) THEN Behind(w[1], w[2])
                       ELSE grow[w[1]].got[w[2] - Base(w[1]) + 1]
           Slots == {w \in rest : Holds(w) \in Frame}
           holds == [w \in Slots |-> Holds(w)]
<1>1. ASSUME NEW q \in Proc
      PROVE  /\ grow[q].need \in Nat /\ Top(q) \in Nat /\ Base(q) \in Nat
             /\ Top(q) <= MaxPgn /\ MaxPgn \in Nat
             /\ grow[q].got \in Seq(Frame) /\ Len(grow[q].got) \in Nat
             /\ Len(grow[q].got) <= grow[q].need
             /\ \A n \in Page : n < Top(q) => <<q, n>> \in Committed
  <2>1. /\ GrowOK(q) /\ Top(q) \in Nat /\ grow[q].need \in Nat
        /\ MaxPgn \in Nat /\ PAGESZ \in Nat \ {0}
    BY SpaceParts, VMemAssumption DEF SInv, SpaceInv
  <2>2. ASSUME NEW n \in Page, n < Top(q) PROVE <<q, n>> \in Committed
    <3>1. n + 1 \in Nat /\ n + 1 <= Top(q)  BY <2>1, <2>2 DEF Page
    <3>2. \A a, b, c \in Nat : a <= b => a * c <= b * c  BY SMT
    <3>3. (n + 1) * PAGESZ <= Top(q) * PAGESZ  BY <2>1, <3>1, <3>2
    <3>4. (n + 1) * PAGESZ <= vma[q].vm_end  BY <3>3, <2>1 DEF GrowOK
    <3> QED  BY <3>4 DEF Committed
  <2>3. grow[q].got \in Seq(Frame)  BY DEF FInv, Extension
  <2>4. Len(grow[q].got) \in Nat  BY <2>3
  <2>5. /\ grow[q].need <= Top(q) /\ Top(q) <= MaxPgn
        /\ Len(grow[q].got) <= grow[q].need
    BY <2>1 DEF GrowOK
  <2>6. Base(q) \in Nat  BY <2>1, <2>5
  <2> QED  BY <2>1, <2>2, <2>3, <2>4, <2>5, <2>6
<1>2. Len(grow[p].got) < grow[p].need /\ ramfree = <<>>  BY DEF NoFrame, Lacking
<1>3. /\ last \in Committed
  <2>1. Top(p) - 1 \in Page /\ Top(p) - 1 < Top(p)  BY <1>1, <1>2, SMTT(40) DEF Page
  <2> QED  BY <2>1, <1>1
<1>4. /\ IsFiniteSet(Committed)
      /\ IsFiniteSet(rest) /\ Cardinality(rest) = Cardinality(Committed) - 1
  <2>1. IsFiniteSet(Page)
    <3>1. 0 \in Int /\ MaxPgn - 1 \in Int  BY VMemAssumption
    <3> QED  BY <3>1, FS_Interval DEF Page
  <2>2. IsFiniteSet(Proc \X Page)  BY <2>1, FS_Product
  <2>3. Committed \in SUBSET (Proc \X Page)  BY DEF Committed
  <2>4. IsFiniteSet(Committed)  BY <2>2, <2>3, FS_Subset
  <2> HIDE DEF last
  <2> QED  BY <2>4, <1>3, FS_RemoveElement
<1>5. ASSUME NEW f \in Frame PROVE \E w \in Slots : Holds(w) = f
  <2>1. f \notin Range(ramfree)  BY <1>2 DEF Range
  <2>2. ASSUME NEW q \in Proc, f \in Got(q) PROVE \E w \in Slots : Holds(w) = f
    <3>1. PICK k \in 1 .. Len(grow[q].got) : f = grow[q].got[k]
      BY <2>2, <1>1, SMTT(40) DEF Got, Range
    <3> DEFINE n == Base(q) + k - 1
    <3>2. /\ n \in Page /\ n < Top(q) /\ n - Base(q) + 1 = k /\ n + grow[q].need >= Top(q)
          /\ q = p => n # Top(p) - 1
      <4> DEFINE top == Top(q)
                 need == grow[q].need
                 len == Len(grow[q].got)
      <4>1. /\ k \in Nat /\ k >= 1 /\ k <= len
            /\ len \in Nat /\ len <= need /\ need \in Nat /\ top \in Nat
            /\ top - need \in Nat /\ top <= MaxPgn /\ MaxPgn \in Nat
        BY <1>1
      <4>2. q = p => len < need /\ Top(p) = top  BY <1>2
      <4>3. Base(q) = top - need  OBVIOUS
      <4> HIDE DEF top, need, len, Base
      <4>4. /\ n \in Page /\ n < top /\ n - Base(q) + 1 = k /\ n + need >= top
            /\ len < need => n # top - 1
        BY <4>1, <4>3 DEF Page
      <4> QED  BY <4>2, <4>4 DEF top, need
    <3> HIDE DEF n, Base
    <3>3. n \notin Mapped(q)  BY <3>2, <1>1, SMTT(40) DEF Mapped, Page
    <3>4. <<q, n>> \in rest  BY <3>2, <1>1
    <3>5. Holds(<<q, n>>) = f  BY <3>1, <3>2, <3>3
    <3> QED  BY <3>4, <3>5
  <2>3. ASSUME NEW q \in Proc, NEW n \in Mapped(q), f = Behind(q, n)
        PROVE  \E w \in Slots : Holds(w) = f
    <3>1. /\ n \in Page /\ n < Top(q)
          /\ q = p => n # Top(p) - 1
      <4>1. n \in Page /\ n \in Int /\ n + grow[q].need < Top(q)  BY DEF Mapped, Page
      <4>2. q = p => grow[q].need > 0  BY <1>1, <1>2
      <4>3. grow[q].need \in Nat /\ Top(q) \in Nat  BY <1>1
      <4> QED  BY <4>1, <4>2, <4>3
    <3>2. <<q, n>> \in rest  BY <3>1, <1>1
    <3>3. Holds(<<q, n>>) = f  BY <2>3
    <3> QED  BY <3>2, <3>3
  <2> QED  BY <2>1, <2>2, <2>3 DEF FInv, FramesInv
<1> HIDE DEF Holds, rest
<1>6. holds \in Surjection(Slots, Frame)  BY <1>5 DEF Surjection
<1>7. IsFiniteSet(Slots) /\ Cardinality(Slots) <= Cardinality(rest)
  BY <1>4, FS_Subset
<1> HIDE DEF holds, Slots
<1>8. Cardinality(Frame) <= Cardinality(Slots)  BY <1>6, <1>7, FS_Surjection
<1>9. Cardinality(Frame) = RamFrames /\ RamFrames \in Nat
  <2>1. RamFrames \in Nat \ {0}  BY VMemAssumption
  <2> QED  BY <2>1, FS_Interval DEF Frame
<1>10. /\ Cardinality(Committed) \in Nat /\ Cardinality(rest) \in Nat
       /\ Cardinality(Slots) \in Nat
  BY <1>4, <1>7, FS_CardinalityType
<1> QED  BY <1>4, <1>7, <1>8, <1>9, <1>10

\* vm_map_ram leaves the pages that are mapped alone
LEMMA MappedKept ==
    ASSUME SInv, FInv, NEW p \in Proc, MapPages(p), NEW q \in Proc, NEW n \in Mapped(q)
    PROVE  pgd'[q][n] = pgd[q][n]
<1>1. /\ \A m \in Page :
            q # p \/ m < Top(p) - grow[p].need => pgd'[q][m] = pgd[q][m]
  <2> DEFINE got == grow[p].got
             pgn == Top(p) - grow[p].need
  <2>1. \A m \in Page :
           pgd'[q][m] = IF q = p /\ m \in pgn .. pgn + Len(got) - 1
                        THEN pte_set_fpn(pgd[p][m], got[Len(got) - (m - pgn)])
                        ELSE pgd[q][m]
    BY MapEntries DEF FInv
  <2>2. pgn \in Int  BY SpaceParts DEF SInv
  <2> HIDE DEF got, pgn
  <2>3. \A m : m < pgn => m \notin pgn .. pgn + Len(got) - 1  BY <2>2
  <2> QED  BY <2>1, <2>3 DEF pgn
<1>2. n \in Page /\ n + grow[q].need < Top(q)  BY DEF Mapped
<1>3. q = p => n < Top(p) - grow[p].need
  <2>1. Top(p) \in Nat /\ grow[p].need \in Nat  BY SpaceParts DEF SInv
  <2> QED  BY <2>1, <1>2 DEF Page
<1> QED  BY <1>1, <1>2, <1>3

\* A read or write of a mapped page reaches the frame behind it, and no other
\* page has that frame
LEMMA DataAccess ==
    ASSUME TameInv, NEW p \in Proc, NEW n \in Mapped(p), NEW v \in Val \cup {NoVal},
           AccessPresent(p, n, v)
    PROVE  /\ ram' \in [Frame -> Val \cup {NoVal}]
           /\ expected' \in [Proc -> [Page -> Val \cup {NoVal}]]
           /\ ReadsSeeWrites'
<1>1. /\ ram \in [Frame -> Val \cup {NoVal}]
      /\ expected \in [Proc -> [Page -> Val \cup {NoVal}]]
      /\ ReadsSeeWrites
      /\ n \in Page /\ Behind(p, n) \in Frame
      /\ pgd' = pgd
  BY DEF TameInv, DataInv, FInv, PagesInv, Mapped, AccessPresent, paging
<1>2. CASE v = NoVal
  <2>1. ram' = ram /\ expected' = expected  BY <1>2 DEF AccessPresent, Store
  <2> QED  BY <2>1, <1>1 DEF ReadsSeeWrites
<1>3. CASE v # NoVal
  <2>1. /\ ram' = [ram EXCEPT ![Behind(p, n)] = v]
        /\ expected' = [expected EXCEPT ![p][n] = v]
    BY <1>3 DEF AccessPresent, Store, MEMPHY_write, Behind
  <2>2. /\ ram' \in [Frame -> Val \cup {NoVal}]
        /\ expected' \in [Proc -> [Page -> Val \cup {NoVal}]]
    BY <2>1, <1>1
  <2>3. ASSUME NEW q \in Proc, NEW m \in Page, expected'[q][m] # NoVal
        PROVE  pgd[q][m].present /\ Behind(q, m) \in Frame /\ ram'[Behind(q, m)] = expected'[q][m]
    <3>1. CASE q = p /\ m = n
      <4>1. pgd[p][n].present  BY <1>1 DEF AccessPresent
      <4>2. ram'[Behind(p, n)] = v /\ expected'[p][n] = v  BY <2>1, <1>1
      <4> QED  BY <3>1, <4>1, <4>2, <1>1
    <3>2. CASE q # p \/ m # n
      <4>1. expected'[q][m] = expected[q][m]  BY <3>2, <2>1, <1>1
      <4>2. /\ pgd[q][m].present /\ Behind(q, m) \in Frame
            /\ ram[Behind(q, m)] = expected[q][m]
        BY <4>1, <2>3, <1>1 DEF ReadsSeeWrites, Behind
      <4>3. m \in Mapped(q)  BY <4>2 DEF TameInv, FInv, PagesInv
      <4>4. Behind(q, m) # Behind(p, n)  BY <4>3, <3>2 DEF TameInv, FInv, FramesInv
      <4>5. ram'[Behind(q, m)] = ram[Behind(q, m)]  BY <4>2, <4>4, <2>1, <1>1
      <4> QED  BY <4>1, <4>2, <4>5
    <3> QED  BY <3>1, <3>2
  <2> QED  BY <2>2, <2>3, <1>1 DEF ReadsSeeWrites, Behind
<1> QED  BY <1>2, <1>3

\* A step that changes no address space, no page table and no contents
LEMMA TameQuiet ==
    ASSUME TameInv, SInv',
           UNCHANGED <<vma, grow, paging, data, expected, killed>>,
           life' \in [Proc -> {"live", "over", "gone"}], broken' = broken
    PROVE  TameInv'
<1>1. /\ UNCHANGED <<vma, grow, pgd, fifo, ramfree, swpfree, ram, swp, expected, killed>>
  BY DEF paging, data
<1>2. \A p \in Proc : grow'[p].got = grow[p].got /\ Mapped(p)' = Mapped(p)
  BY <1>1 DEF Mapped, Top
<1>3. FInv'  BY <1>1, <1>2, FrameQuiet DEF TameInv, FInv
<1>4. Committed' = Committed  BY DEF Committed
<1>5. ReadsSeeWrites' /\ BreaksOnlyWhenFull'
  <2>1. ReadsSeeWrites /\ BreaksOnlyWhenFull  BY DEF TameInv, DataInv
  <2>2. ReadsSeeWrites'  BY <2>1, <1>1 DEF ReadsSeeWrites
  <2>3. BreaksOnlyWhenFull'  BY <2>1, <1>4 DEF BreaksOnlyWhenFull
  <2> QED  BY <2>2, <2>3
<1>6. DataInv'  BY <1>1, <1>5 DEF TameInv, DataInv
<1> QED  BY <1>1, <1>3, <1>6 DEF TameInv

\* Every step keeps all of it; it needs finitely many pages to count them
LEMMA TameNext ==
    ASSUME Tame, IsFiniteSet(Proc), TameInv, [Next]_vars
    PROVE  TameInv'
<1>1. SInv'  BY SpaceNext DEF TameInv, Tame
<1>2. CASE UNCHANGED vars
  <2>1. UNCHANGED <<vma, grow, paging, data, expected, killed, life, broken>>
    BY <1>2 DEF vars, space, fate
  <2> QED  BY <2>1, <1>1, TameQuiet DEF TameInv, DataInv
<1>3. CASE Next
  <2>1. \A p, q \in Proc : \A r \in RgId : ~Kill(p, q, r)
    <3>1. Cardinality({}) = 0  BY FS_EmptySet
    <3> QED  BY <3>1 DEF Kill, TameInv, Tame, NoKills
  <2>2. broken = "no"  BY <1>3 DEF Next
  <2>3. PICK p \in Proc : (Instruction(p) /\ UNCHANGED fate) \/ Finish(p)
    BY <1>3, <2>1 DEF Next
  <2>4. CASE Finish(p)
    <3>1. life' \in [Proc -> {"live", "over", "gone"}]
      BY <2>4 DEF Finish, TameInv, DataInv
    <3>2. UNCHANGED <<vma, grow, paging, data, expected, killed, broken>>
      BY <2>4 DEF Finish, space
    <3> QED  BY <3>1, <3>2, <1>1, TameQuiet
  <2>5. CASE Instruction(p) /\ UNCHANGED fate
    <3>1. life' = life /\ killed' = killed  BY <2>5 DEF fate
    <3>2. /\ swpfree \in Seq(SwpFrame)
          /\ ram \in [Frame -> Val \cup {NoVal}] /\ swp \in [SwpFrame -> Val \cup {NoVal}]
          /\ expected \in [Proc -> [Page -> Val \cup {NoVal}]]
          /\ life \in [Proc -> {"live", "over", "gone"}]
          /\ ReadsSeeWrites
          /\ SInv /\ FInv
      BY DEF TameInv, DataInv
    <3>3. ASSUME FInv', UNCHANGED <<pgd, swpfree, data, expected, broken>> PROVE TameInv'
      <4>1. DataInv'
        BY <3>1, <3>2, <3>3, <2>2 DEF DataInv, ReadsSeeWrites, BreaksOnlyWhenFull, data
      <4> QED  BY <4>1, <3>1, <3>3, <1>1 DEF TameInv
    <3>4. CASE TakeFrame(p)
      <4>1. FInv'  BY <3>2, <3>4, FrameTake
      <4> QED  BY <3>3, <3>4, <4>1 DEF TakeFrame
    <3>5. CASE MapPages(p)
      <4>1. FInv'  BY <3>2, <3>5, FrameMap
      <4>2. UNCHANGED <<swpfree, data, expected, broken>>  BY <3>5 DEF MapPages
      <4>3. ReadsSeeWrites'
        <5> SUFFICES ASSUME NEW q \in Proc, NEW m \in Page, expected[q][m] # NoVal
                     PROVE  /\ pgd'[q][m].present /\ PAGING_FPN(pgd'[q][m]) \in Frame
                            /\ ram[PAGING_FPN(pgd'[q][m])] = expected[q][m]
          BY <4>2 DEF ReadsSeeWrites, data
        <5>1. /\ pgd[q][m].present /\ PAGING_FPN(pgd[q][m]) \in Frame
              /\ ram[PAGING_FPN(pgd[q][m])] = expected[q][m]
          BY <3>2 DEF ReadsSeeWrites
        <5>2. m \in Mapped(q)  BY <5>1, <3>2 DEF FInv, PagesInv
        <5>3. pgd'[q][m] = pgd[q][m]  BY <5>2, <3>2, <3>5, MappedKept
        <5> QED  BY <5>1, <5>3
      <4>4. DataInv'
        BY <3>1, <3>2, <4>2, <4>3, <2>2 DEF DataInv, BreaksOnlyWhenFull, data
      <4> QED  BY <4>1, <4>4, <3>1, <1>1 DEF TameInv
    <3>6. CASE NoFrame(p)
      <4>1. UNCHANGED <<vma, grow, paging, data, expected, killed, life>>
        BY <3>1, <3>6 DEF NoFrame, space
      <4>2. FInv'
        <5>1. \A q \in Proc : grow'[q].got = grow[q].got /\ Mapped(q)' = Mapped(q)
          BY <4>1 DEF Mapped, Top
        <5> QED  BY <4>1, <5>1, <3>2, FrameQuiet DEF FInv, paging
      <4>3. Committed' = Committed  BY <4>1 DEF Committed
      <4>4. BreaksOnlyWhenFull'
        <5>1. Cardinality(Committed) > RamFrames  BY <3>2, <3>6, AllTaken
        <5>2. broken' = "crash in alloc_pages_range"  BY <3>6 DEF NoFrame
        <5> QED  BY <5>1, <5>2, <4>3 DEF BreaksOnlyWhenFull
      <4>5. DataInv'
        BY <3>2, <4>1, <4>4 DEF DataInv, ReadsSeeWrites, paging, data
      <4> QED  BY <4>1, <4>2, <4>5, <1>1 DEF TameInv
    <3>7. ASSUME NEW r \in RgId, NEW size \in Size, grow[p] = NoGrow, Alloc(p, r, size)
          PROVE  TameInv'
      <4>1. CASE AllocFree(p, r, size)
        <5>1. UNCHANGED <<vma, grow, paging, data, expected, killed, broken, life>>
          BY <3>1, <4>1 DEF AllocFree
        <5> QED  BY <5>1, <1>1, <3>2, TameQuiet
      <4>2. CASE AllocBrk(p, r, size)
        <5>1. FInv'  BY <3>2, <3>7, <4>2, FrameBrk
        <5> QED  BY <5>1, <3>3, <4>2 DEF AllocBrk, paging
      <4> QED  BY <3>7, <4>1, <4>2 DEF Alloc
    <3>8. ASSUME NEW r \in RgId, Free(p, r) PROVE TameInv'
      <4>1. UNCHANGED <<vma, grow, paging, data, expected, killed, broken, life>>
        BY <3>1, <3>8 DEF Free
      <4> QED  BY <4>1, <1>1, <3>2, TameQuiet
    <3>9. ASSUME NEW r \in RgId, NEW off, NEW v \in Val \cup {NoVal}, grow[p] = NoGrow,
                 Access(p, r, off, v)
          PROVE  TameInv'
      <4>1. PICK n \in Mapped(p) : AccessPresent(p, n, v)  BY <3>2, <3>9, TameAccess
      <4>2. UNCHANGED <<vma, grow, paging, swp, broken>>
        BY <4>1 DEF AccessPresent, space
      <4>3. FInv'
        <5>1. \A q \in Proc : grow'[q].got = grow[q].got /\ Mapped(q)' = Mapped(q)
          BY <4>2 DEF Mapped, Top
        <5> QED  BY <4>2, <5>1, <3>2, FrameQuiet DEF FInv, paging
      <4>4. DataInv'
        <5>1. /\ ram' \in [Frame -> Val \cup {NoVal}]
              /\ expected' \in [Proc -> [Page -> Val \cup {NoVal}]]
              /\ ReadsSeeWrites'
          BY <4>1, DataAccess
        <5> QED  BY <5>1, <4>2, <3>1, <3>2, <2>2 DEF DataInv, BreaksOnlyWhenFull, paging
      <4> QED  BY <4>3, <4>4, <3>1, <3>2, <1>1 DEF TameInv
    <3> QED  BY <2>5, <3>4, <3>5, <3>6, <3>7, <3>8, <3>9 DEF Instruction
  <2> QED  BY <2>3, <2>4, <2>5
<1> QED  BY <1>2, <1>3

\* The invariant holds in every behaviour
LEMMA TameAlways == ASSUME Tame, IsFiniteSet(Proc) PROVE Spec => []TameInv
<1>1. Init => TameInv  BY TameInit
<1>2. TameInv /\ [Next]_vars => TameInv'  BY TameNext
<1> QED  BY <1>1, <1>2, PTL DEF Spec

\* The pages in MEMRAM are those that have got their frames
LEMMA ResidentMapped == ASSUME FInv, NEW p \in Proc PROVE Resident(p) = Mapped(p)
<1>1. PagesInv(p)  BY DEF FInv
<1>2. \A n \in Page : pgd[p][n].present /\ ~pgd[p][n].swapped <=> n \in Mapped(p)
  BY <1>1 DEF PagesInv
<1> QED  BY <1>2 DEF Resident, Mapped

\* Without strays and kills, every frame of MEMRAM is in the free list, on its
\* way into one address space, or behind one page, and in one of these places
\* only (MEMPHY_get_freefp, alloc_pages_range, vmap_page_range)
THEOREM FrameExclusiveThm == ASSUME Tame, IsFiniteSet(Proc) PROVE Spec => []FrameExclusive
<1>1. ASSUME TameInv, NEW f \in Frame PROVE \E x : Places(f) = {x}
  <2> DEFINE Listed == {<<"free", k>> : k \in {k \in DOMAIN ramfree : ramfree[k] = f}}
             Taken == {<<"taken", p>> : p \in {p \in Proc : f \in Range(grow[p].got)}}
             Paged == {w \in (Proc \ killed) \X Page :
                          w[2] \in Resident(w[1]) /\ PAGING_FPN(pgd[w[1]][w[2]]) = f}
  <2>1. Places(f) = Listed \cup Taken \cup Paged  BY DEF Places
  <2>2. /\ FramesInv /\ killed = {} /\ IsInjective(ramfree)
        /\ \A p \in Proc : Resident(p) = Mapped(p) /\ Mapped(p) \subseteq Page
    BY <1>1, ResidentMapped DEF TameInv, FInv, FramesInv, Mapped
  <2>3. \A x : x \in Listed <=> \E k \in DOMAIN ramfree : ramfree[k] = f /\ x = <<"free", k>>
    OBVIOUS
  <2>4. \A x : x \in Taken <=> \E p \in Proc : f \in Got(p) /\ x = <<"taken", p>>
    BY DEF Got
  <2>5. /\ \A p \in Proc : \A n \in Mapped(p) : Behind(p, n) = f => <<p, n>> \in Paged
        /\ \A x \in Paged : \E p \in Proc : \E n \in Mapped(p) : Behind(p, n) = f /\ x = <<p, n>>
    BY <2>2 DEF Behind
  <2>6. /\ (\E k \in DOMAIN ramfree : ramfree[k] = f) <=> f \in Range(ramfree)
        /\ \A k, j \in DOMAIN ramfree : ramfree[k] = ramfree[j] => k = j
    BY <2>2 DEF Range, IsInjective
  <2> HIDE DEF Listed, Taken, Paged
  <2>7. CASE f \in Range(ramfree)
    <3>1. PICK k \in DOMAIN ramfree : ramfree[k] = f  BY <2>6, <2>7
    <3>2. Listed = {<<"free", k>>}  BY <3>1, <2>3, <2>6
    <3>3. Taken = {}  BY <2>2, <2>4, <2>7 DEF FramesInv
    <3>4. Paged = {}  BY <2>2, <2>5, <2>7 DEF FramesInv
    <3> QED  BY <2>1, <3>2, <3>3, <3>4
  <2>8. ASSUME NEW p \in Proc, f \in Got(p) PROVE \E x : Places(f) = {x}
    <3>1. Taken = {<<"taken", p>>}  BY <2>8, <2>2, <2>4 DEF FramesInv
    <3>2. Listed = {}  BY <2>8, <2>2, <2>3, <2>6 DEF FramesInv
    <3>3. Paged = {}  BY <2>8, <2>2, <2>5 DEF FramesInv
    <3> QED  BY <2>1, <3>1, <3>2, <3>3
  <2>9. ASSUME NEW p \in Proc, NEW n \in Mapped(p), f = Behind(p, n)
        PROVE  \E x : Places(f) = {x}
    <3>1. Paged = {<<p, n>>}
      <4>1. <<p, n>> \in Paged  BY <2>9, <2>5
      <4>2. ASSUME NEW x \in Paged PROVE x = <<p, n>>
        <5>1. PICK q \in Proc : \E m \in Mapped(q) : Behind(q, m) = f /\ x = <<q, m>>
          BY <2>5
        <5>2. PICK m \in Mapped(q) : Behind(q, m) = f /\ x = <<q, m>>  BY <5>1
        <5>3. q = p /\ m = n  BY <5>2, <2>2, <2>9 DEF FramesInv
        <5> QED  BY <5>2, <5>3
      <4> QED  BY <4>1, <4>2
    <3>2. Listed = {}  BY <2>9, <2>2, <2>3, <2>6 DEF FramesInv
    <3>3. Taken = {}  BY <2>9, <2>2, <2>4 DEF FramesInv
    <3> QED  BY <2>1, <3>1, <3>2, <3>3
  <2> QED  BY <2>2, <2>7, <2>8, <2>9 DEF FramesInv
<1>2. TameInv => FrameExclusive
  <2>1. \A x : Cardinality({x}) = 1  BY FS_Singleton
  <2> QED  BY <1>1, <2>1 DEF FrameExclusive
<1> QED  BY <1>2, TameAlways, PTL

\* ... __read returns what __write of the same process last stored in the
\* page, whatever the other processes do
THEOREM ReadsSeeWritesThm == ASSUME Tame, IsFiniteSet(Proc) PROVE Spec => []ReadsSeeWrites
<1>1. TameInv => ReadsSeeWrites  BY DEF TameInv, DataInv
<1> QED  BY <1>1, TameAlways, PTL

\* ... and nothing dies but alloc_pages_range, and only when the address spaces
\* together have more pages than MEMRAM has frames: no frame is lost
THEOREM BreaksOnlyWhenFullThm ==
    ASSUME Tame, IsFiniteSet(Proc) PROVE Spec => []BreaksOnlyWhenFull
<1>1. TameInv => BreaksOnlyWhenFull  BY DEF TameInv, DataInv
<1> QED  BY <1>1, TameAlways, PTL

\* The variables of the memory of the processes keep their types: addresses
\* stay below the bound, entries within 26 bits, lists within their devices
THEOREM TypeOKThm == ASSUME Tame, IsFiniteSet(Proc) PROVE Spec => []TypeOK
<1>1. ASSUME TameInv PROVE TypeOK
  <2>1. SInv /\ FInv /\ DataInv  BY <1>1 DEF TameInv
  <2>2. ASSUME NEW p \in Proc
        PROVE  /\ vma[p] \in [vm_end : 0 .. MaxPgn * PAGESZ, sbrk : 0 .. MaxPgn * PAGESZ]
               /\ grow[p].need \in 0 .. MaxPgn
    <3>1. /\ GrowOK(p) /\ Top(p) \in Nat /\ grow[p].need \in Nat
          /\ MaxPgn \in Nat /\ PAGESZ \in Nat
          /\ vma[p] \in [vm_end : Nat, sbrk : Nat]
      BY <2>1, SpaceParts, VMemAssumption DEF SInv, SpaceInv
    <3>2. \A a, b, c \in Nat : a <= b => a * c <= b * c  BY SMT
    <3>3. vma[p].vm_end <= MaxPgn * PAGESZ /\ vma[p].sbrk = vma[p].vm_end
      BY <3>1, <3>2 DEF GrowOK
    <3>4. MaxPgn * PAGESZ \in Nat  BY <3>1, SMT
    <3>5. grow[p].need \in 0 .. MaxPgn  BY <3>1 DEF GrowOK
    <3> QED  BY <3>1, <3>3, <3>4, <3>5
  <2>3. vma \in [Proc -> [vm_end : 0 .. MaxPgn * PAGESZ, sbrk : 0 .. MaxPgn * PAGESZ]]
    BY <2>1, <2>2 DEF SInv, SpaceTypes
  <2>4. /\ symrg \in [Proc -> [RgId -> [start : Nat, end : Nat]]]
        /\ \A p \in Proc : freerg[p] \in Seq([start : Nat, end : Nat])
    BY <2>1 DEF SInv, SpaceTypes, Table, Rg
  <2>5. /\ \A p \in Proc : \A n \in Page :
              /\ {pgd[p][n].present, pgd[p][n].swapped} \subseteq BOOLEAN
              /\ pgd[p][n].low \in 0 .. LOW_SPAN - 1
        /\ \A p \in Proc : fifo[p] \in Seq(Page) /\ grow[p].got \in Seq(Frame)
        /\ ramfree \in Seq(Frame)
    <3>1. ASSUME NEW p \in Proc, NEW n \in Page
          PROVE  /\ {pgd[p][n].present, pgd[p][n].swapped} \subseteq BOOLEAN
                 /\ pgd[p][n].low \in 0 .. LOW_SPAN - 1
      <4>1. /\ pgd[p][n].present = (n \in Mapped(p))
            /\ pgd[p][n].swapped = FALSE
            /\ pgd[p][n].low \in 0 .. LOW_SPAN - 1
        BY <2>1 DEF FInv, PagesInv
      <4>2. (n \in Mapped(p)) \in BOOLEAN  OBVIOUS
      <4> QED  BY <4>1, <4>2, Zenon
    <3>2. /\ \A p \in Proc : fifo[p] \in Seq(Page) /\ grow[p].got \in Seq(Frame)
          /\ ramfree \in Seq(Frame)
      BY <2>1 DEF FInv, Extension
    <3> QED  BY <3>1, <3>2
  <2> QED  BY <2>1, <2>2, <2>3, <2>4, <2>5 DEF DataInv, TypeOK
<1> QED  BY <1>1, TameAlways, PTL

=============================================================================
