--------------------------- MODULE VMemSpace_proofs --------------------------
(***************************************************************************)
(* Proofs about the address spaces of VMem.tla: however the processes      *)
(* allocate, free, stray, end and are killed, no byte has two owners, none *)
(* is lost, the free list is coarse, and what is allocated is mapped.      *)
(***************************************************************************)
EXTENDS VMem, FiniteSetTheorems, WellFoundedInduction, TLAPS

Rg == [start : Nat, end : Nat]

\* Byte b is in region rg
In(b, rg) == rg.start <= b /\ b < rg.end

\* A region whose bounds are in the set E
Within(rg, E) == rg \in Rg /\ rg.start <= rg.end /\ rg.start \in E /\ rg.end \in E

\* Two regions that share no byte
Disjoint(rg, rh) == \A b \in Nat : ~(In(b, rg) /\ In(b, rh))

\* A list of such regions
DisjointList(list) ==
    \A i, j \in 1 .. Len(list) : i # j => Disjoint(list[i], list[j])

\* Induction, for a set: what holds of 0 and of the next number holds of all
LEMMA SetInduction ==
    ASSUME NEW n \in Nat, NEW S, 0 \in S, \A k \in 0 .. n - 1 : k \in S => k + 1 \in S
    PROVE  \A k \in 0 .. n : k \in S
<1> DEFINE B == {k \in 0 .. n : k \notin S}
<1> SUFFICES ASSUME B # {} PROVE FALSE  OBVIOUS
<1>1. B \subseteq Nat  OBVIOUS
<1>2. PICK k \in B : \A j \in B : ~(<<j, k>> \in OpToRel(<, Nat))
  BY <1>1, NatLessThanWellFounded, WFMin, Zenon
<1>3. \A j \in B : ~(j < k)
  <2> TAKE j \in B
  <2>1. j \in Nat /\ k \in Nat  BY <1>1
  <2> QED  BY <1>2, <2>1 DEF OpToRel
<1>4. k # 0 /\ k - 1 \in 0 .. n - 1  OBVIOUS
<1>5. k - 1 \notin B  BY <1>3, <1>4
<1>6. k - 1 \in S  BY <1>4, <1>5
<1>7. (k - 1) + 1 \in S  BY <1>4, <1>6
<1> QED  BY <1>7

----------------------------------------------------------------------------
(* The loop of __free.                                                     *)

\* Merged is what Merge makes, round by round
LEMMA MergedAcc ==
    ASSUME NEW rg, NEW list, Len(list) \in Nat
    PROVE  \E acc :
              /\ acc[0] = [new |-> rg, kept |-> <<>>]
              /\ \A k \in 1 .. Len(list) : acc[k] = Merge(acc[k - 1], list[k])
              /\ Merged(rg, list) = acc[Len(list)]
<1> DEFINE b == [new |-> rg, kept |-> <<>>]
           Is(f, n) == f = [k \in 0 .. n |-> IF k = 0 THEN b ELSE Merge(f[k - 1], list[k])]
           S == {n \in 0 .. Len(list) : \E f : Is(f, n)}
<1>1. 0 \in S
  <2> DEFINE f == [k \in 0 .. 0 |-> b]
  <2>1. Is(f, 0)  OBVIOUS
  <2>2. 0 \in 0 .. Len(list)  OBVIOUS
  <2> HIDE DEF f, Is
  <2> QED  BY <2>1, <2>2
<1>2. ASSUME NEW n \in 0 .. Len(list) - 1, n \in S PROVE n + 1 \in S
  <2>1. PICK f : Is(f, n)  BY <1>2
  <2> DEFINE g == [k \in 0 .. n + 1 |-> IF k = n + 1 THEN Merge(f[n], list[n + 1]) ELSE f[k]]
  <2>2. \A k \in 0 .. n : f[k] = IF k = 0 THEN b ELSE Merge(f[k - 1], list[k])
    BY <2>1
  <2> HIDE DEF b
  <2>3. \A k \in 0 .. n + 1 : g[k] = IF k = 0 THEN b ELSE Merge(g[k - 1], list[k])
    BY <2>2
  <2>4. g = [k \in 0 .. n + 1 |-> g[k]] OBVIOUS
  <2>5. Is(g, n + 1)  BY <2>3, <2>4
  <2>6. n + 1 \in 0 .. Len(list)  OBVIOUS
  <2> HIDE DEF g, Is
  <2> QED  BY <2>5, <2>6
<1>3. Len(list) \in S
  <2> HIDE DEF S
  <2>1. \A k \in 0 .. Len(list) : k \in S
    BY <1>1, <1>2, SetInduction
  <2> QED  BY <2>1
<1> DEFINE acc == CHOOSE f : Is(f, Len(list))
<1>4. Is(acc, Len(list))  BY <1>3
<1>5. Merged(rg, list) = acc[Len(list)]
  BY DEF Merged
<1> HIDE DEF acc, b
<1>6. /\ acc[0] = b /\ \A k \in 1 .. Len(list) : acc[k] = Merge(acc[k - 1], list[k])
  BY <1>4
<1> QED BY <1>5, <1>6 DEF b

\* What the loop has made of rg and the first k elements of the list
Merging(acc, rg, list, k, E) ==
    /\ acc \in [new : Rg, kept : Seq(Rg)]
    /\ Within(acc.new, E)
    /\ \A i \in 1 .. Len(acc.kept) : Within(acc.kept[i], E)
    /\ \A b \in Nat :
          In(b, acc.new) \/ (\E i \in 1 .. Len(acc.kept) : In(b, acc.kept[i]))
            <=> In(b, rg) \/ \E j \in 1 .. k : In(b, list[j])
    /\ \A i \in 1 .. Len(acc.kept) : Disjoint(acc.new, acc.kept[i])
    /\ DisjointList(acc.kept)

\* A round keeps that: what cur had is in the new region or in the list
LEMMA MergingStep ==
    ASSUME NEW E, NEW rg, NEW list \in Seq(Rg), NEW k \in 0 .. Len(list) - 1,
           \A i \in 1 .. Len(list) : Within(list[i], E),
           \A i \in 1 .. Len(list) : Disjoint(rg, list[i]),
           DisjointList(list),
           NEW acc, Merging(acc, rg, list, k, E)
    PROVE  Merging(Merge(acc, list[k + 1]), rg, list, k + 1, E)
<1> DEFINE cur == list[k + 1]
           K == 1 .. Len(acc.kept)
<1>1. Within(cur, E) /\ cur \in Rg  BY DEF Within
<1>2. /\ acc \in [new : Rg, kept : Seq(Rg)] /\ Within(acc.new, E)
      /\ \A i \in K : Within(acc.kept[i], E)
      /\ \A i \in K : Disjoint(acc.new, acc.kept[i])
      /\ DisjointList(acc.kept)
  BY DEF Merging
<1>3. \A b \in Nat :
         In(b, acc.new) \/ (\E i \in K : In(b, acc.kept[i]))
            <=> In(b, rg) \/ \E j \in 1 .. k : In(b, list[j])
  BY DEF Merging
<1>4. Disjoint(acc.new, cur) /\ \A i \in K : Disjoint(acc.kept[i], cur)
  <2> SUFFICES ASSUME NEW b \in Nat, In(b, cur),
                      In(b, acc.new) \/ \E i \in K : In(b, acc.kept[i])
               PROVE  FALSE
    BY DEF Disjoint
  <2>1. In(b, rg) \/ \E j \in 1 .. k : In(b, list[j])  BY <1>3
  <2> QED  BY <2>1 DEF Disjoint, DisjointList
<1>5. \A b \in Nat : (\E j \in 1 .. k + 1 : In(b, list[j]))
                       <=> (\E j \in 1 .. k : In(b, list[j])) \/ In(b, cur)
  OBVIOUS
<1> HIDE DEF cur, K
<1>6. CASE acc.new.end = cur.start
  <2> DEFINE m == [new |-> [start |-> acc.new.start, end |-> cur.end], kept |-> acc.kept]
  <2>1. Merge(acc, cur) = m  BY <1>2, <1>6 DEF Merge, Rg
  <2>2. \A b \in Nat : In(b, m.new) <=> In(b, acc.new) \/ In(b, cur)
    BY <1>1, <1>2, <1>6, SMTT(40) DEF In, Within, Rg
  <2>3. Within(m.new, E) /\ m.new \in Rg  BY <1>1, <1>2, <1>6, SMTT(40) DEF Within, Rg
  <2>4. \A i \in K : Disjoint(m.new, m.kept[i])
    BY <2>2, <1>2, <1>4 DEF Disjoint
  <2>5. \A b \in Nat :
         In(b, m.new) \/ (\E i \in K : In(b, m.kept[i]))
            <=> In(b, rg) \/ \E j \in 1 .. k + 1 : In(b, list[j])
    BY <2>2, <1>3, <1>5
  <2>6. m.kept = acc.kept /\ m \in [new : Rg, kept : Seq(Rg)]  BY <1>2, <2>3
  <2> HIDE DEF m
  <2> QED  BY <1>2, <2>1, <2>3, <2>4, <2>5, <2>6 DEF Merging, cur, K
<1>7. CASE acc.new.end # cur.start /\ acc.new.start = cur.end
  <2> DEFINE m == [new |-> [start |-> cur.start, end |-> acc.new.end], kept |-> acc.kept]
  <2>1. Merge(acc, cur) = m  BY <1>2, <1>7 DEF Merge, Rg
  <2>2. \A b \in Nat : In(b, m.new) <=> In(b, acc.new) \/ In(b, cur)
    BY <1>1, <1>2, <1>7, SMTT(40) DEF In, Within, Rg
  <2>3. Within(m.new, E) /\ m.new \in Rg  BY <1>1, <1>2, <1>7, SMTT(40) DEF Within, Rg
  <2>4. \A i \in K : Disjoint(m.new, m.kept[i])
    BY <2>2, <1>2, <1>4 DEF Disjoint
  <2>5. \A b \in Nat :
         In(b, m.new) \/ (\E i \in K : In(b, m.kept[i]))
            <=> In(b, rg) \/ \E j \in 1 .. k + 1 : In(b, list[j])
    BY <2>2, <1>3, <1>5
  <2>6. m.kept = acc.kept /\ m \in [new : Rg, kept : Seq(Rg)]  BY <1>2, <2>3
  <2> HIDE DEF m
  <2> QED  BY <1>2, <2>1, <2>3, <2>4, <2>5, <2>6 DEF Merging, cur, K
<1>8. CASE acc.new.end # cur.start /\ acc.new.start # cur.end
  <2> DEFINE m == [new |-> acc.new, kept |-> Append(acc.kept, cur)]
             n == Len(acc.kept)
  <2>1. Merge(acc, cur) = m  BY <1>2, <1>8 DEF Merge
  <2>2. /\ m \in [new : Rg, kept : Seq(Rg)]
        /\ Len(m.kept) = n + 1 /\ n \in Nat
        /\ m.kept[n + 1] = cur
        /\ \A i \in 1 .. n : m.kept[i] = acc.kept[i]
    BY <1>1, <1>2
  <2>3. m.new = acc.new  OBVIOUS
  <2> HIDE DEF m
  <2>4. \A i \in 1 .. n + 1 : Within(m.kept[i], E) /\ Disjoint(m.new, m.kept[i])
    BY <1>1, <1>2, <1>4, <2>2, <2>3 DEF K
  <2>5. DisjointList(m.kept)
    <3>1. \A i, j \in 1 .. n : i # j => Disjoint(m.kept[i], m.kept[j])
      BY <1>2, <2>2 DEF DisjointList
    <3>2. \A i \in 1 .. n : Disjoint(m.kept[i], cur) /\ Disjoint(cur, m.kept[i])
      BY <1>4, <2>2 DEF Disjoint, K
    <3>3. 1 .. Len(m.kept) = (1 .. n) \cup {n + 1}  BY <2>2
    <3> QED  BY <2>2, <3>1, <3>2, <3>3 DEF DisjointList
  <2>6. \A b \in Nat : (\E i \in 1 .. n + 1 : In(b, m.kept[i]))
                           <=> (\E i \in K : In(b, acc.kept[i])) \/ In(b, cur)
    <3>1. 1 .. n + 1 = (1 .. n) \cup {n + 1} /\ K = 1 .. n  BY <2>2 DEF K
    <3> QED  BY <2>2, <3>1
  <2>7. \A b \in Nat :
         In(b, m.new) \/ (\E i \in 1 .. n + 1 : In(b, m.kept[i]))
            <=> In(b, rg) \/ \E j \in 1 .. k + 1 : In(b, list[j])
    BY <2>3, <2>6, <1>3, <1>5
  <2> QED  BY <1>2, <2>1, <2>2, <2>3, <2>4, <2>5, <2>7 DEF Merging, cur
<1> QED  BY <1>6, <1>7, <1>8

\* The loop moves bytes between regions, but loses none and doubles none
LEMMA MergedBytes ==
    ASSUME NEW E, NEW rg, NEW list \in Seq(Rg),
           Within(rg, E),
           \A i \in 1 .. Len(list) : Within(list[i], E),
           \A i \in 1 .. Len(list) : Disjoint(rg, list[i]),
           DisjointList(list)
    PROVE  LET m == Merged(rg, list)
               new == <<m.new>> \o m.kept
           IN  /\ new \in Seq(Rg)
               /\ \A i \in 1 .. Len(new) : Within(new[i], E)
               /\ DisjointList(new)
               /\ \A b \in Nat :
                     (\E i \in 1 .. Len(new) : In(b, new[i]))
                       <=> In(b, rg) \/ \E i \in 1 .. Len(list) : In(b, list[i])
<1> DEFINE m == Merged(rg, list)
           new == <<m.new>> \o m.kept
           n == Len(m.kept)
<1>0. Len(list) \in Nat  OBVIOUS
<1>1. PICK acc :
         /\ acc[0] = [new |-> rg, kept |-> <<>>]
         /\ \A k \in 1 .. Len(list) : acc[k] = Merge(acc[k - 1], list[k])
         /\ m = acc[Len(list)]
  BY <1>0, MergedAcc
<1> HIDE DEF m
<1>2. Merging(m, rg, list, Len(list), E)
  <2> DEFINE S == {k \in 0 .. Len(list) : Merging(acc[k], rg, list, k, E)}
  <2>1. 0 \in S
    <3>1. acc[0].new = rg /\ acc[0].kept = <<>>  BY <1>1
    <3>2. rg \in Rg  BY DEF Within
    <3>3. Merging(acc[0], rg, list, 0, E)
      BY <1>1, <3>1, <3>2 DEF Merging, DisjointList
    <3> QED  BY <3>3
  <2>2. ASSUME NEW k \in 0 .. Len(list) - 1, k \in S PROVE k + 1 \in S
    <3>1. Merging(acc[k], rg, list, k, E)  BY <2>2
    <3>2. acc[k + 1] = Merge(acc[k], list[k + 1])  BY <1>1
    <3>3. Merging(acc[k + 1], rg, list, k + 1, E)  BY <3>1, <3>2, MergingStep
    <3> QED  BY <3>3
  <2> HIDE DEF S
  <2>3. \A k \in 0 .. Len(list) : k \in S  BY <1>0, <2>1, <2>2, SetInduction
  <2> QED  BY <1>0, <1>1, <2>3 DEF S
<1>3. /\ m.new \in Rg /\ m.kept \in Seq(Rg) /\ Within(m.new, E)
      /\ \A i \in 1 .. n : Within(m.kept[i], E) /\ Disjoint(m.new, m.kept[i])
      /\ DisjointList(m.kept)
  BY <1>2 DEF Merging
<1>4. /\ new \in Seq(Rg) /\ n \in Nat /\ Len(new) = n + 1
      /\ new[1] = m.new
      /\ \A i \in 1 .. n : new[i + 1] = m.kept[i]
  BY <1>3
<1> HIDE DEF new
<1>5. \A i \in 1 .. Len(new) : i = 1 \/ (i - 1 \in 1 .. n /\ new[i] = m.kept[i - 1])
  BY <1>4
<1>6. \A i \in 1 .. Len(new) : Within(new[i], E)
  BY <1>3, <1>4, <1>5
<1>7. DisjointList(new)
  <2> SUFFICES ASSUME NEW i \in 1 .. Len(new), NEW j \in 1 .. Len(new), i # j
               PROVE  Disjoint(new[i], new[j])
    BY DEF DisjointList
  <2>1. CASE i = 1
    <3>1. j - 1 \in 1 .. n /\ new[j] = m.kept[j - 1]  BY <2>1, <1>5
    <3> QED  BY <3>1, <2>1, <1>3, <1>4
  <2>2. CASE j = 1
    <3>1. i - 1 \in 1 .. n /\ new[i] = m.kept[i - 1]  BY <2>2, <1>5
    <3>2. Disjoint(m.new, m.kept[i - 1])  BY <3>1, <1>3
    <3> QED  BY <3>1, <3>2, <2>2, <1>4 DEF Disjoint
  <2>3. CASE i # 1 /\ j # 1
    <3>1. /\ i - 1 \in 1 .. n /\ new[i] = m.kept[i - 1]
          /\ j - 1 \in 1 .. n /\ new[j] = m.kept[j - 1]
      BY <2>3, <1>5
    <3>2. i - 1 # j - 1  OBVIOUS
    <3> QED  BY <3>1, <3>2, <1>3 DEF DisjointList
  <2> QED  BY <2>1, <2>2, <2>3
<1>8. \A b \in Nat : (\E i \in 1 .. Len(new) : In(b, new[i]))
                       <=> In(b, m.new) \/ \E i \in 1 .. n : In(b, m.kept[i])
  BY <1>4, <1>5, SMTT(40)
<1>9. \A b \in Nat : (\E i \in 1 .. Len(new) : In(b, new[i]))
                       <=> In(b, rg) \/ \E i \in 1 .. Len(list) : In(b, list[i])
  BY <1>2, <1>8 DEF Merging
<1> QED  BY <1>4, <1>6, <1>7, <1>9 DEF new, m

----------------------------------------------------------------------------
(* One address space: the regions sym, the free list, the forgotten bytes  *)
(* orph, and lim, the end of what is given out.                            *)

\* Region bounds are even: the sizes and the pages are
Bounds(lim) == {e \in 0 .. lim : e % 2 = 0}

SpaceOK(sym, list, orph, lim) ==
    /\ \A r \in RgId : Within(sym[r], Bounds(lim))
    /\ \A i \in 1 .. Len(list) : Within(list[i], Bounds(lim))
    /\ \A b \in orph : b \in 0 .. lim - 1
    /\ \A r, s \in RgId : r # s => Disjoint(sym[r], sym[s])
    /\ DisjointList(list)
    /\ \A r \in RgId : \A i \in 1 .. Len(list) : Disjoint(sym[r], list[i])
    /\ \A b \in orph : \A r \in RgId : ~In(b, sym[r])
    /\ \A b \in orph : \A i \in 1 .. Len(list) : ~In(b, list[i])
    /\ \A b \in 0 .. lim - 1 :
          b \in orph \/ (\E r \in RgId : In(b, sym[r])) \/ \E i \in 1 .. Len(list) : In(b, list[i])

Table == [RgId -> Rg]

\* Bytes as set, In as predicate
LEMMA BytesIn ==
    ASSUME NEW rg \in Rg
    PROVE  Bytes(rg) \subseteq Nat /\ \A b \in Nat : b \in Bytes(rg) <=> In(b, rg)
BY DEF Bytes, In, Rg

\* __alloc in a free region: nothing but the bytes it takes changes hands
LEMMA SpaceTake ==
    ASSUME NEW sym \in Table, NEW list \in Seq(Rg), NEW orph, NEW lim \in Nat,
           SpaceOK(sym, list, orph, lim),
           NEW r \in RgId, NEW i \in 1 .. Len(list),
           NEW size \in Nat \ {0}, size % 2 = 0,
           list[i].end - list[i].start + 1 >= size
    PROVE  LET s == list[i].start IN
           SpaceOK([sym EXCEPT ![r] = Region(s, s + size)],
                   [list EXCEPT ![i].start = s + size], orph \cup Bytes(sym[r]), lim)
<1> DEFINE s == list[i].start
           e == list[i].end
           sym2 == [sym EXCEPT ![r] = Region(s, s + size)]
           list2 == [list EXCEPT ![i].start = s + size]
           orph2 == orph \cup Bytes(sym[r])
           D == 1 .. Len(list)
<1>1. /\ s \in Nat /\ e \in Nat /\ s <= e /\ s % 2 = 0 /\ e % 2 = 0 /\ e <= lim
      /\ list[i] \in Rg
  BY SMTT(40) DEF SpaceOK, Within, Bounds, Rg
<1>2. s + size <= e /\ (s + size) % 2 = 0  BY <1>1, SMTT(40)
<1>3. /\ \A q \in RgId : sym2[q] = IF q = r THEN Region(s, s + size) ELSE sym[q]
      /\ \A j \in D : list2[j] = IF j = i THEN Region(s + size, e) ELSE list[j]
      /\ Len(list2) = Len(list)
  <2>1. list[i] = [start |-> s, end |-> e]  BY <1>1 DEF Rg
  <2>2. [list[i] EXCEPT !.start = s + size] = Region(s + size, e)  BY <2>1 DEF Region
  <2>3. list2[i] = Region(s + size, e)  BY <2>2
  <2>4. \A j \in D : j # i => list2[j] = list[j]  OBVIOUS
  <2>5. Len(list2) = Len(list)  OBVIOUS
  <2>6. \A q \in RgId : sym2[q] = IF q = r THEN Region(s, s + size) ELSE sym[q]
    BY DEF Table
  <2> QED  BY <2>3, <2>4, <2>5, <2>6
<1> HIDE DEF s, e
<1>4. /\ \A b \in Nat : In(b, Region(s, s + size)) <=> s <= b /\ b < s + size
      /\ \A b \in Nat : In(b, Region(s + size, e)) <=> s + size <= b /\ b < e
      /\ \A b \in Nat : In(b, list[i]) <=> s <= b /\ b < e
  BY DEF In, Region, s, e
<1>5. \A b \in Nat : In(b, list[i])
                       <=> In(b, Region(s, s + size)) \/ In(b, Region(s + size, e))
  <2> TAKE b \in Nat
  <2> QED  BY <1>1, <1>2, <1>4, SMTT(40)
<1>6. \A b \in Nat : ~(In(b, Region(s, s + size)) /\ In(b, Region(s + size, e)))
  BY <1>4, <1>1
<1>7. Within(Region(s, s + size), Bounds(lim)) /\ Within(Region(s + size, e), Bounds(lim))
  <2>1. {s, s + size, e} \subseteq Bounds(lim)  BY <1>1, <1>2 DEF Bounds
  <2>2. \A a, b \in Bounds(lim) : a <= b => Within(Region(a, b), Bounds(lim))
    BY DEF Within, Region, Rg, Bounds
  <2>3. s <= s + size  BY <1>1
  <2> QED  BY <1>2, <2>1, <2>2, <2>3
<1>8. sym[r] \in Rg /\ Bytes(sym[r]) \subseteq Nat
      /\ \A b \in Nat : b \in Bytes(sym[r]) <=> In(b, sym[r])
  BY BytesIn DEF Table
<1>9. Within(sym[r], Bounds(lim))  BY DEF SpaceOK
<1>10. \A b \in Bytes(sym[r]) : b \in 0 .. lim - 1
  BY <1>8, <1>9, SMTT(40) DEF In, Within, Bounds, Rg
<1>11. \A b \in orph : b \in 0 .. lim - 1  BY DEF SpaceOK
<1> DEFINE low == Region(s, s + size)
           high == Region(s + size, e)
<1> HIDE DEF sym2, list2, low, high
<1>12. /\ \A q \in RgId : Within(sym2[q], Bounds(lim))
       /\ \A j \in D : Within(list2[j], Bounds(lim))
  BY <1>3, <1>7 DEF SpaceOK, low, high
<1>13. \A p, q \in RgId : p # q => Disjoint(sym2[p], sym2[q])
  <2>1. \A q \in RgId : Disjoint(low, sym[q]) /\ Disjoint(sym[q], low)
    BY <1>5 DEF SpaceOK, Disjoint, low
  <2> QED  BY <2>1, <1>3 DEF SpaceOK, low
<1>14. DisjointList(list2)
  <2>1. \A j \in D \ {i} : Disjoint(high, list[j]) /\ Disjoint(list[j], high)
    BY <1>5 DEF SpaceOK, DisjointList, Disjoint, high
  <2> QED  BY <2>1, <1>3 DEF SpaceOK, DisjointList, high
<1>15. \A q \in RgId : \A j \in D : Disjoint(sym2[q], list2[j])
  <2>1. \A q \in RgId : Disjoint(sym[q], high)
    BY <1>5 DEF SpaceOK, Disjoint, high
  <2>2. \A j \in D \ {i} : Disjoint(low, list[j])
    BY <1>5 DEF SpaceOK, DisjointList, Disjoint, low
  <2>3. Disjoint(low, high)  BY <1>6 DEF Disjoint, low, high
  <2> QED  BY <2>1, <2>2, <2>3, <1>3 DEF SpaceOK, low, high
<1>16. \A b \in orph2 : b \in 0 .. lim - 1  BY <1>10, <1>11
<1>17. \A b \in orph2 : \A q \in RgId : ~In(b, sym2[q])
  <2> SUFFICES ASSUME NEW b \in orph2, NEW q \in RgId, In(b, sym2[q]) PROVE FALSE
    OBVIOUS
  <2>1. b \in Nat  BY <1>16
  <2>2. CASE q = r
    BY <2>1, <2>2, <1>3, <1>5, <1>8 DEF SpaceOK, Disjoint, low
  <2>3. CASE q # r
    BY <2>1, <2>3, <1>3, <1>8 DEF SpaceOK, Disjoint
  <2> QED  BY <2>2, <2>3
<1>18. \A b \in orph2 : \A j \in D : ~In(b, list2[j])
  <2> SUFFICES ASSUME NEW b \in orph2, NEW j \in D, In(b, list2[j]) PROVE FALSE
    OBVIOUS
  <2>1. b \in Nat  BY <1>16
  <2>2. In(b, list[j])  BY <2>1, <1>3, <1>5
  <2> QED  BY <2>1, <2>2, <1>8 DEF SpaceOK, Disjoint
<1>19. \A b \in 0 .. lim - 1 :
          b \in orph2 \/ (\E q \in RgId : In(b, sym2[q])) \/ \E j \in D : In(b, list2[j])
  <2> SUFFICES ASSUME NEW b \in 0 .. lim - 1
               PROVE  b \in orph2 \/ (\E q \in RgId : In(b, sym2[q]))
                        \/ \E j \in D : In(b, list2[j])
    OBVIOUS
  <2>1. b \in Nat  OBVIOUS
  <2>2. CASE b \in orph  BY <2>2
  <2>3. CASE In(b, sym[r])  BY <2>1, <2>3, <1>8
  <2>4. CASE \E q \in RgId \ {r} : In(b, sym[q])  BY <2>4, <1>3
  <2>5. CASE In(b, list[i])  BY <2>1, <2>5, <1>3, <1>5
  <2>6. CASE \E j \in D \ {i} : In(b, list[j])  BY <2>6, <1>3
  <2> QED  BY <2>2, <2>3, <2>4, <2>5, <2>6 DEF SpaceOK
<1> HIDE DEF orph2
<1>20. SpaceOK(sym2, list2, orph2, lim)
  BY <1>3, <1>12, <1>13, <1>14, <1>15, <1>16, <1>17, <1>18, <1>19 DEF SpaceOK
<1> QED  BY <1>20 DEF sym2, list2, orph2, s

\* __alloc beyond the old limit
LEMMA SpaceExtend ==
    ASSUME NEW sym \in Table, NEW list \in Seq(Rg), NEW orph, NEW lim \in Nat,
           SpaceOK(sym, list, orph, lim), lim % 2 = 0,
           NEW r \in RgId, NEW size \in Nat \ {0}, size % 2 = 0
    PROVE  SpaceOK([sym EXCEPT ![r] = Region(lim, lim + size)],
                   list, orph \cup Bytes(sym[r]), lim + size)
<1> DEFINE new == Region(lim, lim + size)
           sym2 == [sym EXCEPT ![r] = new]
           orph2 == orph \cup Bytes(sym[r])
           D == 1 .. Len(list)
<1>1. \A q \in RgId : sym2[q] = IF q = r THEN new ELSE sym[q]
  BY DEF Table
<1>2. \A b \in Nat : In(b, new) <=> lim <= b /\ b < lim + size
  BY DEF In, Region
<1>3. Within(new, Bounds(lim + size))
  BY DEF Within, Bounds, Region, Rg
<1>4. sym[r] \in Rg /\ Bytes(sym[r]) \subseteq Nat
      /\ \A b \in Nat : b \in Bytes(sym[r]) <=> In(b, sym[r])
  BY BytesIn DEF Table
<1>5. /\ \A q \in RgId : Within(sym[q], Bounds(lim))
      /\ \A j \in D : Within(list[j], Bounds(lim))
      /\ \A b \in orph : b \in 0 .. lim - 1
  BY DEF SpaceOK
<1>6. /\ \A q \in RgId : \A b \in Nat : In(b, sym[q]) => b < lim
      /\ \A j \in D : \A b \in Nat : In(b, list[j]) => b < lim
      /\ \A b \in orph2 : b \in 0 .. lim - 1
  <2>1. \A rg : Within(rg, Bounds(lim)) => \A b \in Nat : In(b, rg) => b < lim
    BY SMTT(40) DEF In, Within, Bounds, Rg
  <2>2. \A b \in Bytes(sym[r]) : b \in 0 .. lim - 1  BY <2>1, <1>4, <1>5
  <2> QED  BY <2>1, <2>2, <1>5
<1>7. /\ \A q \in RgId : Within(sym[q], Bounds(lim + size))
      /\ \A j \in D : Within(list[j], Bounds(lim + size))
  BY <1>5, SMTT(40) DEF Within, Bounds
<1> HIDE DEF new, sym2
<1>8. \A q \in RgId : Within(sym2[q], Bounds(lim + size))
  BY <1>1, <1>3, <1>7
<1>9. \A b \in orph2 : b \in 0 .. (lim + size) - 1  BY <1>6
<1>10. \A p, q \in RgId : p # q => Disjoint(sym2[p], sym2[q])
  <2>1. \A q \in RgId : Disjoint(new, sym[q]) /\ Disjoint(sym[q], new)
    BY <1>2, <1>6 DEF Disjoint
  <2> QED  BY <2>1, <1>1 DEF SpaceOK
<1>11. \A q \in RgId : \A j \in D : Disjoint(sym2[q], list[j])
  <2>1. \A j \in D : Disjoint(new, list[j])  BY <1>2, <1>6 DEF Disjoint
  <2> QED  BY <2>1, <1>1 DEF SpaceOK
<1>12. \A b \in orph2 : \A q \in RgId : ~In(b, sym2[q])
  <2> SUFFICES ASSUME NEW b \in orph2, NEW q \in RgId, In(b, sym2[q]) PROVE FALSE
    OBVIOUS
  <2>1. b \in Nat /\ b < lim  BY <1>6
  <2>2. q # r  BY <2>1, <1>1, <1>2
  <2> QED  BY <2>1, <2>2, <1>1, <1>4 DEF SpaceOK, Disjoint
<1>13. \A b \in orph2 : \A j \in D : ~In(b, list[j])
  BY <1>4 DEF SpaceOK, Disjoint
<1>14. \A b \in 0 .. (lim + size) - 1 :
          b \in orph2 \/ (\E q \in RgId : In(b, sym2[q])) \/ \E j \in D : In(b, list[j])
  <2> SUFFICES ASSUME NEW b \in 0 .. (lim + size) - 1
               PROVE  b \in orph2 \/ (\E q \in RgId : In(b, sym2[q]))
                        \/ \E j \in D : In(b, list[j])
    OBVIOUS
  <2>1. CASE b >= lim  BY <2>1, <1>1, <1>2
  <2>2. CASE b < lim
    <3>1. b \in 0 .. lim - 1  BY <2>2
    <3>2. CASE In(b, sym[r])  BY <3>2, <1>4
    <3>3. CASE \E q \in RgId \ {r} : In(b, sym[q])  BY <3>3, <1>1
    <3> QED  BY <3>1, <3>2, <3>3 DEF SpaceOK
  <2> QED  BY <2>1, <2>2
<1>15. DisjointList(list)  BY DEF SpaceOK
<1> HIDE DEF orph2
<1>16. SpaceOK(sym2, list, orph2, lim + size)
  BY <1>7, <1>8, <1>9, <1>10, <1>11, <1>12, <1>13, <1>14, <1>15 DEF SpaceOK
<1> QED  BY <1>16 DEF sym2, orph2, new

\* What vm_map_ram leaves beyond the region becomes a free region
LEMMA SpaceRest ==
    ASSUME NEW sym \in Table, NEW list \in Seq(Rg), NEW orph, NEW lim \in Nat,
           SpaceOK(sym, list, orph, lim), lim % 2 = 0,
           NEW end \in Nat, lim < end, end % 2 = 0
    PROVE  /\ <<Region(lim, end)>> \o list \in Seq(Rg)
           /\ SpaceOK(sym, <<Region(lim, end)>> \o list, orph, end)
<1> DEFINE new == Region(lim, end)
           list2 == <<new>> \o list
           n == Len(list)
<1>1. \A b \in Nat : In(b, new) <=> lim <= b /\ b < end  BY DEF In, Region
<1>2. Within(new, Bounds(end)) /\ new \in Rg
  BY DEF Within, Bounds, Region, Rg
<1> HIDE DEF new
<1>3. /\ list2 \in Seq(Rg) /\ n \in Nat /\ Len(list2) = n + 1
      /\ list2[1] = new
      /\ \A i \in 1 .. n : list2[i + 1] = list[i]
  BY <1>2
<1> HIDE DEF list2
<1>4. \A i \in 1 .. Len(list2) : i = 1 \/ (i - 1 \in 1 .. n /\ list2[i] = list[i - 1])
  BY <1>3
<1>5. \A b \in 0 .. lim - 1 : b \in 0 .. end - 1  OBVIOUS
<1>6. \A rg : Within(rg, Bounds(lim))
                 => /\ Within(rg, Bounds(end))
                    /\ \A b \in Nat : In(b, rg) => b < lim
  BY DEF In, Within, Bounds, Rg
<1>7. \A r \in RgId : Within(sym[r], Bounds(lim))  BY DEF SpaceOK
<1>8. \A i \in 1 .. n : Within(list[i], Bounds(lim))  BY DEF SpaceOK
<1>9. \A rg : Within(rg, Bounds(lim)) => Disjoint(rg, new) /\ Disjoint(new, rg)
  BY <1>1, <1>6 DEF Disjoint
<1>10. \A r \in RgId : Within(sym[r], Bounds(end))  BY <1>6, <1>7
<1>11. \A i \in 1 .. Len(list2) : Within(list2[i], Bounds(end))
  BY <1>2, <1>3, <1>4, <1>6, <1>8
<1>12. DisjointList(list2)
  <2> SUFFICES ASSUME NEW i \in 1 .. Len(list2), NEW j \in 1 .. Len(list2), i # j
               PROVE  Disjoint(list2[i], list2[j])
    BY DEF DisjointList
  <2>1. CASE i = 1 \/ j = 1  BY <2>1, <1>3, <1>4, <1>8, <1>9
  <2>2. CASE i # 1 /\ j # 1
    <3>1. /\ i - 1 \in 1 .. n /\ list2[i] = list[i - 1]
          /\ j - 1 \in 1 .. n /\ list2[j] = list[j - 1]
      BY <2>2, <1>4
    <3>2. i - 1 # j - 1  OBVIOUS
    <3> QED  BY <3>1, <3>2 DEF SpaceOK, DisjointList
  <2> QED  BY <2>1, <2>2
<1>13. \A r \in RgId : \A i \in 1 .. Len(list2) : Disjoint(sym[r], list2[i])
  BY <1>3, <1>4, <1>7, <1>9 DEF SpaceOK
<1>14. \A b \in orph : b \in 0 .. lim - 1  BY DEF SpaceOK
<1>15. \A b \in orph : \A i \in 1 .. Len(list2) : ~In(b, list2[i])
  <2> SUFFICES ASSUME NEW b \in orph, NEW i \in 1 .. Len(list2) PROVE ~In(b, list2[i])
    OBVIOUS
  <2>1. CASE i = 1  BY <2>1, <1>1, <1>3, <1>14
  <2>2. CASE i # 1  BY <2>2, <1>4 DEF SpaceOK
  <2> QED  BY <2>1, <2>2
<1>16. \A b \in 0 .. end - 1 :
         b \in orph \/ (\E r \in RgId : In(b, sym[r])) \/ \E i \in 1 .. Len(list2) : In(b, list2[i])
  <2> SUFFICES ASSUME NEW b \in 0 .. end - 1
               PROVE  b \in orph \/ (\E r \in RgId : In(b, sym[r]))
                        \/ \E i \in 1 .. Len(list2) : In(b, list2[i])
    OBVIOUS
  <2>1. CASE b >= lim  BY <2>1, <1>1, <1>3
  <2>2. CASE b < lim
    <3>1. b \in 0 .. lim - 1  BY <2>2
    <3>2. ASSUME NEW i \in 1 .. n, In(b, list[i])
          PROVE  \E j \in 1 .. Len(list2) : In(b, list2[j])
      <4>1. i + 1 \in 1 .. Len(list2) /\ list2[i + 1] = list[i]  BY <1>3
      <4> QED  BY <3>2, <4>1
    <3> QED  BY <3>1, <3>2 DEF SpaceOK
  <2> QED  BY <2>1, <2>2
<1>17. SpaceOK(sym, list2, orph, end)
  <2>1. \A b \in orph : b \in 0 .. end - 1  BY <1>5, <1>14
  <2> QED  BY <2>1, <1>10, <1>11, <1>12, <1>13, <1>15, <1>16 DEF SpaceOK
<1> QED  BY <1>3, <1>17 DEF list2, new

\* __free: the bytes of a region go to the free list, whatever is joined
LEMMA SpaceFree ==
    ASSUME NEW sym \in Table, NEW list \in Seq(Rg), NEW orph, NEW lim \in Nat,
           SpaceOK(sym, list, orph, lim), NEW r \in RgId
    PROVE  LET m == Merged(sym[r], list) IN
           /\ <<m.new>> \o m.kept \in Seq(Rg)
           /\ SpaceOK([sym EXCEPT ![r] = Region(0, 0)], <<m.new>> \o m.kept, orph, lim)
<1> DEFINE m == Merged(sym[r], list)
           new == <<m.new>> \o m.kept
           sym2 == [sym EXCEPT ![r] = Region(0, 0)]
<1>1. /\ \A q \in RgId : Within(sym[q], Bounds(lim))
      /\ \A i \in 1 .. Len(list) : Within(list[i], Bounds(lim))
      /\ \A i \in 1 .. Len(list) : Disjoint(sym[r], list[i])
      /\ DisjointList(list)
  BY DEF SpaceOK
<1>2. /\ new \in Seq(Rg)
      /\ \A i \in 1 .. Len(new) : Within(new[i], Bounds(lim))
      /\ DisjointList(new)
      /\ \A b \in Nat :
            (\E i \in 1 .. Len(new) : In(b, new[i]))
              <=> In(b, sym[r]) \/ \E i \in 1 .. Len(list) : In(b, list[i])
  <2> HIDE DEF m
  <2>1. LET k == Merged(sym[r], list)
            fresh == <<k.new>> \o k.kept
        IN  /\ fresh \in Seq(Rg)
            /\ \A i \in 1 .. Len(fresh) : Within(fresh[i], Bounds(lim))
            /\ DisjointList(fresh)
            /\ \A b \in Nat :
                  (\E i \in 1 .. Len(fresh) : In(b, fresh[i]))
                    <=> In(b, sym[r]) \/ \E i \in 1 .. Len(list) : In(b, list[i])
    <3>1. Within(sym[r], Bounds(lim))  BY <1>1
    <3> QED  BY <1>1, <3>1, MergedBytes, SMTT(40)
  <2> QED  BY <2>1 DEF m
<1>3. /\ \A q \in RgId : sym2[q] = IF q = r THEN Region(0, 0) ELSE sym[q]
      /\ \A b \in Nat : ~In(b, Region(0, 0))
      /\ Within(Region(0, 0), Bounds(lim))
  BY DEF Table, Region, In, Within, Bounds, Rg
<1> HIDE DEF m, new, sym2
<1>4. \A q \in RgId : Within(sym2[q], Bounds(lim))  BY <1>1, <1>3
<1>5. \A p, q \in RgId : p # q => Disjoint(sym2[p], sym2[q])
  BY <1>3 DEF SpaceOK, Disjoint
<1>6. \A q \in RgId : \A i \in 1 .. Len(new) : Disjoint(sym2[q], new[i])
  <2> SUFFICES ASSUME NEW q \in RgId, NEW i \in 1 .. Len(new), NEW b \in Nat,
                      In(b, sym2[q]), In(b, new[i])
               PROVE  FALSE
    BY DEF Disjoint
  <2>1. q # r /\ In(b, sym[q])  BY <1>3
  <2>2. In(b, sym[r]) \/ \E j \in 1 .. Len(list) : In(b, list[j])  BY <1>2
  <2> QED  BY <2>1, <2>2 DEF SpaceOK, Disjoint
<1>7. \A b \in orph : b \in 0 .. lim - 1  BY DEF SpaceOK
<1>8. /\ \A b \in orph : \A q \in RgId : ~In(b, sym2[q])
      /\ \A b \in orph : \A i \in 1 .. Len(new) : ~In(b, new[i])
  <2> SUFFICES ASSUME NEW b \in orph
               PROVE  /\ \A q \in RgId : ~In(b, sym2[q])
                      /\ \A i \in 1 .. Len(new) : ~In(b, new[i])
    OBVIOUS
  <2>1. b \in Nat  BY <1>7
  <2>2. /\ \A q \in RgId : ~In(b, sym[q])
        /\ \A i \in 1 .. Len(list) : ~In(b, list[i])
    BY DEF SpaceOK
  <2> QED  BY <2>1, <2>2, <1>2, <1>3
<1>9. \A b \in 0 .. lim - 1 :
         b \in orph \/ (\E q \in RgId : In(b, sym2[q])) \/ \E i \in 1 .. Len(new) : In(b, new[i])
  <2> SUFFICES ASSUME NEW b \in 0 .. lim - 1
               PROVE  b \in orph \/ (\E q \in RgId : In(b, sym2[q]))
                        \/ \E i \in 1 .. Len(new) : In(b, new[i])
    OBVIOUS
  <2>1. b \in Nat  OBVIOUS
  <2>2. b \in orph \/ (\E q \in RgId : In(b, sym[q])) \/ \E i \in 1 .. Len(list) : In(b, list[i])
    BY DEF SpaceOK
  <2>3. \A q \in RgId : In(b, sym[q]) => q = r \/ In(b, sym2[q])  BY <1>3
  <2> QED  BY <2>1, <2>2, <2>3, <1>2
<1>10. SpaceOK(sym2, new, orph, lim)
  BY <1>2, <1>4, <1>5, <1>6, <1>7, <1>8, <1>9 DEF SpaceOK
<1> QED  BY <1>2, <1>10 DEF sym2, new, m

----------------------------------------------------------------------------
(* Arithmetic of pages.                                                    *)

\* A whole number of pages ends at that page
LEMMA DivMul ==
    ASSUME NEW k \in Nat, NEW P \in Nat \ {0}
    PROVE  (k * P) \div P = k
BY SMT

\* Every byte is in some page
LEMMA DivNat ==
    ASSUME NEW a \in Nat, NEW P \in Nat \ {0}
    PROVE  a \div P \in Nat
BY SMT

\* A byte below a whole number of pages is in one of these
LEMMA DivLess ==
    ASSUME NEW a \in Nat, NEW k \in Nat, NEW P \in Nat \ {0}, a < k * P
    PROVE  a \div P \in Nat /\ a \div P < k
BY SMT

\* Rounding a size up gives whole pages, and at least the size
LEMMA Aligned ==
    ASSUME NEW size \in Nat \ {0}, NEW P \in Nat \ {0}
    PROVE  LET k == (size + P - 1) \div P IN k \in Nat \ {0} /\ size <= k * P
BY SMT

\* The order of numbers of pages is the order of their ends
LEMMA MulLess ==
    ASSUME NEW a \in Nat, NEW b \in Nat, NEW P \in Nat \ {0}, a * P <= b * P
    PROVE  a <= b
BY SMT

\* Sums of pages
LEMMA MulSum ==
    ASSUME NEW a \in Nat, NEW b \in Nat, NEW P \in Nat
    PROVE  a * P + b * P = (a + b) * P /\ a * P \in Nat
OBVIOUS

\* Pages of even size end at even addresses
LEMMA EvenMul ==
    ASSUME NEW k \in Nat, NEW P \in Nat, P % 2 = 0
    PROVE  (k * P) % 2 = 0
<1> DEFINE h == P \div 2
<1>1. P = 2 * h /\ h \in Nat  OBVIOUS
<1> HIDE DEF h
<1>2. k * P = 2 * (k * h) /\ k * h \in Nat  BY <1>1
<1> DEFINE m == k * h
<1> HIDE DEF m
<1> QED  BY <1>2 DEF m

----------------------------------------------------------------------------
(* The inductive invariant.                                                *)

\* Sizes and pages are even: get_free_vmrg_area takes a free region that is
\* one byte too small (the run odd_size)
EvenSizes == PAGESZ % 2 = 0 /\ \A size \in Size : size % 2 = 0

SpaceTypes ==
    /\ vma \in [Proc -> [vm_end : Nat, sbrk : Nat]]
    /\ symrg \in [Proc -> Table]
    /\ freerg \in [Proc -> Seq(Rg)]
    /\ \E S : grow \in [Proc -> [need : Nat, got : Seq(S), from : Nat]]
    /\ DOMAIN orphan = Proc
    /\ DOMAIN pgd = Proc
    /\ \A p \in Proc : DOMAIN pgd[p] = Page

\* The page after the last one of the area
Top(p) == vma[p].vm_end \div PAGESZ

\* The end of what is given out: while p extends its area, the region it is to
\* get is the last
Limit(p) == IF grow[p].need = 0 THEN vma[p].sbrk ELSE grow[p].from

\* The area is made of whole pages, the last `need' of them not mapped yet
GrowOK(p) ==
    /\ vma[p].sbrk = vma[p].vm_end
    /\ vma[p].vm_end = Top(p) * PAGESZ
    /\ Top(p) <= MaxPgn
    /\ vma[p].vm_end % 2 = 0
    /\ grow[p].need <= Top(p)
    /\ Len(grow[p].got) <= grow[p].need
    /\ grow[p].need = 0 => grow[p] = NoGrow
    /\ Limit(p) <= vma[p].sbrk
    /\ Limit(p) % 2 = 0

PagesOK(p) ==
    \A n \in Page : n + grow[p].need < Top(p) => pgd[p][n].present

SpaceInv(p) ==
    /\ SpaceOK(symrg[p], freerg[p], orphan[p], Limit(p))
    /\ GrowOK(p)
    /\ PagesOK(p)

SInv == SpaceTypes /\ \A p \in Proc : SpaceInv(p)

\* A step that leaves the space of a process alone, and unmaps no page of it
LEMMA SpaceUntouched ==
    ASSUME NEW q \in Proc, SpaceInv(q),
           vma'[q] = vma[q], symrg'[q] = symrg[q], freerg'[q] = freerg[q],
           orphan'[q] = orphan[q], grow'[q] = grow[q],
           \A n \in Page : pgd[q][n].present => pgd'[q][n].present
    PROVE  SpaceInv(q)'
<1>1. Top(q)' = Top(q) /\ Limit(q)' = Limit(q)  BY DEF Top, Limit
<1>2. SpaceOK(symrg[q], freerg[q], orphan[q], Limit(q))'  BY <1>1 DEF SpaceInv
<1>3. GrowOK(q)'  BY <1>1 DEF SpaceInv, GrowOK
<1>4. PagesOK(q)'  BY <1>1 DEF SpaceInv, PagesOK
<1> QED  BY <1>2, <1>3, <1>4 DEF SpaceInv

\* The same for all processes
LEMMA SpaceQuiet ==
    ASSUME SInv, UNCHANGED <<space, grow, orphan>>,
           DOMAIN pgd' = DOMAIN pgd,
           \A q \in Proc : DOMAIN pgd'[q] = DOMAIN pgd[q],
           \A q \in Proc : \A n \in Page : pgd[q][n].present => pgd'[q][n].present
    PROVE  SInv'
<1>1. SpaceTypes'  BY DEF SInv, SpaceTypes, space
<1>2. ASSUME NEW q \in Proc PROVE SpaceInv(q)'
  BY SpaceUntouched DEF SInv, space
<1> QED  BY <1>1, <1>2 DEF SInv

\* No process has a page, and its free list is one empty region
LEMMA SpaceInit == ASSUME EvenSizes, Init PROVE SInv
<1>1. NoGrow \in [need : Nat, got : Seq({}), from : Nat]
  BY DEF NoGrow, Growing
<1>2. SpaceTypes
  <2>1. grow \in [Proc -> [need : Nat, got : Seq({}), from : Nat]]  BY <1>1 DEF Init
  <2>2. <<Region(0, 0)>> \in Seq(Rg) /\ Region(0, 0) \in Rg  BY DEF Region, Rg
  <2>3. symrg \in [Proc -> Table]  BY <2>2 DEF Init, Table
  <2>4. freerg \in [Proc -> Seq(Rg)]  BY <2>2 DEF Init
  <2> QED  BY <2>1, <2>3, <2>4 DEF Init, SpaceTypes
<1>3. ASSUME NEW p \in Proc PROVE SpaceInv(p)
  <2>1. /\ vma[p].vm_end = 0 /\ vma[p].sbrk = 0 /\ grow[p] = NoGrow
        /\ grow[p].need = 0 /\ grow[p].got = <<>>
        /\ symrg[p] = [r \in RgId |-> Region(0, 0)]
        /\ freerg[p] = <<Region(0, 0)>> /\ orphan[p] = {}
    BY DEF Init, NoGrow, Growing
  <2>2. Top(p) = 0 /\ Limit(p) = 0  BY <2>1, VMemAssumption DEF Top, Limit
  <2>3. Within(Region(0, 0), Bounds(0))  BY DEF Within, Bounds, Region, Rg
  <2>4. \A b \in Nat : ~In(b, Region(0, 0))  BY DEF In, Region
  <2>5. SpaceOK(symrg[p], freerg[p], orphan[p], 0)
    BY <2>1, <2>3, <2>4 DEF SpaceOK, DisjointList, Disjoint
  <2>6. GrowOK(p)  BY <2>1, <2>2, VMemAssumption DEF GrowOK
  <2>7. PagesOK(p)  BY <2>1, <2>2 DEF PagesOK, Page
  <2> QED  BY <2>2, <2>5, <2>6, <2>7 DEF SpaceInv
<1> QED  BY <1>2, <1>3 DEF SInv

\* A set of numbers has a least element
LEMMA Least ==
    ASSUME NEW S \in SUBSET Nat, S # {}
    PROVE  \E m \in S : \A k \in S : m <= k
<1>1. PICK m \in S : \A k \in S : ~(<<k, m>> \in OpToRel(<, Nat))
  BY NatLessThanWellFounded, WFMin, Zenon
<1>2. \A k \in S : ~(k < m)  BY <1>1 DEF OpToRel
<1> QED  BY <1>2

\* get_free_vmrg_area returns one of the regions it takes to be large enough
LEMMA BestFitOK ==
    ASSUME SpaceTypes, NEW p \in Proc, NEW size, Fits(p, size) # {}
    PROVE  BestFit(p, size) \in Fits(p, size)
<1> DEFINE F == Fits(p, size)
           start(i) == freerg[p][i].start
           A == {start(i) : i \in F}
<1>1. F \subseteq Nat /\ \A i \in F : start(i) \in Nat
  <2>1. freerg[p] \in Seq(Rg)  BY DEF SpaceTypes
  <2>2. \A i \in DOMAIN freerg[p] : i \in Nat /\ freerg[p][i] \in Rg  BY <2>1
  <2> QED  BY <2>2 DEF Fits, Rg
<1>2. PICK a \in A : \A b \in A : a <= b
  <2>1. A \in SUBSET Nat /\ A # {}  BY <1>1
  <2> HIDE DEF A
  <2> QED  BY <2>1, Least
<1> DEFINE B == {i \in F : start(i) = a}
<1>3. PICK i \in B : \A j \in B : i <= j
  <2>1. B \in SUBSET Nat /\ B # {}  BY <1>1
  <2> HIDE DEF B
  <2> QED  BY <2>1, Least
<1>4. ASSUME NEW j \in F
      PROVE  start(i) < start(j) \/ (start(i) = start(j) /\ i <= j)
  <2>1. start(j) \in A /\ start(i) = a /\ a \in Nat /\ start(j) \in Nat  BY <1>1, <1>2, <1>3
  <2>2. a <= start(j)  BY <2>1, <1>2
  <2>3. start(j) = a => i <= j  BY <1>3
  <2> HIDE DEF start, A, B
  <2> QED  BY <2>1, <2>2, <2>3
<1> QED  BY <1>3, <1>4 DEF BestFit

----------------------------------------------------------------------------
(* The steps.                                                              *)

\* The parts of the types, for one process
LEMMA SpaceParts ==
    ASSUME SpaceTypes, NEW p \in Proc
    PROVE  /\ vma[p] \in [vm_end : Nat, sbrk : Nat]
           /\ symrg[p] \in Table
           /\ freerg[p] \in Seq(Rg)
           /\ grow[p].need \in Nat /\ grow[p].from \in Nat
           /\ Len(grow[p].got) \in Nat
           /\ Limit(p) \in Nat /\ Top(p) \in Nat
<1>1. PICK S : grow \in [Proc -> [need : Nat, got : Seq(S), from : Nat]]
  BY DEF SpaceTypes
<1>2. grow[p].need \in Nat /\ grow[p].from \in Nat /\ grow[p].got \in Seq(S)
  BY <1>1
<1>3. vma[p] \in [vm_end : Nat, sbrk : Nat] /\ symrg[p] \in Table /\ freerg[p] \in Seq(Rg)
  BY DEF SpaceTypes
<1>4. Limit(p) \in Nat  BY <1>2, <1>3 DEF Limit
<1>5. Top(p) \in Nat
  <2>1. vma[p].vm_end \in Nat /\ PAGESZ \in Nat \ {0}  BY <1>3, VMemAssumption
  <2> QED  BY <2>1, DivNat DEF Top
<1> QED  BY <1>2, <1>3, <1>4, <1>5

\* __alloc takes the front of a free region
LEMMA SpaceAllocFree ==
    ASSUME EvenSizes, SInv, NEW p \in Proc, NEW r \in RgId, NEW size \in Size,
           grow[p] = NoGrow, AllocFree(p, r, size)
    PROVE  SInv'
<1> DEFINE i == BestFit(p, size)
           s == freerg[p][i].start
<1>1. /\ SpaceTypes /\ SpaceInv(p)
      /\ size \in Nat \ {0} /\ size % 2 = 0
      /\ symrg[p] \in Table /\ freerg[p] \in Seq(Rg) /\ Limit(p) \in Nat
  BY SpaceParts, VMemAssumption DEF SInv, EvenSizes
<1>2. i \in 1 .. Len(freerg[p]) /\ freerg[p][i].end - freerg[p][i].start + 1 >= size
  <2>1. i \in Fits(p, size)  BY <1>1, BestFitOK DEF AllocFree
  <2> QED  BY <1>1, <2>1 DEF Fits
<1>3. /\ symrg' = [symrg EXCEPT ![p][r] = Region(s, s + size)]
      /\ freerg' = [freerg EXCEPT ![p][i].start = s + size]
      /\ orphan' = [orphan EXCEPT ![p] = @ \cup Bytes(symrg[p][r])]
      /\ UNCHANGED <<vma, grow, pgd>>
  BY DEF AllocFree, Orphaned, paging
<1> HIDE DEF i
<1>4. freerg[p][i] \in Rg /\ s \in Nat
  <2>1. freerg[p][i] \in Rg  BY <1>1, <1>2
  <2> QED  BY <2>1 DEF Rg
<1> HIDE DEF s
<1>5. /\ symrg'[p] = [symrg[p] EXCEPT ![r] = Region(s, s + size)]
      /\ freerg'[p] = [freerg[p] EXCEPT ![i].start = s + size]
      /\ orphan'[p] = orphan[p] \cup Bytes(symrg[p][r])
      /\ \A q \in Proc \ {p} : /\ symrg'[q] = symrg[q]
                               /\ freerg'[q] = freerg[q]
                               /\ orphan'[q] = orphan[q]
      /\ DOMAIN orphan' = Proc
  BY <1>1, <1>3 DEF SpaceTypes
<1>6. SpaceTypes'
  <2>1. symrg'[p] \in Table  BY <1>1, <1>4, <1>5 DEF Table, Region, Rg
  <2>2. freerg'[p] \in Seq(Rg)
    <3> DEFINE list == freerg[p]
               rg == [list[i] EXCEPT !.start = s + size]
    <3>1. rg \in Rg
      <4>1. \A x \in Rg : \A n \in Nat : [x EXCEPT !.start = n] \in Rg  BY DEF Rg
      <4>2. s + size \in Nat  BY <1>1, <1>4
      <4> QED  BY <1>4, <4>1, <4>2
    <3>2. list \in Seq(Rg) /\ i \in 1 .. Len(list)  BY <1>1, <1>2
    <3>3. freerg'[p] = [list EXCEPT ![i] = rg]  BY <1>5
    <3> HIDE DEF list, rg
    <3> QED  BY <3>1, <3>2, <3>3
  <2>3. symrg' \in [Proc -> Table]  BY <2>1, <1>3, <1>5, <1>1 DEF SpaceTypes
  <2>4. freerg' \in [Proc -> Seq(Rg)]  BY <2>2, <1>3, <1>5, <1>1 DEF SpaceTypes
  <2> QED  BY <2>3, <2>4, <1>1, <1>3, <1>5 DEF SpaceTypes
<1>7. SpaceInv(p)'
  <2>1. SpaceOK(symrg'[p], freerg'[p], orphan'[p], Limit(p))
    <3>1. SpaceOK(symrg[p], freerg[p], orphan[p], Limit(p))  BY <1>1 DEF SpaceInv
    <3>2. SpaceOK([symrg[p] EXCEPT ![r] = Region(s, s + size)],
                  [freerg[p] EXCEPT ![i].start = s + size],
                  orphan[p] \cup Bytes(symrg[p][r]), Limit(p))
      BY <3>1, <1>1, <1>2, SpaceTake, Zenon DEF s
    <3> QED  BY <3>2, <1>5, Zenon
  <2>2. Limit(p)' = Limit(p) /\ Top(p)' = Top(p)  BY <1>3 DEF Limit, Top
  <2>3. GrowOK(p)' /\ PagesOK(p)'
    BY <1>1, <1>3, <2>2 DEF SpaceInv, GrowOK, PagesOK
  <2> QED  BY <2>1, <2>2, <2>3 DEF SpaceInv
<1>8. ASSUME NEW q \in Proc \ {p} PROVE SpaceInv(q)'
  BY <1>3, <1>5, SpaceUntouched DEF SInv
<1> QED  BY <1>6, <1>7, <1>8 DEF SInv

\* __alloc moves the limit by whole pages
LEMMA SpaceAllocBrk ==
    ASSUME EvenSizes, SInv, NEW p \in Proc, NEW r \in RgId, NEW size \in Size,
           grow[p] = NoGrow, AllocBrk(p, r, size)
    PROVE  SInv'
<1> DEFINE old == vma[p].sbrk
           k == (size + PAGESZ - 1) \div PAGESZ
           inc == k * PAGESZ
<1>1. /\ SpaceTypes /\ SpaceInv(p) /\ GrowOK(p) /\ PagesOK(p)
      /\ size \in Nat \ {0} /\ size % 2 = 0
      /\ PAGESZ \in Nat \ {0} /\ PAGESZ % 2 = 0 /\ MaxPgn \in Nat
      /\ vma[p] \in [vm_end : Nat, sbrk : Nat]
      /\ symrg[p] \in Table /\ freerg[p] \in Seq(Rg) /\ Limit(p) \in Nat /\ Top(p) \in Nat
  BY SpaceParts, VMemAssumption DEF SInv, EvenSizes, SpaceInv
<1>2. k \in Nat \ {0} /\ size <= inc  BY <1>1, Aligned
<1>3. /\ old + inc <= MaxPgn * PAGESZ
      /\ symrg' = [symrg EXCEPT ![p][r] = Region(old, old + size)]
      /\ vma' = [vma EXCEPT ![p] = [vm_end |-> old + inc, sbrk |-> old + inc]]
      /\ grow' = [grow EXCEPT ![p] = Growing(inc \div PAGESZ, old + size)]
      /\ orphan' = [orphan EXCEPT ![p] = @ \cup Bytes(symrg[p][r])]
      /\ UNCHANGED <<freerg, pgd>>
  BY DEF AllocBrk, inc_vma_limit, Orphaned, paging, PAGING_PAGE_ALIGNSZ
<1> HIDE DEF k
<1>4. inc \div PAGESZ = k  BY <1>1, <1>2, DivMul
<1>5. old = Top(p) * PAGESZ /\ old \in Nat /\ old % 2 = 0 /\ Limit(p) = old
  BY <1>1 DEF GrowOK, Limit, NoGrow, Growing
<1>6. /\ old + inc = (Top(p) + k) * PAGESZ
      /\ inc \in Nat
      /\ Top(p) + k <= MaxPgn
      /\ (old + inc) % 2 = 0
      /\ (old + inc) \div PAGESZ = Top(p) + k
  <2>1. old + inc = (Top(p) + k) * PAGESZ /\ inc \in Nat /\ Top(p) + k \in Nat
    <3>1. Top(p) * PAGESZ + k * PAGESZ = (Top(p) + k) * PAGESZ /\ k * PAGESZ \in Nat
      BY <1>1, <1>2, MulSum
    <3> QED  BY <3>1, <1>1, <1>2, <1>5, SMTT(40)
  <2> HIDE DEF old, inc
  <2>2. Top(p) + k <= MaxPgn  BY <1>1, <1>3, <2>1, MulLess
  <2>3. (old + inc) % 2 = 0  BY <1>1, <2>1, EvenMul
  <2>4. (old + inc) \div PAGESZ = Top(p) + k  BY <1>1, <2>1, DivMul
  <2> QED  BY <2>1, <2>2, <2>3, <2>4
<1>2a. size <= inc  BY <1>2
<1> HIDE DEF old, inc
<1> DEFINE g == Growing(k, old + size)
<1>7. /\ g.need = k /\ g.got = <<>> /\ g.from = old + size
      /\ \A S : g \in [need : Nat, got : Seq(S), from : Nat]
  BY <1>1, <1>2, <1>5 DEF Growing
<1> HIDE DEF g
<1>8. /\ symrg'[p] = [symrg[p] EXCEPT ![r] = Region(old, old + size)]
      /\ vma'[p] = [vm_end |-> old + inc, sbrk |-> old + inc]
      /\ grow'[p] = g
      /\ orphan'[p] = orphan[p] \cup Bytes(symrg[p][r])
      /\ \A q \in Proc \ {p} : /\ symrg'[q] = symrg[q]
                               /\ vma'[q] = vma[q]
                               /\ grow'[q] = grow[q]
                               /\ orphan'[q] = orphan[q]
      /\ DOMAIN orphan' = Proc
  BY <1>1, <1>3, <1>4 DEF SpaceTypes, g
<1>9. SpaceTypes'
  <2>1. symrg'[p] \in Table  BY <1>1, <1>5, <1>8, SMTT(40) DEF Table, Region, Rg
  <2>2. symrg' \in [Proc -> Table]  BY <2>1, <1>3, <1>8, <1>1 DEF SpaceTypes
  <2>3. vma' \in [Proc -> [vm_end : Nat, sbrk : Nat]]
    <3>1. [vm_end |-> old + inc, sbrk |-> old + inc] \in [vm_end : Nat, sbrk : Nat]
      BY <1>5, <1>6
    <3> QED  BY <3>1, <1>1, <1>3 DEF SpaceTypes
  <2>4. PICK S : grow \in [Proc -> [need : Nat, got : Seq(S), from : Nat]]
    BY <1>1 DEF SpaceTypes
  <2>5. grow' \in [Proc -> [need : Nat, got : Seq(S), from : Nat]]
    BY <2>4, <1>3, <1>4, <1>7 DEF g
  <2> QED  BY <2>2, <2>3, <2>5, <1>1, <1>3, <1>8 DEF SpaceTypes
<1>10. SpaceInv(p)'
  <2>1. SpaceOK(symrg'[p], freerg[p], orphan'[p], old + size)
    <3>1. SpaceOK(symrg[p], freerg[p], orphan[p], old)  BY <1>1, <1>5 DEF SpaceInv
    <3>2. SpaceOK([symrg[p] EXCEPT ![r] = Region(old, old + size)],
                  freerg[p], orphan[p] \cup Bytes(symrg[p][r]), old + size)
      BY <3>1, <1>1, <1>5, SpaceExtend, Zenon
    <3> QED  BY <3>2, <1>8, Zenon
  <2>2. Top(p)' = Top(p) + k /\ Limit(p)' = old + size
    BY <1>2, <1>6, <1>7, <1>8 DEF Top, Limit
  <2>3. GrowOK(p)'
    <3>1. (old + size) % 2 = 0 /\ old + size <= old + inc
      <4>1. \A a, b \in Nat : a % 2 = 0 /\ b % 2 = 0 => (a + b) % 2 = 0  OBVIOUS
      <4>2. \A a, b, c \in Nat : b <= c => a + b <= a + c  OBVIOUS
      <4> QED  BY <4>1, <4>2, <1>1, <1>2a, <1>5, <1>6
    <3>2. Len(<<>>) = 0  OBVIOUS
    <3>3. /\ vma'[p].sbrk = old + inc /\ vma'[p].vm_end = old + inc
          /\ grow'[p].need = k /\ Len(grow'[p].got) = 0
      BY <3>2, <1>7, <1>8
    <3>4. k <= Top(p) + k /\ 0 <= k /\ k # 0  BY <1>1, <1>2
    <3> QED  BY <3>1, <3>3, <3>4, <2>2, <1>6 DEF GrowOK
  <2>4. PagesOK(p)'
    <3>1. grow[p].need = 0  BY DEF NoGrow, Growing
    <3>2. ASSUME NEW n \in Page, n + k < Top(p) + k PROVE pgd[p][n].present
      <4>1. n + grow[p].need < Top(p)  BY <3>1, <3>2, <1>1, <1>2 DEF Page
      <4> QED  BY <4>1, <1>1 DEF PagesOK
    <3> QED  BY <3>2, <2>2, <1>3, <1>7, <1>8 DEF PagesOK
  <2> QED  BY <2>1, <2>2, <2>3, <2>4, <1>3 DEF SpaceInv
<1>11. ASSUME NEW q \in Proc \ {p} PROVE SpaceInv(q)'
  BY <1>3, <1>8, SpaceUntouched DEF SInv
<1> QED  BY <1>9, <1>10, <1>11 DEF SInv

\* alloc_pages_range has one more frame
LEMMA OneMore ==
    ASSUME NEW S, grow \in [Proc -> [need : Nat, got : Seq(S), from : Nat]],
           NEW p \in Proc, NEW f, grow' = [grow EXCEPT ![p].got = Append(@, f)]
    PROVE  /\ grow'[p].need = grow[p].need /\ grow'[p].from = grow[p].from
           /\ grow'[p].got = Append(grow[p].got, f)
           /\ Len(grow'[p].got) = Len(grow[p].got) + 1
           /\ grow' \in [Proc -> [need : Nat, got : Seq(S \cup {f}), from : Nat]]
           /\ \A q \in Proc \ {p} : grow'[q] = grow[q]
<1>1. grow'[p] = [grow[p] EXCEPT !.got = Append(@, f)]  OBVIOUS
<1>2. /\ grow'[p].need = grow[p].need /\ grow'[p].from = grow[p].from
      /\ grow'[p].got = Append(grow[p].got, f)
  BY <1>1
<1>3. /\ grow[p].got \in Seq(S) /\ Seq(S) \subseteq Seq(S \cup {f})  OBVIOUS
<1>4. /\ Append(grow[p].got, f) \in Seq(S \cup {f})
      /\ Len(Append(grow[p].got, f)) = Len(grow[p].got) + 1
  BY <1>3
<1>5. \A q \in Proc : grow'[q] \in [need : Nat, got : Seq(S \cup {f}), from : Nat]
  <2>1. grow'[p] \in [need : Nat, got : Seq(S \cup {f}), from : Nat]
    BY <1>1, <1>4
  <2>2. ASSUME NEW q \in Proc \ {p}
        PROVE  grow'[q] \in [need : Nat, got : Seq(S \cup {f}), from : Nat]
    <3>1. grow'[q] = grow[q]  OBVIOUS
    <3>2. grow[q] \in [need : Nat, got : Seq(S), from : Nat]  OBVIOUS
    <3> QED  BY <3>1, <3>2, <1>3
  <2> QED  BY <2>1, <2>2
<1> QED  BY <1>2, <1>4, <1>5

\* A frame more or less changes no address space
LEMMA SpaceTakeFrame ==
    ASSUME SInv, NEW p \in Proc, TakeFrame(p)
    PROVE  SInv'
<1> DEFINE f == Head(ramfree)
<1>1. /\ Lacking(p)
      /\ grow' = [grow EXCEPT ![p].got = Append(@, f)]
      /\ UNCHANGED <<vma, symrg, freerg, pgd, orphan>>
  BY DEF TakeFrame, space
<1>2. SpaceTypes /\ SpaceInv(p)  BY DEF SInv
<1> HIDE DEF f
<1>3. PICK S : grow \in [Proc -> [need : Nat, got : Seq(S), from : Nat]]
  BY <1>2 DEF SpaceTypes
<1>4. /\ grow'[p].need = grow[p].need /\ grow'[p].from = grow[p].from
      /\ Len(grow'[p].got) = Len(grow[p].got) + 1
      /\ grow' \in [Proc -> [need : Nat, got : Seq(S \cup {f}), from : Nat]]
      /\ \A q \in Proc \ {p} : grow'[q] = grow[q]
  BY <1>1, <1>3, OneMore
<1>5. SpaceTypes'  BY <1>1, <1>2, <1>4 DEF SpaceTypes
<1>6. SpaceInv(p)'
  <2>1. Len(grow[p].got) < grow[p].need  BY <1>1 DEF Lacking
  <2>2. /\ Len(grow[p].got) \in Nat /\ grow[p].need \in Nat  BY <1>3
  <2>3. Limit(p)' = Limit(p) /\ Top(p)' = Top(p)  BY <1>1, <1>4 DEF Limit, Top
  <2>4. SpaceOK(symrg[p], freerg[p], orphan[p], Limit(p))'
    BY <1>1, <1>2, <2>3 DEF SpaceInv
  <2>5. GrowOK(p)'
    <3>1. Len(grow'[p].got) <= grow'[p].need /\ grow'[p].need # 0
      BY <2>1, <2>2, <1>4
    <3> QED  BY <3>1, <2>3, <1>1, <1>2, <1>4 DEF SpaceInv, GrowOK
  <2>6. PagesOK(p)'  BY <2>3, <1>1, <1>2, <1>4 DEF SpaceInv, PagesOK
  <2> QED  BY <2>4, <2>5, <2>6 DEF SpaceInv
<1>7. ASSUME NEW q \in Proc \ {p} PROVE SpaceInv(q)'
  BY <1>1, <1>4, SpaceUntouched DEF SInv
<1> QED  BY <1>5, <1>6, <1>7 DEF SInv

\* vm_map_ram maps the new pages; the rest of the last one becomes free
LEMMA SpaceMapPages ==
    ASSUME SInv, NEW p \in Proc, MapPages(p)
    PROVE  SInv'
<1> DEFINE num == grow[p].need
           top == Top(p)
           pgn == top - num
           from == grow[p].from
           end == vma[p].sbrk
           rest == Region(from, end)
           got == grow[p].got
<1>1. /\ SpaceTypes /\ SpaceInv(p) /\ GrowOK(p) /\ PagesOK(p)
      /\ freerg[p] \in Seq(Rg) /\ symrg[p] \in Table
      /\ num \in Nat /\ from \in Nat /\ end \in Nat /\ top \in Nat
      /\ Len(got) \in Nat
  BY SpaceParts DEF SInv, SpaceInv
<1>2. /\ grow[p] # NoGrow /\ ~Lacking(p)
      /\ pgd' = [pgd EXCEPT ![p] = MapFrames(p, pgn, got)]
      /\ freerg' = IF from < end THEN [freerg EXCEPT ![p] = <<rest>> \o @] ELSE freerg
      /\ grow' = [grow EXCEPT ![p] = NoGrow]
      /\ UNCHANGED <<vma, symrg, orphan>>
  BY DEF MapPages, Top, Region
<1>3. /\ num # 0 /\ num <= top /\ Len(got) = num
      /\ Limit(p) = from /\ from <= end /\ from % 2 = 0 /\ end % 2 = 0
  <2>1. num # 0  BY <1>1, <1>2 DEF GrowOK
  <2>2. Len(got) = num  BY <1>1, <1>2 DEF GrowOK, Lacking
  <2> QED  BY <2>1, <2>2, <1>1 DEF GrowOK, Limit
<1>4. /\ SpaceOK(symrg[p], freerg'[p], orphan[p], end)
      /\ freerg'[p] \in Seq(Rg)
      /\ freerg' \in [Proc -> Seq(Rg)]
      /\ \A q \in Proc \ {p} : freerg'[q] = freerg[q]
  <2>1. SpaceOK(symrg[p], freerg[p], orphan[p], from)  BY <1>1, <1>3 DEF SpaceInv
  <2>2. CASE from < end
    <3>1. freerg'[p] = <<rest>> \o freerg[p]  BY <2>2, <1>1, <1>2 DEF SpaceTypes
    <3>2. /\ <<rest>> \o freerg[p] \in Seq(Rg)
          /\ SpaceOK(symrg[p], <<rest>> \o freerg[p], orphan[p], end)
      BY <2>1, <2>2, <1>1, <1>3, SpaceRest, Zenon
    <3> HIDE DEF rest, from, end
    <3>3. freerg'[p] \in Seq(Rg) /\ SpaceOK(symrg[p], freerg'[p], orphan[p], end)
      BY <3>1, <3>2, Zenon
    <3>4. \A q \in Proc \ {p} : freerg'[q] = freerg[q]  BY <2>2, <1>2, <1>1 DEF SpaceTypes
    <3>5. freerg' = [q \in Proc |-> freerg'[q]]  BY <2>2, <1>2, <1>1 DEF SpaceTypes
    <3>6. freerg' \in [Proc -> Seq(Rg)]  BY <3>3, <3>4, <3>5, <1>1 DEF SpaceTypes
    <3> QED  BY <3>3, <3>4, <3>6
  <2>3. CASE ~(from < end)
    <3>1. from = end /\ freerg' = freerg  BY <2>3, <1>1, <1>2, <1>3
    <3> QED  BY <3>1, <2>1, <1>1 DEF SpaceTypes
  <2> QED  BY <2>2, <2>3
<1>5. /\ grow'[p] = NoGrow /\ NoGrow.need = 0 /\ NoGrow.from = 0 /\ NoGrow.got = <<>>
      /\ \A q \in Proc \ {p} : grow'[q] = grow[q]
      /\ \E S : grow' \in [Proc -> [need : Nat, got : Seq(S), from : Nat]]
  <2>1. PICK S : grow \in [Proc -> [need : Nat, got : Seq(S), from : Nat]]
    BY <1>1 DEF SpaceTypes
  <2>2. NoGrow \in [need : Nat, got : Seq(S), from : Nat]  BY DEF NoGrow, Growing
  <2>3. NoGrow.need = 0 /\ NoGrow.from = 0 /\ NoGrow.got = <<>>  BY DEF NoGrow, Growing
  <2>4. grow' \in [Proc -> [need : Nat, got : Seq(S), from : Nat]]
    BY <2>1, <2>2, <1>2
  <2>5. grow'[p] = NoGrow /\ \A q \in Proc \ {p} : grow'[q] = grow[q]  BY <2>1, <1>2
  <2> QED  BY <2>3, <2>4, <2>5
<1>6. /\ DOMAIN pgd' = Proc /\ \A q \in Proc : DOMAIN pgd'[q] = Page
      /\ pgd'[p] = MapFrames(p, pgn, got)
      /\ \A q \in Proc \ {p} : pgd'[q] = pgd[q]
  <2>1. DOMAIN MapFrames(p, pgn, got) = Page  BY DEF MapFrames
  <2> QED  BY <2>1, <1>1, <1>2 DEF SpaceTypes
<1>7. SpaceTypes'  BY <1>1, <1>2, <1>4, <1>5, <1>6 DEF SpaceTypes
<1>8. SpaceInv(p)'
  <2>1. Limit(p)' = end /\ Top(p)' = top  BY <1>2, <1>5 DEF Limit, Top
  <2>2. SpaceOK(symrg[p], freerg[p], orphan[p], Limit(p))'
    BY <1>2, <1>4, <2>1
  <2>3. GrowOK(p)'
    <3>1. Len(NoGrow.got) = 0 /\ end <= end  BY <1>1, <1>5
    <3> QED  BY <3>1, <2>1, <1>1, <1>2, <1>3, <1>5 DEF GrowOK
  <2>4. PagesOK(p)'
    <3> SUFFICES ASSUME NEW n \in Page, n + NoGrow.need < top PROVE pgd'[p][n].present
      BY <2>1, <1>5 DEF PagesOK
    <3>1. n \in Int /\ n < top  BY <1>5 DEF Page
    <3>2. CASE n \in pgn .. pgn + Len(got) - 1
      <4>1. pgd'[p][n] = pte_set_fpn(pgd[p][n], got[Len(got) - (n - pgn)])
        BY <3>2, <1>6 DEF MapFrames
      <4> QED  BY <4>1 DEF pte_set_fpn
    <3>3. CASE n \notin pgn .. pgn + Len(got) - 1
      <4>1. pgd'[p][n] = pgd[p][n]  BY <3>3, <1>6 DEF MapFrames
      <4>2. n + num < top  BY <3>1, <3>3, <1>1, <1>3, SMTT(40)
      <4> QED  BY <4>1, <4>2, <1>1 DEF PagesOK
    <3> QED  BY <3>2, <3>3
  <2> QED  BY <2>2, <2>3, <2>4 DEF SpaceInv
<1>9. ASSUME NEW q \in Proc \ {p} PROVE SpaceInv(q)'
  BY <1>2, <1>4, <1>5, <1>6, SpaceUntouched DEF SInv
<1> QED  BY <1>7, <1>8, <1>9 DEF SInv

\* __free, for the process itself or for the target of killall
LEMMA SpaceFreeRegion ==
    ASSUME SInv, NEW p \in Proc, NEW r \in RgId, FreeRegion(p, r),
           UNCHANGED <<vma, grow, pgd, orphan>>
    PROVE  SInv'
<1>1. /\ SpaceTypes /\ SpaceInv(p)
      /\ symrg[p] \in Table /\ freerg[p] \in Seq(Rg) /\ Limit(p) \in Nat
  BY SpaceParts DEF SInv
<1>2. PICK m : m = Merged(symrg[p][r], freerg[p])  OBVIOUS
<1>3. PICK list : list = <<m.new>> \o m.kept  OBVIOUS
<1>4. /\ freerg' = [freerg EXCEPT ![p] = list]
      /\ symrg' = [symrg EXCEPT ![p][r] = Region(0, 0)]
  BY <1>2, <1>3 DEF FreeRegion
<1>5. /\ list \in Seq(Rg)
      /\ SpaceOK([symrg[p] EXCEPT ![r] = Region(0, 0)], list, orphan[p], Limit(p))
  <2>1. SpaceOK(symrg[p], freerg[p], orphan[p], Limit(p))  BY <1>1 DEF SpaceInv
  <2>2. /\ <<Merged(symrg[p][r], freerg[p]).new>> \o Merged(symrg[p][r], freerg[p]).kept \in Seq(Rg)
        /\ SpaceOK([symrg[p] EXCEPT ![r] = Region(0, 0)],
                   <<Merged(symrg[p][r], freerg[p]).new>> \o Merged(symrg[p][r], freerg[p]).kept,
                   orphan[p], Limit(p))
    BY <2>1, <1>1, SpaceFree, Zenon
  <2> QED  BY <2>2, <1>2, <1>3, Zenon
<1>6. /\ freerg'[p] = list
      /\ symrg'[p] = [symrg[p] EXCEPT ![r] = Region(0, 0)]
      /\ \A q \in Proc \ {p} : freerg'[q] = freerg[q] /\ symrg'[q] = symrg[q]
  BY <1>1, <1>4 DEF SpaceTypes
<1>7. SpaceTypes'
  <2>1. Region(0, 0) \in Rg  BY DEF Region, Rg
  <2>2. symrg'[p] \in Table  BY <2>1, <1>1, <1>6 DEF Table
  <2>3. symrg' \in [Proc -> Table]  BY <2>2, <1>1, <1>4, <1>6 DEF SpaceTypes
  <2>4. freerg' \in [Proc -> Seq(Rg)]  BY <1>1, <1>4, <1>5 DEF SpaceTypes
  <2> QED  BY <2>3, <2>4, <1>1 DEF SpaceTypes
<1>8. SpaceInv(p)'
  <2>1. Limit(p)' = Limit(p) /\ Top(p)' = Top(p)  BY DEF Limit, Top
  <2>2. SpaceOK(symrg'[p], freerg'[p], orphan[p], Limit(p))  BY <1>5, <1>6, Zenon
  <2>3. GrowOK(p)' /\ PagesOK(p)'  BY <1>1, <2>1 DEF SpaceInv, GrowOK, PagesOK
  <2> QED  BY <2>1, <2>2, <2>3 DEF SpaceInv
<1>9. ASSUME NEW q \in Proc \ {p} PROVE SpaceInv(q)'
  BY <1>6, SpaceUntouched DEF SInv
<1> QED  BY <1>7, <1>8, <1>9 DEF SInv

\* READ and WRITE unmap no page, stray or not
LEMMA SpaceAccess ==
    ASSUME SInv, NEW p \in Proc, NEW r, NEW off, NEW v, Access(p, r, off, v)
    PROVE  SInv'
<1>1. PICK n \in Page : \/ AccessPresent(p, n, v)
                        \/ AccessWild(p, n)
                        \/ AccessFault(p, n, v)
                        \/ AccessUndefined(p, n)
  BY DEF Access
<1>2. UNCHANGED <<space, grow, orphan>>
  BY <1>1 DEF AccessPresent, AccessWild, AccessFault, AccessUndefined
<1>3. SpaceTypes  BY DEF SInv
<1>4. /\ DOMAIN pgd' = DOMAIN pgd
      /\ \A q \in Proc : DOMAIN pgd'[q] = DOMAIN pgd[q]
      /\ \A q \in Proc : \A m \in Page : pgd[q][m].present => pgd'[q][m].present
  <2>1. CASE pgd' = pgd  BY <2>1
  <2>2. CASE AccessFault(p, n, v)
    <3> DEFINE vic == Last(fifo[p])
               pte1 == pte_set_swap(pgd[p][vic], Head(swpfree))
               pte2 == pte_set_fpn(pgd[p][n], PAGING_FPN(pgd[p][vic]))
    <3>1. pgd' = [pgd EXCEPT ![p][vic] = pte1, ![p][n] = pte2]
      BY <2>2 DEF AccessFault
    <3>2. pte1.present /\ pte2.present  BY DEF pte_set_swap, pte_set_fpn
    <3> HIDE DEF vic, pte1, pte2
    <3> QED  BY <3>1, <3>2, <1>3 DEF SpaceTypes
  <2> QED  BY <2>1, <2>2, <1>1 DEF AccessPresent, AccessWild, AccessUndefined, paging
<1> QED  BY <1>2, <1>4, SpaceQuiet

\* Every step keeps the invariant
LEMMA SpaceNext == ASSUME EvenSizes, SInv, [Next]_vars PROVE SInv'
<1>1. CASE UNCHANGED <<space, grow, pgd, orphan>>
  BY <1>1, SpaceQuiet
<1>2. ASSUME NEW p \in Proc, grow[p] = NoGrow, NEW r \in RgId, NEW size \in Size,
             Alloc(p, r, size)
      PROVE  SInv'
  BY <1>2, SpaceAllocFree, SpaceAllocBrk DEF Alloc
<1>3. ASSUME NEW p \in Proc, TakeFrame(p) \/ NoFrame(p) \/ MapPages(p)
      PROVE  SInv'
  BY <1>1, <1>3, SpaceTakeFrame, SpaceMapPages DEF NoFrame, paging
<1>4. ASSUME NEW p \in Proc, NEW r \in RgId, Free(p, r) PROVE SInv'
  BY <1>4, SpaceFreeRegion DEF Free, paging
<1>5. ASSUME NEW p \in Proc, NEW r \in RgId, NEW off, NEW v, Access(p, r, off, v)
      PROVE  SInv'
  BY <1>5, SpaceAccess
<1>6. ASSUME NEW p \in Proc, Finish(p) PROVE SInv'
  BY <1>6, <1>1 DEF Finish, paging
<1>7. ASSUME NEW p \in Proc, NEW q \in Proc, NEW r \in RgId, Kill(p, q, r) PROVE SInv'
  <2>1. UNCHANGED <<vma, grow, pgd, orphan>>  BY <1>7 DEF Kill
  <2>2. CASE FreeRegion(q, r)  BY <2>1, <2>2, SpaceFreeRegion
  <2>3. CASE UNCHANGED <<freerg, symrg>>  BY <2>1, <2>3, <1>1 DEF space
  <2> QED  BY <1>7, <2>2, <2>3 DEF Kill
<1>8. CASE Next
  <2>1. PICK p \in Proc : \/ Instruction(p)
                          \/ Finish(p)
                          \/ \E q \in Proc, r \in RgId : Kill(p, q, r)
    BY <1>8 DEF Next
  <2>2. CASE Instruction(p)  BY <2>2, <1>2, <1>3, <1>4, <1>5 DEF Instruction
  <2> QED  BY <2>1, <2>2, <1>6, <1>7
<1>9. CASE UNCHANGED vars  BY <1>1, <1>9 DEF vars, paging
<1> QED  BY <1>8, <1>9

\* The invariant holds in every behaviour
LEMMA SpaceAlways == ASSUME EvenSizes PROVE Spec => []SInv
<1>1. Init => SInv  BY SpaceInit
<1>2. SInv /\ [Next]_vars => SInv'  BY SpaceNext
<1> QED  BY <1>1, <1>2, PTL DEF Spec

----------------------------------------------------------------------------
(* What follows from the invariant.                                        *)

\* The regions, the free list and the orphaned bytes are apart
LEMMA SInvOneOwner == ASSUME SInv PROVE OneOwner
<1> SUFFICES ASSUME NEW p \in Proc, NEW o1 \in Owned(p), NEW o2 \in Owned(p), o1 # o2,
                    NEW b \in BytesOf(p, o1), b \in BytesOf(p, o2)
             PROVE  FALSE
  BY DEF OneOwner
<1> DEFINE sym == symrg[p]
           list == freerg[p]
<1>1. SpaceOK(sym, list, orphan[p], Limit(p)) /\ sym \in Table /\ list \in Seq(Rg)
  BY SpaceParts DEF SInv, SpaceInv
<1>2. DOMAIN list = 1 .. Len(list)  BY <1>1
<1> HIDE DEF sym, list
<1> DEFINE Has(o) == \/ \E r \in RgId : o = <<"region", r>> /\ b \in Bytes(sym[r])
                     \/ \E i \in 1 .. Len(list) : o = <<"free", i>> /\ b \in Bytes(list[i])
                     \/ o = <<"orphan", 0>> /\ b \in orphan[p]
<1>3. ASSUME NEW o \in Owned(p), b \in BytesOf(p, o) PROVE Has(o)
  <2>1. CASE \E r \in RgId : o = <<"region", r>>
    <3>1. PICK r \in RgId : o = <<"region", r>>  BY <2>1
    <3>2. b \in Bytes(sym[r])  BY <3>1, <1>3 DEF BytesOf, sym
    <3> QED  BY <3>1, <3>2
  <2>2. CASE \E i \in 1 .. Len(list) : o = <<"free", i>>
    <3>1. PICK i \in 1 .. Len(list) : o = <<"free", i>>  BY <2>2
    <3>2. b \in Bytes(list[i])  BY <3>1, <1>3 DEF BytesOf, list
    <3> QED  BY <3>1, <3>2
  <2>3. CASE o = <<"orphan", 0>>  BY <2>3, <1>3 DEF BytesOf
  <2> QED  BY <2>1, <2>2, <2>3, <1>2 DEF Owned, list
<1>4. Has(o1) /\ Has(o2)  BY <1>3
<1>5. /\ \A r \in RgId : sym[r] \in Rg
      /\ \A i \in 1 .. Len(list) : list[i] \in Rg
      /\ \A c \in orphan[p] : c \in 0 .. Limit(p) - 1
  BY <1>1 DEF Table, SpaceOK
<1>6. /\ \A r \in RgId : b \in Bytes(sym[r]) => b \in Nat /\ In(b, sym[r])
      /\ \A i \in 1 .. Len(list) : b \in Bytes(list[i]) => b \in Nat /\ In(b, list[i])
  BY <1>5, BytesIn
<1>7. CASE \E r \in RgId : o1 = <<"region", r>> /\ b \in Bytes(sym[r])
  BY <1>1, <1>4, <1>6, <1>7 DEF SpaceOK, Disjoint
<1>8. CASE \E i \in 1 .. Len(list) : o1 = <<"free", i>> /\ b \in Bytes(list[i])
  BY <1>1, <1>4, <1>6, <1>8 DEF SpaceOK, Disjoint, DisjointList
<1>9. CASE o1 = <<"orphan", 0>> /\ b \in orphan[p]
  BY <1>1, <1>4, <1>6, <1>9 DEF SpaceOK
<1> QED  BY <1>4, <1>7, <1>8, <1>9

\* ... and cover what is given out
LEMMA SInvNothingLost == ASSUME SInv PROVE NothingLost
<1> SUFFICES ASSUME NEW p \in Proc, grow[p] = NoGrow
             PROVE  UNION {BytesOf(p, o) : o \in Owned(p)} = 0 .. vma[p].sbrk - 1
  BY DEF NothingLost
<1>1. /\ SpaceOK(symrg[p], freerg[p], orphan[p], Limit(p))
      /\ symrg[p] \in Table /\ freerg[p] \in Seq(Rg) /\ Limit(p) \in Nat
  BY SpaceParts DEF SInv, SpaceInv
<1>2. Limit(p) = vma[p].sbrk  BY DEF Limit, NoGrow, Growing
<1>3. DOMAIN freerg[p] = 1 .. Len(freerg[p])  BY <1>1
<1>4. ASSUME NEW o \in Owned(p), NEW b \in BytesOf(p, o) PROVE b \in 0 .. Limit(p) - 1
  <2>1. \A rg : Within(rg, Bounds(Limit(p))) => \A c \in Bytes(rg) : c \in 0 .. Limit(p) - 1
    BY <1>1 DEF Within, Bounds, Bytes, Rg
  <2>2. CASE \E r \in RgId : o = <<"region", r>>
    <3>1. PICK r \in RgId : o = <<"region", r>>  BY <2>2
    <3>2. b \in Bytes(symrg[p][r])  BY <3>1, <1>4 DEF BytesOf
    <3> QED  BY <3>2, <2>1, <1>1 DEF SpaceOK
  <2>3. CASE \E i \in 1 .. Len(freerg[p]) : o = <<"free", i>>
    <3>1. PICK i \in 1 .. Len(freerg[p]) : o = <<"free", i>>  BY <2>3
    <3>2. b \in Bytes(freerg[p][i])  BY <3>1, <1>4 DEF BytesOf
    <3> QED  BY <3>2, <2>1, <1>1 DEF SpaceOK
  <2>4. CASE o = <<"orphan", 0>>
    <3>1. b \in orphan[p]  BY <2>4, <1>4 DEF BytesOf
    <3> QED  BY <3>1, <1>1 DEF SpaceOK
  <2> QED  BY <2>2, <2>3, <2>4, <1>3 DEF Owned
<1>5. ASSUME NEW b \in 0 .. Limit(p) - 1 PROVE \E o \in Owned(p) : b \in BytesOf(p, o)
  <2>1. b \in Nat  BY <1>1
  <2>2. CASE b \in orphan[p]
    <3>1. <<"orphan", 0>> \in Owned(p) /\ b \in BytesOf(p, <<"orphan", 0>>)
      BY <2>2 DEF Owned, BytesOf
    <3> QED  BY <3>1
  <2>3. ASSUME NEW r \in RgId, In(b, symrg[p][r]) PROVE \E o \in Owned(p) : b \in BytesOf(p, o)
    <3>1. b \in Bytes(symrg[p][r])  BY <2>1, <2>3, <1>1, BytesIn DEF Table
    <3>2. <<"region", r>> \in Owned(p) /\ b \in BytesOf(p, <<"region", r>>)
      BY <3>1 DEF Owned, BytesOf
    <3> QED  BY <3>2
  <2>4. ASSUME NEW i \in 1 .. Len(freerg[p]), In(b, freerg[p][i])
        PROVE  \E o \in Owned(p) : b \in BytesOf(p, o)
    <3>1. b \in Bytes(freerg[p][i])  BY <2>1, <2>4, <1>1, BytesIn
    <3>2. <<"free", i>> \in Owned(p) /\ b \in BytesOf(p, <<"free", i>>)
      BY <3>1, <1>3 DEF Owned, BytesOf
    <3> QED  BY <3>2
  <2> QED  BY <2>2, <2>3, <2>4, <1>1 DEF SpaceOK
<1> QED  BY <1>2, <1>4, <1>5

\* ... and when no extension is under way, all of it is mapped
LEMMA SInvRegionsMapped == ASSUME SInv PROVE RegionsMapped
<1> SUFFICES ASSUME NEW p \in Proc, grow[p] = NoGrow,
                    NEW r \in RgId, NEW a \in Bytes(symrg[p][r])
             PROVE  a \div PAGESZ \in Page /\ pgd[p][a \div PAGESZ].present
  BY DEF RegionsMapped
<1>1. /\ SpaceOK(symrg[p], freerg[p], orphan[p], Limit(p)) /\ GrowOK(p) /\ PagesOK(p)
      /\ Top(p) \in Nat /\ MaxPgn \in Nat /\ PAGESZ \in Nat \ {0}
  BY SpaceParts, VMemAssumption DEF SInv, SpaceInv
<1>2. grow[p].need = 0 /\ Limit(p) = Top(p) * PAGESZ
  BY <1>1 DEF GrowOK, Limit, NoGrow, Growing
<1>3. a \in Nat /\ a < Top(p) * PAGESZ
  <2>1. Within(symrg[p][r], Bounds(Limit(p)))  BY <1>1 DEF SpaceOK
  <2>2. \A n : Within(symrg[p][r], Bounds(n)) => a \in Nat /\ (n \in Nat => a < n)
    BY DEF Within, Bounds, Bytes, Rg
  <2>3. Limit(p) \in Nat  BY SpaceParts DEF SInv
  <2> QED  BY <2>1, <2>2, <2>3, <1>2
<1>4. a \div PAGESZ \in Nat /\ a \div PAGESZ < Top(p)  BY <1>1, <1>3, DivLess
<1>5. Top(p) <= MaxPgn  BY <1>1 DEF GrowOK
<1> DEFINE n == a \div PAGESZ
<1> HIDE DEF n
<1>6. n \in Page /\ n + 0 < Top(p)  BY <1>1, <1>4, <1>5 DEF Page, n
<1> QED  BY <1>1, <1>2, <1>6 DEF PagesOK, n

\* However the processes allocate, free, stray, end and are killed, no byte of
\* an address space belongs to two live regions, or to a region and the free
\* list at once (get_free_vmrg_area, __alloc, __free)
THEOREM OneOwnerThm == ASSUME EvenSizes PROVE Spec => []OneOwner
<1>1. SInv => OneOwner  BY SInvOneOwner
<1> QED  BY <1>1, SpaceAlways, PTL

\* ... and every byte below sbrk is in a region, in the free list, or in one
\* whose id the program allocated anew, so that __alloc can hand it out again
THEOREM NothingLostThm == ASSUME EvenSizes PROVE Spec => []NothingLost
<1>1. SInv => NothingLost  BY SInvNothingLost
<1> QED  BY <1>1, SpaceAlways, PTL

\* ... and every byte of a region has a page table entry that is present, so
\* pg_getpage never faults for an access inside a region (vmap_page_range)
THEOREM RegionsMappedThm == ASSUME EvenSizes PROVE Spec => []RegionsMapped
<1>1. SInv => RegionsMapped  BY SInvRegionsMapped
<1> QED  BY <1>1, SpaceAlways, PTL

----------------------------------------------------------------------------
(* The free list is coarse.                                                *)

\* Without kills: killall may free the region its target is just extending its
\* area for, and vm_map_ram then puts the rest of the page next to it
NoKills == MaxKills = 0

Empty(rg) == rg.start >= rg.end

\* Two regions that do not touch
Apart(rg, rh) == Empty(rg) \/ Empty(rh) \/ (rg.end # rh.start /\ rh.end # rg.start)

ApartList(list) == \A i, j \in 1 .. Len(list) : i # j => Apart(list[i], list[j])

\* The region p extends its area for lies between the free list and the rest
\* of its last page
CoarseInv(p) ==
    /\ ApartList(freerg[p])
    /\ grow[p].need # 0 =>
          \A i \in 1 .. Len(freerg[p]) : Empty(freerg[p][i]) \/ freerg[p][i].end < grow[p].from

CInv == SInv /\ killed = {} /\ \A p \in Proc : CoarseInv(p)

\* What the loop of __free has made of rg and the first k elements of the list
\* touches nothing but elements to come
Coarsening(acc, list, k) ==
    /\ acc \in [new : Rg, kept : Seq(Rg)]
    /\ ~Empty(acc.new)
    /\ \A i \in 1 .. Len(acc.kept) : Apart(acc.new, acc.kept[i])
    /\ ApartList(acc.kept)
    /\ \A i \in 1 .. Len(acc.kept) : \A j \in k + 1 .. Len(list) : Apart(acc.kept[i], list[j])

\* One round of the loop of __free
LEMMA CoarseningStep ==
    ASSUME NEW list \in Seq(Rg), NEW k \in 0 .. Len(list) - 1,
           \A i \in 1 .. Len(list) : list[i].start <= list[i].end,
           ApartList(list),
           NEW acc, Coarsening(acc, list, k)
    PROVE  Coarsening(Merge(acc, list[k + 1]), list, k + 1)
<1> DEFINE cur == list[k + 1]
           K == 1 .. Len(acc.kept)
<1>1. cur \in Rg /\ cur.start <= cur.end  OBVIOUS
<1>2. /\ acc \in [new : Rg, kept : Seq(Rg)] /\ ~Empty(acc.new)
      /\ \A i \in K : Apart(acc.new, acc.kept[i])
      /\ \A i \in K : acc.kept[i] \in Rg
      /\ ApartList(acc.kept)
  BY DEF Coarsening
<1>3. /\ \A i \in K : Apart(acc.kept[i], cur)
      /\ \A i \in K : \A j \in k + 2 .. Len(list) : Apart(acc.kept[i], list[j])
      /\ \A j \in k + 2 .. Len(list) : Apart(cur, list[j])
  <2>1. k + 1 \in k + 1 .. Len(list)  OBVIOUS
  <2>2. \A j \in k + 2 .. Len(list) : j \in k + 1 .. Len(list) /\ j \in 1 .. Len(list) /\ j # k + 1
    OBVIOUS
  <2>3. k + 1 \in 1 .. Len(list)  OBVIOUS
  <2> QED  BY <2>1, <2>2, <2>3 DEF Coarsening, ApartList
<1> HIDE DEF cur, K
<1>4. CASE acc.new.end = cur.start
  <2> DEFINE m == [new |-> [start |-> acc.new.start, end |-> cur.end], kept |-> acc.kept]
  <2>1. Merge(acc, cur) = m  BY <1>2, <1>4 DEF Merge, Rg
  <2>2. m.new \in Rg /\ ~Empty(m.new)  BY <1>1, <1>2, <1>4, SMTT(40) DEF Empty, Rg
  <2>3. \A i \in K : Apart(m.new, m.kept[i])
    BY <1>1, <1>2, <1>3, <1>4, SMTT(40) DEF Apart, Empty, Rg
  <2>4. m.kept = acc.kept /\ m \in [new : Rg, kept : Seq(Rg)]  BY <1>2, <2>2
  <2> HIDE DEF m
  <2>5. k + 1 + 1 = k + 2  OBVIOUS
  <2> QED  BY <1>2, <1>3, <2>1, <2>2, <2>3, <2>4, <2>5 DEF Coarsening, cur, K
<1>5. CASE acc.new.end # cur.start /\ acc.new.start = cur.end
  <2> DEFINE m == [new |-> [start |-> cur.start, end |-> acc.new.end], kept |-> acc.kept]
  <2>1. Merge(acc, cur) = m  BY <1>2, <1>5 DEF Merge, Rg
  <2>2. m.new \in Rg /\ ~Empty(m.new)  BY <1>1, <1>2, <1>5 DEF Empty, Rg
  <2>3. \A i \in K : Apart(m.new, m.kept[i])
    BY <1>1, <1>2, <1>3, <1>5, SMTT(40) DEF Apart, Empty, Rg
  <2>4. m.kept = acc.kept /\ m \in [new : Rg, kept : Seq(Rg)]  BY <1>2, <2>2
  <2> HIDE DEF m
  <2>5. k + 1 + 1 = k + 2  OBVIOUS
  <2> QED  BY <1>2, <1>3, <2>1, <2>2, <2>3, <2>4, <2>5 DEF Coarsening, cur, K
<1>6. CASE acc.new.end # cur.start /\ acc.new.start # cur.end
  <2> DEFINE m == [new |-> acc.new, kept |-> Append(acc.kept, cur)]
             n == Len(acc.kept)
  <2>1. Merge(acc, cur) = m  BY <1>2, <1>6 DEF Merge
  <2>2. /\ m \in [new : Rg, kept : Seq(Rg)]
        /\ Len(m.kept) = n + 1 /\ n \in Nat
        /\ m.kept[n + 1] = cur
        /\ \A i \in 1 .. n : m.kept[i] = acc.kept[i]
    BY <1>1, <1>2
  <2>3. m.new = acc.new  OBVIOUS
  <2> HIDE DEF m
  <2>4. 1 .. n + 1 = (1 .. n) \cup {n + 1} /\ K = 1 .. n  BY <2>2 DEF K
  <2>5. Apart(acc.new, cur)  BY <1>6 DEF Apart
  <2>6. \A i \in 1 .. n + 1 : Apart(m.new, m.kept[i])
    BY <1>2, <2>2, <2>3, <2>4, <2>5
  <2>7. ApartList(m.kept)
    <3>1. \A i, j \in 1 .. n : i # j => Apart(m.kept[i], m.kept[j])
      BY <1>2, <2>2 DEF ApartList
    <3>2. \A i \in 1 .. n : Apart(m.kept[i], cur) /\ Apart(cur, m.kept[i])
      BY <1>3, <2>2, <2>4 DEF Apart
    <3> QED  BY <2>2, <2>4, <3>1, <3>2, SMTT(40) DEF ApartList
  <2>8. \A i \in 1 .. n + 1 : \A j \in k + 2 .. Len(list) : Apart(m.kept[i], list[j])
    BY <1>3, <2>2, <2>4
  <2>9. k + 1 + 1 = k + 2  OBVIOUS
  <2> QED  BY <1>2, <2>1, <2>2, <2>3, <2>6, <2>7, <2>8, <2>9 DEF Coarsening, cur
<1> QED  BY <1>4, <1>5, <1>6

\* __free joins the region with all its neighbours
LEMMA MergedApart ==
    ASSUME NEW rg \in Rg, NEW list \in Seq(Rg), ~Empty(rg),
           \A i \in 1 .. Len(list) : list[i].start <= list[i].end,
           ApartList(list)
    PROVE  ApartList(<<Merged(rg, list).new>> \o Merged(rg, list).kept)
<1> DEFINE m == Merged(rg, list)
           new == <<m.new>> \o m.kept
           n == Len(m.kept)
<1>0. Len(list) \in Nat  OBVIOUS
<1>1. PICK acc :
         /\ acc[0] = [new |-> rg, kept |-> <<>>]
         /\ \A k \in 1 .. Len(list) : acc[k] = Merge(acc[k - 1], list[k])
         /\ m = acc[Len(list)]
  BY <1>0, MergedAcc
<1> HIDE DEF m
<1>2. Coarsening(m, list, Len(list))
  <2> DEFINE S == {k \in 0 .. Len(list) : Coarsening(acc[k], list, k)}
  <2>1. 0 \in S
    <3>1. acc[0].new = rg /\ acc[0].kept = <<>>  BY <1>1
    <3>2. Coarsening(acc[0], list, 0)
      BY <1>1, <3>1 DEF Coarsening, ApartList
    <3> QED  BY <3>2
  <2>2. ASSUME NEW k \in 0 .. Len(list) - 1, k \in S PROVE k + 1 \in S
    <3>1. Coarsening(acc[k], list, k)  BY <2>2
    <3>2. acc[k + 1] = Merge(acc[k], list[k + 1])  BY <1>1
    <3>3. Coarsening(acc[k + 1], list, k + 1)  BY <3>1, <3>2, CoarseningStep
    <3> QED  BY <3>3
  <2> HIDE DEF S
  <2>3. \A k \in 0 .. Len(list) : k \in S  BY <1>0, <2>1, <2>2, SetInduction
  <2> QED  BY <1>0, <1>1, <2>3 DEF S
<1>3. /\ m.new \in Rg /\ m.kept \in Seq(Rg)
      /\ \A i \in 1 .. n : Apart(m.new, m.kept[i])
      /\ ApartList(m.kept)
  BY <1>2 DEF Coarsening
<1>4. /\ n \in Nat /\ Len(new) = n + 1
      /\ new[1] = m.new
      /\ \A i \in 1 .. n : new[i + 1] = m.kept[i]
  BY <1>3
<1> HIDE DEF new
<1>5. \A i \in 1 .. Len(new) : i = 1 \/ (i - 1 \in 1 .. n /\ new[i] = m.kept[i - 1])
  BY <1>4
<1>6. ASSUME NEW i \in 1 .. Len(new), NEW j \in 1 .. Len(new), i # j
      PROVE  Apart(new[i], new[j])
  <2>1. \A a, b : Apart(a, b) => Apart(b, a)  BY DEF Apart
  <2>2. CASE i = 1 \/ j = 1  BY <2>1, <2>2, <1>3, <1>4, <1>5, <1>6
  <2>3. CASE i # 1 /\ j # 1
    <3>1. /\ i - 1 \in 1 .. n /\ new[i] = m.kept[i - 1]
          /\ j - 1 \in 1 .. n /\ new[j] = m.kept[j - 1]
      BY <2>3, <1>5
    <3>2. i - 1 # j - 1  BY <1>6
    <3> QED  BY <3>1, <3>2, <1>3 DEF ApartList
  <2> QED  BY <2>2, <2>3
<1> QED  BY <1>6 DEF ApartList, new, m

\* A step that leaves the free list of a process and its extension alone
LEMMA CoarseUntouched ==
    ASSUME NEW q \in Proc, CoarseInv(q),
           freerg'[q] = freerg[q],
           grow'[q].need = grow[q].need, grow'[q].from = grow[q].from
    PROVE  CoarseInv(q)'
BY DEF CoarseInv

\* Cutting the front off a free region parts it from what was before it
LEMMA CoarseAllocFree ==
    ASSUME EvenSizes, CInv, NEW p \in Proc, NEW r \in RgId, NEW size \in Size,
           grow[p] = NoGrow, AllocFree(p, r, size)
    PROVE  \A q \in Proc : CoarseInv(q)'
<1> DEFINE i == BestFit(p, size)
           list == freerg[p]
           s == list[i].start
           e == list[i].end
           list2 == [list EXCEPT ![i].start = s + size]
           high == Region(s + size, e)
           D == 1 .. Len(list)
<1>1. /\ SpaceTypes /\ SpaceInv(p) /\ CoarseInv(p)
      /\ size \in Nat \ {0} /\ size % 2 = 0
      /\ list \in Seq(Rg) /\ Limit(p) \in Nat
  BY SpaceParts, VMemAssumption DEF CInv, SInv, EvenSizes
<1>2. i \in D /\ e - s + 1 >= size
  <2>1. i \in Fits(p, size)  BY <1>1, BestFitOK DEF AllocFree
  <2> QED  BY <1>1, <2>1 DEF Fits
<1>3. freerg' = [freerg EXCEPT ![p] = list2] /\ UNCHANGED grow
  BY DEF AllocFree
<1> HIDE DEF i
<1>4. /\ s \in Nat /\ e \in Nat /\ list[i] \in Rg /\ s <= e /\ s % 2 = 0 /\ e % 2 = 0
  <2>1. Within(list[i], Bounds(Limit(p)))  BY <1>1, <1>2 DEF SpaceInv, SpaceOK
  <2>2. \A n \in Nat : \A rg : Within(rg, Bounds(n)) =>
            /\ rg \in Rg /\ rg.start \in Nat /\ rg.end \in Nat
            /\ rg.start <= rg.end /\ rg.start % 2 = 0 /\ rg.end % 2 = 0
    BY DEF Within, Bounds, Rg
  <2> QED  BY <2>1, <2>2, <1>1
<1>5. s + size <= e
  <2> HIDE DEF s, e
  <2> QED  BY <1>1, <1>2, <1>4
<1>6. /\ \A j \in D : list2[j] = IF j = i THEN high ELSE list[j]
      /\ Len(list2) = Len(list)
  <2>1. list[i] = [start |-> s, end |-> e]  BY <1>4 DEF Rg
  <2>2. [list[i] EXCEPT !.start = s + size] = high  BY <2>1 DEF Region
  <2>3. list2[i] = high  BY <2>2, <1>1, <1>2
  <2>4. \A j \in D : j # i => list2[j] = list[j]  BY <1>1
  <2>5. Len(list2) = Len(list)  BY <1>1
  <2> QED  BY <2>3, <2>4, <2>5
<1>7. ASSUME NEW j \in D, j # i PROVE Apart(high, list[j]) /\ Apart(list[j], high)
  <2>1. list[j] \in Rg  BY <1>1
  <2>2. Apart(list[i], list[j])  BY <1>1, <1>2, <1>7 DEF CoarseInv, ApartList
  <2>3. Disjoint(list[i], list[j])
    BY <1>1, <1>2, <1>7 DEF SpaceInv, SpaceOK, DisjointList
  <2>4. high.start = s + size /\ high.end = e  BY DEF Region
  <2> HIDE DEF s, e, list, high
  <2>5. list[i].start = s /\ list[i].end = e  BY DEF s, e
  <2>6. ~Empty(list[j]) => list[j].end # s + size
    <3> SUFFICES ASSUME ~Empty(list[j]), list[j].end = s + size PROVE FALSE
      OBVIOUS
    <3>1. In(s + size - 1, list[j])  BY <2>1, <1>1, <1>4, SMTT(40) DEF In, Empty, Rg
    <3>2. In(s + size - 1, list[i])  BY <2>5, <1>1, <1>4, <1>5 DEF In
    <3>3. s + size - 1 \in Nat  BY <1>1, <1>4
    <3> QED  BY <2>3, <3>1, <3>2, <3>3 DEF Disjoint
  <2>7. ~Empty(list[i])  BY <2>5, <1>1, <1>4, <1>5 DEF Empty
  <2> QED  BY <2>2, <2>4, <2>5, <2>6, <2>7 DEF Apart
<1>8. ApartList(list2)
  <2> HIDE DEF list2, high
  <2> QED  BY <1>6, <1>7, <1>1 DEF ApartList, CoarseInv
<1>9. freerg'[p] = list2 /\ \A q \in Proc \ {p} : freerg'[q] = freerg[q]
  BY <1>1, <1>3 DEF SpaceTypes
<1>10. grow'[p].need = 0  BY <1>3 DEF NoGrow, Growing
<1> HIDE DEF list2
<1>11. CoarseInv(p)'  BY <1>8, <1>9, <1>10 DEF CoarseInv
<1>12. ASSUME NEW q \in Proc \ {p} PROVE CoarseInv(q)'
  BY <1>3, <1>9, CoarseUntouched DEF CInv
<1> QED  BY <1>11, <1>12

\* The new area begins with the region that was asked for
LEMMA CoarseAllocBrk ==
    ASSUME EvenSizes, CInv, NEW p \in Proc, NEW r \in RgId, NEW size \in Size,
           grow[p] = NoGrow, AllocBrk(p, r, size)
    PROVE  \A q \in Proc : CoarseInv(q)'
<1> DEFINE old == vma[p].sbrk
           k == PAGING_PAGE_ALIGNSZ(size) \div PAGESZ
<1>1. /\ SpaceTypes /\ SpaceInv(p) /\ CoarseInv(p)
      /\ size \in Nat \ {0} /\ old \in Nat
      /\ freerg[p] \in Seq(Rg)
  BY SpaceParts, VMemAssumption DEF CInv, SInv
<1>2. /\ grow' = [grow EXCEPT ![p] = Growing(k, old + size)]
      /\ UNCHANGED freerg
  BY DEF AllocBrk
<1> HIDE DEF k
<1>3. grow'[p].from = old + size /\ \A q \in Proc \ {p} : grow'[q] = grow[q]
  BY <1>1, <1>2 DEF SpaceTypes, Growing
<1>4. Limit(p) = old  BY DEF Limit, NoGrow, Growing
<1>5. \A j \in 1 .. Len(freerg[p]) : freerg[p][j].end < old + size
  <2> TAKE j \in 1 .. Len(freerg[p])
  <2>1. Within(freerg[p][j], Bounds(old))  BY <1>1, <1>4 DEF SpaceInv, SpaceOK
  <2>2. freerg[p][j].end \in 0 .. old  BY <2>1 DEF Within, Bounds
  <2> QED  BY <2>2, <1>1
<1>6. CoarseInv(p)'  BY <1>1, <1>2, <1>3, <1>5 DEF CoarseInv
<1>7. ASSUME NEW q \in Proc \ {p} PROVE CoarseInv(q)'
  BY <1>2, <1>3, CoarseUntouched DEF CInv
<1> QED  BY <1>6, <1>7

\* The rest of the last page touches no free region
LEMMA CoarseMapPages ==
    ASSUME CInv, NEW p \in Proc, MapPages(p)
    PROVE  \A q \in Proc : CoarseInv(q)'
<1> DEFINE from == grow[p].from
           end == vma[p].sbrk
           rest == Region(from, end)
           list == freerg[p]
           list2 == <<rest>> \o list
           n == Len(list)
<1>1. /\ SpaceTypes /\ SpaceInv(p) /\ CoarseInv(p) /\ GrowOK(p)
      /\ list \in Seq(Rg) /\ from \in Nat /\ end \in Nat
  BY SpaceParts DEF CInv, SInv, SpaceInv
<1>2. /\ grow[p] # NoGrow
      /\ freerg' = IF from < end THEN [freerg EXCEPT ![p] = list2] ELSE freerg
      /\ grow' = [grow EXCEPT ![p] = NoGrow]
  BY DEF MapPages, Region
<1>3. grow[p].need # 0 /\ Limit(p) = from  BY <1>1, <1>2 DEF GrowOK, Limit
<1>4. rest.start = from /\ rest.end = end /\ rest \in Rg  BY <1>1 DEF Region, Rg
<1> HIDE DEF rest
<1>5. /\ n \in Nat /\ Len(list2) = n + 1
      /\ list2[1] = rest
      /\ \A i \in 1 .. n : list2[i + 1] = list[i]
  BY <1>1, <1>4
<1> HIDE DEF from, end, list2
<1>6. ASSUME NEW i \in 1 .. n, from < end PROVE Apart(rest, list[i]) /\ Apart(list[i], rest)
  <2>1. Within(list[i], Bounds(from))  BY <1>1, <1>3 DEF SpaceInv, SpaceOK
  <2>2. list[i] \in Rg /\ list[i].start <= from  BY <2>1, <1>1 DEF Within, Bounds
  <2>3. Empty(list[i]) \/ list[i].end < from  BY <1>1, <1>3 DEF CoarseInv, from
  <2> QED  BY <2>2, <2>3, <1>1, <1>4, <1>6, SMTT(40) DEF Apart, Rg
<1>7. from < end => ApartList(list2)
  <2> SUFFICES ASSUME from < end, NEW i \in 1 .. Len(list2), NEW j \in 1 .. Len(list2), i # j
               PROVE  Apart(list2[i], list2[j])
    BY DEF ApartList
  <2>1. \A l \in 1 .. Len(list2) : l = 1 \/ (l - 1 \in 1 .. n /\ list2[l] = list[l - 1])
    BY <1>5
  <2>2. CASE i = 1 \/ j = 1  BY <2>1, <2>2, <1>5, <1>6
  <2>3. CASE i # 1 /\ j # 1
    <3>1. /\ i - 1 \in 1 .. n /\ list2[i] = list[i - 1]
          /\ j - 1 \in 1 .. n /\ list2[j] = list[j - 1]
      BY <2>3, <2>1
    <3>2. i - 1 # j - 1  OBVIOUS
    <3> QED  BY <3>1, <3>2, <1>1 DEF CoarseInv, ApartList
  <2> QED  BY <2>2, <2>3
<1>8. /\ freerg'[p] = IF from < end THEN list2 ELSE list
      /\ \A q \in Proc \ {p} : freerg'[q] = freerg[q] /\ grow'[q] = grow[q]
      /\ grow'[p].need = 0
  BY <1>1, <1>2 DEF SpaceTypes, NoGrow, Growing
<1>9. CoarseInv(p)'  BY <1>1, <1>7, <1>8 DEF CoarseInv
<1>10. ASSUME NEW q \in Proc \ {p} PROVE CoarseInv(q)'
  BY <1>8, CoarseUntouched DEF CInv
<1> QED  BY <1>9, <1>10

\* __free joins the region with the neighbours it finds
LEMMA CoarseFree ==
    ASSUME CInv, NEW p \in Proc, NEW r \in RgId, grow[p] = NoGrow, Free(p, r)
    PROVE  \A q \in Proc : CoarseInv(q)'
<1>1. /\ SpaceTypes /\ SpaceInv(p) /\ CoarseInv(p)
      /\ symrg[p] \in Table /\ freerg[p] \in Seq(Rg) /\ Limit(p) \in Nat
  BY SpaceParts DEF CInv, SInv
<1>2. PICK m : m = Merged(symrg[p][r], freerg[p])  OBVIOUS
<1>3. PICK list : list = <<m.new>> \o m.kept  OBVIOUS
<1>4. /\ symrg[p][r].start < symrg[p][r].end
      /\ freerg' = [freerg EXCEPT ![p] = list]
      /\ UNCHANGED grow
  BY <1>2, <1>3 DEF Free, FreeRegion
<1>5. /\ symrg[p][r] \in Rg /\ ~Empty(symrg[p][r])
      /\ \A i \in 1 .. Len(freerg[p]) : freerg[p][i].start <= freerg[p][i].end
  <2>1. \A i \in 1 .. Len(freerg[p]) : Within(freerg[p][i], Bounds(Limit(p)))
    BY <1>1 DEF SpaceInv, SpaceOK
  <2>2. symrg[p][r] \in Rg  BY <1>1 DEF Table
  <2> QED  BY <2>1, <2>2, <1>4 DEF Within, Empty, Rg
<1>6. ApartList(list)
  <2>1. ApartList(freerg[p])  BY <1>1 DEF CoarseInv
  <2>2. ApartList(<<Merged(symrg[p][r], freerg[p]).new>> \o Merged(symrg[p][r], freerg[p]).kept)
    BY <2>1, <1>1, <1>5, MergedApart
  <2> QED  BY <2>2, <1>2, <1>3
<1>7. /\ freerg'[p] = list /\ \A q \in Proc \ {p} : freerg'[q] = freerg[q]
      /\ grow'[p].need = 0
  BY <1>1, <1>4 DEF SpaceTypes, NoGrow, Growing
<1>8. CoarseInv(p)'  BY <1>6, <1>7 DEF CoarseInv
<1>9. ASSUME NEW q \in Proc \ {p} PROVE CoarseInv(q)'
  BY <1>4, <1>7, CoarseUntouched DEF CInv
<1> QED  BY <1>8, <1>9

\* A step that leaves all free lists and extensions alone
LEMMA CoarseQuiet ==
    ASSUME CInv, UNCHANGED freerg,
           \A q \in Proc : grow'[q].need = grow[q].need /\ grow'[q].from = grow[q].from
    PROVE  \A q \in Proc : CoarseInv(q)'
BY CoarseUntouched DEF CInv

\* A free list of one region is coarse
LEMMA CoarseInit == ASSUME EvenSizes, Init PROVE CInv
<1>1. SInv  BY SpaceInit
<1>2. \A p \in Proc : freerg[p] = <<Region(0, 0)>> /\ grow[p].need = 0
  BY DEF Init, NoGrow, Growing
<1>3. \A p \in Proc : CoarseInv(p)  BY <1>2 DEF CoarseInv, ApartList
<1>4. killed = {}  BY DEF Init
<1> QED  BY <1>1, <1>3, <1>4 DEF CInv

\* Every step but a kill keeps the free lists coarse
LEMMA CoarseNext == ASSUME EvenSizes, NoKills, CInv, [Next]_vars PROVE CInv'
<1>1. SInv'  BY SpaceNext DEF CInv
<1>2. CASE UNCHANGED <<freerg, grow, killed>>
  BY <1>1, <1>2, CoarseQuiet DEF CInv
<1>3. CASE Next
  <2>1. \A p, q \in Proc : \A r \in RgId : ~Kill(p, q, r)
    <3>1. Cardinality({}) = 0  BY FS_EmptySet
    <3> QED  BY <3>1 DEF Kill, CInv, NoKills
  <2>2. PICK p \in Proc : (Instruction(p) /\ UNCHANGED fate) \/ Finish(p)
    BY <1>3, <2>1 DEF Next
  <2>3. killed' = killed  BY <2>2 DEF fate, Finish
  <2>4. CASE Finish(p)  BY <2>4, <1>2 DEF Finish, space
  <2>5. CASE Instruction(p)
    <3> SUFFICES \A q \in Proc : CoarseInv(q)'  BY <1>1, <2>3 DEF CInv
    <3>1. CASE TakeFrame(p)
      <4>1. \A q \in Proc : grow'[q].need = grow[q].need /\ grow'[q].from = grow[q].from
        <5>1. PICK S : grow \in [Proc -> [need : Nat, got : Seq(S), from : Nat]]
          BY DEF CInv, SInv, SpaceTypes
        <5>2. PICK t : grow' = [grow EXCEPT ![p].got = t]
          BY <3>1, <5>1 DEF TakeFrame
        <5> QED  BY <5>1, <5>2
      <4> QED  BY <3>1, <4>1, CoarseQuiet DEF TakeFrame, space
    <3>2. CASE NoFrame(p)  BY <3>2, CoarseQuiet DEF NoFrame, space
    <3>3. CASE MapPages(p)  BY <3>3, CoarseMapPages
    <3>4. ASSUME grow[p] = NoGrow, NEW r \in RgId, NEW size \in Size, Alloc(p, r, size)
          PROVE  \A q \in Proc : CoarseInv(q)'
      BY <3>4, CoarseAllocFree, CoarseAllocBrk DEF Alloc
    <3>5. ASSUME grow[p] = NoGrow, NEW r \in RgId, Free(p, r)
          PROVE  \A q \in Proc : CoarseInv(q)'
      BY <3>5, CoarseFree
    <3>6. ASSUME NEW r \in RgId, NEW off, NEW v, Access(p, r, off, v)
          PROVE  \A q \in Proc : CoarseInv(q)'
      <4>1. UNCHANGED <<space, grow>>
        BY <3>6 DEF Access, AccessPresent, AccessWild, AccessFault, AccessUndefined
      <4> QED  BY <4>1, CoarseQuiet DEF space
    <3> QED  BY <2>5, <3>1, <3>2, <3>3, <3>4, <3>5, <3>6 DEF Instruction
  <2> QED  BY <1>2, <2>2, <2>4, <2>5
<1>4. CASE UNCHANGED vars  BY <1>2, <1>4 DEF vars, space, fate
<1> QED  BY <1>3, <1>4

\* Without kills, no two free regions that hold bytes touch: the loop of
\* __free joins a region with every neighbour, whatever their order in the
\* list, and nothing else makes neighbours
THEOREM CoalescedThm == ASSUME EvenSizes, NoKills PROVE Spec => []Coalesced
<1>1. Init => CInv  BY CoarseInit
<1>2. CInv /\ [Next]_vars => CInv'  BY CoarseNext
<1>3. CInv => Coalesced
  <2> SUFFICES ASSUME CInv, NEW p \in Proc, NEW i \in DOMAIN freerg[p], NEW j \in DOMAIN freerg[p],
                      i # j, Bytes(freerg[p][i]) # {}, Bytes(freerg[p][j]) # {}
               PROVE  freerg[p][i].end # freerg[p][j].start
    BY DEF Coalesced
  <2>1. freerg[p] \in Seq(Rg)  BY DEF CInv, SInv, SpaceTypes
  <2>2. ApartList(freerg[p])  BY DEF CInv, CoarseInv
  <2>3. \A rg \in Rg : Empty(rg) => Bytes(rg) = {}  BY DEF Empty, Bytes, Rg
  <2> QED  BY <2>1, <2>2, <2>3 DEF ApartList, Apart
<1> QED  BY <1>1, <1>2, <1>3, PTL DEF Spec

=============================================================================
