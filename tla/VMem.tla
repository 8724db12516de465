-------------------------------- MODULE VMem --------------------------------
(***************************************************************************)
(* Memory management of the processes: the instructions ALLOC, FREE, READ  *)
(* and WRITE as libmem.c, mm-vm.c, mm.c, sys_mem.c and mm-memphy.c carry   *)
(* them out, the end of a process, and what killall of sys_killall.c does  *)
(* to the memory of its target.  A step is one instruction, since a        *)
(* process executes on one CPU at a time, and everything here except the   *)
(* devices belongs to one process; but an ALLOC that extends the address   *)
(* space takes its frames one by one from MEMRAM, which the CPUs share.    *)
(* What happens when two CPUs meet inside a device is in MemPhy.tla.       *)
(*                                                                         *)
(* Addresses and regions are kept to the byte; the contents of a page are  *)
(* one value, the last one written to it.  A page table entry keeps its    *)
(* two flags and its low 26 bits, because the frame number (bits 0..12)    *)
(* and the swap offset (bits 5..25) share some of them.  Fresh memory of   *)
(* malloc reads as zero.                                                   *)
(***************************************************************************)
EXTENDS Integers, Sequences, FiniteSets, SequencesExt, Functions

CONSTANTS
    Proc,          \* the processes
    RgId,          \* region ids their instructions use
    Size,          \* sizes they allocate
    Stray,         \* offsets beyond the end of a region they access
    Val,           \* what they write
    NoVal,         \* nothing written yet
    PAGESZ,        \* bytes per page
    PAGING_MAX_PGN,\* entries of a page table
    MaxPgn,        \* bound: pages of an address space the instructions use
    MaxKills,      \* bound: how many processes are killed, each once
    Mortal,        \* bound: the processes that may end
    RamFrames,     \* frames of MEMRAM
    SwpFrames      \* frames of the active MEMSWP

ASSUME VMemAssumption ==
    /\ Size \subseteq Nat \ {0}
    /\ Stray \subseteq Nat
    /\ NoVal \notin Val
    /\ {PAGESZ, MaxPgn, RamFrames} \subseteq Nat \ {0}
    /\ PAGING_MAX_PGN \in Nat /\ PAGING_MAX_PGN >= MaxPgn
    /\ MaxKills \in Nat
    /\ Mortal \subseteq Proc
    /\ SwpFrames \in Nat /\ SwpFrames >= RamFrames

VARIABLES
    vma,           \* vm_end and sbrk of the one area of each process
    freerg,        \* vm_freerg_list, first element first
    symrg,         \* symrgtbl
    grow,          \* the extension of its area each process is in
    pgd,           \* page tables
    fifo,          \* fifo_pgn, newest page first
    ramfree,       \* free_fp_list of MEMRAM
    swpfree,       \* free_fp_list of the active MEMSWP
    ram, swp,      \* contents of the frames
    life,          \* live, over (freed), or gone (killed while it was ready)
    killed,        \* history: the processes killall has named
    broken,        \* why the program's state means nothing any more, or "no"
    expected,      \* history: the last value written to each page
    orphan         \* history: bytes of regions whose id was allocated anew

space == <<vma, freerg, symrg>>
fate == <<life, killed>>
paging == <<pgd, fifo, ramfree, swpfree>>
data == <<ram, swp>>
vars == <<space, grow, paging, data, fate, broken, expected, orphan>>

Page == 0 .. MaxPgn - 1
Frame == 0 .. RamFrames - 1
SwpFrame == 0 .. SwpFrames - 1

----------------------------------------------------------------------------
(* Page table entries: the macros of mm.h and pte_set_... of mm.c.         *)

FPN_SPAN == 8192       \* PAGING_PTE_FPN_MASK covers bits 0..12
SWPOFF_UNIT == 32      \* PAGING_PTE_SWPOFF_LOBIT is 5
LOW_SPAN == 8192 * 8192 \* bits 0..25, what either field can reach

NewPte == [present |-> FALSE, swapped |-> FALSE, low |-> 0]

PAGING_FPN(pte) == pte.low % FPN_SPAN
PAGING_SWP(pte) == pte.low \div SWPOFF_UNIT

pte_set_fpn(pte, fpn) ==
    [present |-> TRUE, swapped |-> FALSE,
     low |-> pte.low - PAGING_FPN(pte) + (fpn % FPN_SPAN)]

\* The swap type is always 0
pte_set_swap(pte, swpoff) ==
    [present |-> TRUE, swapped |-> TRUE, low |-> (swpoff * SWPOFF_UNIT) % LOW_SPAN]

----------------------------------------------------------------------------
(* Regions.                                                                *)

Region(s, e) == [start |-> s, end |-> e]
Bytes(rg) == rg.start .. rg.end - 1

PAGING_PAGE_ALIGNSZ(sz) == ((sz + PAGESZ - 1) \div PAGESZ) * PAGESZ

\* A process extends its area by `need' pages, has taken the frames `got', and
\* the region it allocates ends at `from'
Growing(need, from) == [need |-> need, got |-> <<>>, from |-> from]
NoGrow == Growing(0, 0)

Init ==
    /\ vma = [p \in Proc |-> [vm_end |-> 0, sbrk |-> 0]]
    /\ freerg = [p \in Proc |-> <<Region(0, 0)>>]
    /\ symrg = [p \in Proc |-> [r \in RgId |-> Region(0, 0)]]
    /\ pgd = [p \in Proc |-> [n \in Page |-> NewPte]]
    /\ fifo = [p \in Proc |-> <<>>]
    /\ ramfree = [k \in 1 .. RamFrames |-> k - 1]
    /\ swpfree = [k \in 1 .. SwpFrames |-> k - 1]
    /\ ram = [f \in Frame |-> NoVal]
    /\ swp = [f \in SwpFrame |-> NoVal]
    /\ grow = [p \in Proc |-> NoGrow]
    /\ life = [p \in Proc |-> "live"]
    /\ killed = {}
    /\ broken = "no"
    /\ expected = [p \in Proc |-> [n \in Page |-> NoVal]]
    /\ orphan = [p \in Proc |-> {}]

\* The elements of the free list get_free_vmrg_area takes to be large enough
Fits(p, size) ==
    {i \in DOMAIN freerg[p] : freerg[p][i].end - freerg[p][i].start + 1 >= size}

\* best_fit: the one at the lowest address, the first of these in the list
BestFit(p, size) ==
    CHOOSE i \in Fits(p, size) :
        \A j \in Fits(p, size) :
            \/ freerg[p][i].start < freerg[p][j].start
            \/ freerg[p][i].start = freerg[p][j].start /\ i <= j

\* The old region of an id that is allocated anew is not given back
Orphaned(p, r) == [orphan EXCEPT ![p] = @ \cup Bytes(symrg[p][r])]

\* Mutant: the part taken is not cut off the free region
BadAllocFree(p, r, size) ==
    /\ Fits(p, size) # {}
    /\ LET s == freerg[p][BestFit(p, size)].start IN
       symrg' = [symrg EXCEPT ![p][r] = Region(s, s + size)]
    /\ orphan' = Orphaned(p, r)
    /\ UNCHANGED <<vma, freerg, grow, paging, data, broken, expected>>

\* __alloc, when get_free_vmrg_area finds a region
AllocFree(p, r, size) ==
    /\ Fits(p, size) # {}
    /\ LET i == BestFit(p, size)
           s == freerg[p][i].start
       IN  /\ symrg' = [symrg EXCEPT ![p][r] = Region(s, s + size)]
           /\ freerg' = [freerg EXCEPT ![p][i].start = s + size]
    /\ orphan' = Orphaned(p, r)
    /\ UNCHANGED <<vma, grow, paging, data, broken, expected>>

\* Mutant: the last page is not mapped
BadMapFrames(p, pgn, f) ==
    [n \in Page |->
        IF n \in pgn .. pgn + Len(f) - 2
        THEN pte_set_fpn(pgd[p][n], f[Len(f) - (n - pgn)])
        ELSE pgd[p][n]]

\* vmap_page_range: frames f[1], f[2], ... in the order MEMPHY_get_freefp
\* gave them are linked in front of each other, so the last goes to the
\* first page
MapFrames(p, pgn, f) ==
    [n \in Page |->
        IF n \in pgn .. pgn + Len(f) - 1
        THEN pte_set_fpn(pgd[p][n], f[Len(f) - (n - pgn)])
        ELSE pgd[p][n]]

\* Mutant: the limit moves twice
BadLimit(p, inc) ==
    vma' = [vma EXCEPT ![p] = [vm_end |-> @.sbrk + inc, sbrk |-> @.sbrk + 2 * inc]]

\* inc_vma_limit by inc bytes, whole pages, before it maps them.  Its test for
\* an overlap cannot fire, since vm_end is sbrk
inc_vma_limit(p, inc) ==
    vma' = [vma EXCEPT ![p] = [vm_end |-> @.sbrk + inc, sbrk |-> @.sbrk + inc]]

\* __alloc, when no free region is found: sys_memmap is to extend the area by
\* whole pages.  MaxPgn bounds the address space
AllocBrk(p, r, size) ==
    LET old == vma[p].sbrk
        inc == PAGING_PAGE_ALIGNSZ(size)
    IN
    /\ Fits(p, size) = {}
    /\ old + inc <= MaxPgn * PAGESZ
    /\ symrg' = [symrg EXCEPT ![p][r] = Region(old, old + size)]
    /\ inc_vma_limit(p, inc)
    /\ grow' = [grow EXCEPT ![p] = Growing(inc \div PAGESZ, old + size)]
    /\ orphan' = Orphaned(p, r)
    /\ UNCHANGED <<freerg, paging, data, broken, expected>>

\* alloc_pages_range still lacks frames
Lacking(p) == Len(grow[p].got) < grow[p].need

\* Mutant: the frame stays in the free list
BadTakeFrame(p) ==
    /\ Lacking(p)
    /\ ramfree # <<>>
    /\ grow' = [grow EXCEPT ![p].got = Append(@, Head(ramfree))]
    /\ UNCHANGED <<space, paging, data, broken, expected, orphan>>

\* Mutant: two nodes are unlinked for one frame
BadDropFrame(p) ==
    /\ Lacking(p)
    /\ ramfree # <<>>
    /\ grow' = [grow EXCEPT ![p].got = Append(@, Head(ramfree))]
    /\ ramfree' = IF Len(ramfree) > 1 THEN Tail(Tail(ramfree)) ELSE <<>>
    /\ UNCHANGED <<space, pgd, fifo, swpfree, data, broken, expected, orphan>>

\* alloc_pages_range takes one frame
TakeFrame(p) ==
    /\ Lacking(p)
    /\ ramfree # <<>>
    /\ grow' = [grow EXCEPT ![p].got = Append(@, Head(ramfree))]
    /\ ramfree' = Tail(ramfree)
    /\ UNCHANGED <<space, pgd, fifo, swpfree, data, broken, expected, orphan>>

\* It runs out of frames: its cleanup loop follows a NULL pointer and the
\* program dies, the frames it had taken lost
NoFrame(p) ==
    /\ Lacking(p)
    /\ ramfree = <<>>
    /\ broken' = "crash in alloc_pages_range"
    /\ UNCHANGED <<space, grow, paging, data, expected, orphan>>

\* vm_map_ram has all its frames and maps them below the new vm_end; back in
\* __alloc, the rest of the last page becomes a free region
MapPages(p) ==
    LET num == grow[p].need
        pgn == vma[p].vm_end \div PAGESZ - num
        rest == Region(grow[p].from, vma[p].sbrk)
    IN
    /\ grow[p] # NoGrow
    /\ ~Lacking(p)
    /\ pgd' = [pgd EXCEPT ![p] = MapFrames(p, pgn, grow[p].got)]
    /\ fifo' = [fifo EXCEPT ![p] = Reverse([k \in 1 .. num |-> pgn + k - 1]) \o @]
    /\ freerg' = IF rest.start < rest.end
                 THEN [freerg EXCEPT ![p] = <<rest>> \o @]
                 ELSE freerg
    /\ grow' = [grow EXCEPT ![p] = NoGrow]
    /\ UNCHANGED <<vma, symrg, ramfree, swpfree, data, broken, expected, orphan>>

Alloc(p, r, size) ==
    AllocFree(p, r, size) \/ AllocBrk(p, r, size)

----------------------------------------------------------------------------
(* __free.                                                                 *)

\* Mutant: a free region in front of the new one is dropped, not joined
BadMerge(acc, cur) ==
    IF acc.new.end = cur.start
    THEN [acc EXCEPT !.new.end = cur.end]
    ELSE IF acc.new.start = cur.end
    THEN acc
    ELSE [acc EXCEPT !.kept = Append(@, cur)]

\* Mutant: only the neighbour above is joined
BadMergeUp(acc, cur) ==
    IF acc.new.end = cur.start
    THEN [acc EXCEPT !.new.end = cur.end]
    ELSE [acc EXCEPT !.kept = Append(@, cur)]

\* One round of the loop of __free: cur is joined to the new region if it
\* touches it, and stays in the list otherwise
Merge(acc, cur) ==
    IF acc.new.end = cur.start
    THEN [acc EXCEPT !.new.end = cur.end]
    ELSE IF acc.new.start = cur.end
    THEN [acc EXCEPT !.new.start = cur.start]
    ELSE [acc EXCEPT !.kept = Append(@, cur)]

\* What the loop makes of the region rg and the free list
Merged(rg, list) ==
    LET acc[k \in 0 .. Len(list)] ==
            IF k = 0 THEN [new |-> rg, kept |-> <<>>] ELSE Merge(acc[k - 1], list[k])
    IN  acc[Len(list)]

\* __free: the region goes to the front of the free list, joined with its
\* neighbours; its pages stay mapped.  An empty region is refused
FreeRegion(p, r) ==
    /\ symrg[p][r].start < symrg[p][r].end
    /\ LET m == Merged(symrg[p][r], freerg[p])
       IN  freerg' = [freerg EXCEPT ![p] = <<m.new>> \o m.kept]
    /\ symrg' = [symrg EXCEPT ![p][r] = Region(0, 0)]

Free(p, r) ==
    /\ FreeRegion(p, r)
    /\ UNCHANGED <<vma, grow, paging, data, broken, expected, orphan>>

----------------------------------------------------------------------------
(* READ and WRITE; a read writes NoVal.                                    *)

\* The random access devices main makes
MEMPHY_read(storage, fpn) == storage[fpn]
MEMPHY_write(storage, fpn, v) == [storage EXCEPT ![fpn] = v]

\* Storing v at page n of p, whose entry is pte
Store(p, n, pte, v) ==
    /\ ram' = IF v = NoVal THEN ram ELSE MEMPHY_write(ram, PAGING_FPN(pte), v)
    /\ expected' = IF v = NoVal THEN expected ELSE [expected EXCEPT ![p][n] = v]

\* pg_getpage finds the page present
AccessPresent(p, n, v) ==
    /\ pgd[p][n].present
    /\ PAGING_FPN(pgd[p][n]) \in Frame
    /\ Store(p, n, pgd[p][n], v)
    /\ UNCHANGED <<space, grow, paging, swp, broken, orphan>>

\* ... but its frame number lies beyond the storage of MEMRAM
AccessWild(p, n) ==
    /\ pgd[p][n].present
    /\ PAGING_FPN(pgd[p][n]) \notin Frame
    /\ broken' = "access beyond MEMRAM"
    /\ UNCHANGED <<space, grow, paging, data, expected, orphan>>

\* Mutant: the swap frame stays free
BadFaultSwap(p, n) ==
    /\ fifo' = [fifo EXCEPT ![p] = <<n>> \o Front(@)]
    /\ UNCHANGED swpfree

\* Mutant: the page that was brought in is not entered
BadFaultFifo(p, n) ==
    /\ fifo' = [fifo EXCEPT ![p] = Front(@)]
    /\ swpfree' = Tail(swpfree)

\* The oldest page leaves fifo_pgn, the new one enters it; a swap frame is
\* taken
FaultLists(p, n) ==
    /\ fifo' = [fifo EXCEPT ![p] = <<n>> \o Front(@)]
    /\ swpfree' = Tail(swpfree)

\* SYSMEM_SWP_OP, that is __mm_swap_page, on the contents s of MEMSWP: the
\* copy always goes from MEMRAM to MEMSWP
swap_page(s, src, dst) == MEMPHY_write(s, dst, MEMPHY_read(ram, src))

\* pg_getpage on a page that is not present: the frame of the oldest page is
\* copied to a swap frame and handed to page n.  The second SYSMEM_SWP_OP is
\* meant to fetch page n from swap
AccessFault(p, n, v) ==
    LET vic == Last(fifo[p])
        vicfpn == PAGING_FPN(pgd[p][vic])
        swpfpn == Head(swpfree)
        tgt == PAGING_SWP(pgd[p][n])
        pte == pte_set_fpn(pgd[p][n], vicfpn)
    IN
    /\ ~pgd[p][n].present
    /\ fifo[p] # <<>>
    /\ swpfree # <<>>
    /\ vicfpn \in Frame
    /\ swp' = swap_page(swap_page(swp, vicfpn, swpfpn), tgt, vicfpn)
    /\ pgd' = [pgd EXCEPT ![p][vic] = pte_set_swap(@, swpfpn),
                          ![p][n] = pte]
    /\ FaultLists(p, n)
    /\ Store(p, n, pte, v)
    /\ UNCHANGED <<space, grow, ramfree, broken, orphan>>

\* find_victim_page or MEMPHY_get_freefp fails; its result is not looked at
\* and the victim, or the swap frame, is an uninitialized local.  Or the
\* victim is swapped out already, and its entry holds no frame of MEMRAM
AccessUndefined(p, n) ==
    /\ ~pgd[p][n].present
    /\ \/ fifo[p] = <<>>
       \/ swpfree = <<>>
       \/ PAGING_FPN(pgd[p][Last(fifo[p])]) \notin Frame
    /\ broken' = "uninitialized or wild frame number"
    /\ UNCHANGED <<space, grow, paging, data, expected, orphan>>

\* __read and __write at rg_start + offset.  Programs stay inside what they
\* allocated, but for the offsets in Stray
Access(p, r, off, v) ==
    LET n == (symrg[p][r].start + off) \div PAGESZ IN
    /\ symrg[p][r].start < symrg[p][r].end
    /\ symrg[p][r].start + off \in Bytes(symrg[p][r]) \/ off \in Stray
    /\ n \in Page
    /\ \/ AccessPresent(p, n, v)
       \/ AccessWild(p, n)
       \/ AccessFault(p, n, v)
       \/ AccessUndefined(p, n)

----------------------------------------------------------------------------
(* The end of a process, and killall.                                      *)

\* os.c frees the pcb of a process that has executed its code, and nothing of
\* its memory
Finish(p) ==
    /\ p \in Mortal
    /\ life' = [life EXCEPT ![p] = "over"]
    /\ UNCHANGED <<space, grow, paging, data, killed, broken, expected, orphan>>

MEMPHY_put_freefp(free_fp_list, fpn) == <<fpn>> \o free_fp_list

\* What free_pcb_memph does for one entry: PRESENT is tested the wrong way
\* round, so a page that was never mapped gives frame 0 to MEMRAM, and a page
\* in MEMRAM gives bits of its frame number to MEMSWP
PutPage(free, pte) ==
    IF ~pte.present
    THEN [free EXCEPT !.ram = MEMPHY_put_freefp(@, PAGING_FPN(pte))]
    ELSE [free EXCEPT !.swp = MEMPHY_put_freefp(@, PAGING_SWP(pte))]

\* The whole page table
free_pcb_memph(free, q) ==
    FoldLeft(PutPage, free,
             [k \in 1 .. PAGING_MAX_PGN |->
                 IF k - 1 \in Page THEN pgd[q][k - 1] ELSE NewPte])

\* __sys_killall of p, which has found the name of q in its region r: libfree
\* of the same region of q, then free_pcb_memph.  A q that is ready with
\* priority 0 is in both lists killall looks through, so that is done twice
\* and q never runs again; another one keeps running (Killall.tla).  The
\* reads of the name are Accesses that come before
Kill(p, q, r) ==
    /\ symrg[p][r].start < symrg[p][r].end
    /\ life[q] = "live"
    /\ q \notin killed
    /\ Cardinality(killed) < MaxKills
    /\ killed' = killed \cup {q}
    /\ FreeRegion(q, r) \/ (symrg[q][r].start >= symrg[q][r].end /\ UNCHANGED <<freerg, symrg>>)
    /\ \E ready \in BOOLEAN :
          LET once == free_pcb_memph([ram |-> ramfree, swp |-> swpfree], q)
              free == IF ready THEN free_pcb_memph(once, q) ELSE once
          IN
          /\ ready => q # p /\ grow[q] = NoGrow
          /\ life' = IF ready THEN [life EXCEPT ![q] = "gone"] ELSE life
          /\ ramfree' = free.ram
          /\ swpfree' = free.swp
    /\ UNCHANGED <<vma, grow, pgd, fifo, data, broken, expected, orphan>>

----------------------------------------------------------------------------
\* What a process that executes may do next: go on with an extension, or
\* start an instruction
Instruction(p) ==
    IF grow[p] # NoGrow
    THEN TakeFrame(p) \/ NoFrame(p) \/ MapPages(p)
    ELSE \E r \in RgId :
          \/ \E size \in Size : Alloc(p, r, size)
          \/ Free(p, r)
          \/ \E off \in 0 .. MaxPgn * PAGESZ - 1, v \in Val \cup {NoVal} :
                Access(p, r, off, v)

Next ==
    /\ broken = "no"
    /\ \E p \in Proc :
          /\ life[p] = "live"
          /\ \/ Instruction(p) /\ UNCHANGED fate
             \/ grow[p] = NoGrow /\ Finish(p)
             \/ grow[p] = NoGrow /\ \E q \in Proc, r \in RgId : Kill(p, q, r)

Spec == Init /\ [][Next]_vars

----------------------------------------------------------------------------
(* Properties.                                                             *)

Pte == [present : BOOLEAN, swapped : BOOLEAN, low : 0 .. LOW_SPAN - 1]

TypeOK ==
    /\ vma \in [Proc -> [vm_end : 0 .. MaxPgn * PAGESZ, sbrk : 0 .. MaxPgn * PAGESZ]]
    /\ \A p \in Proc : freerg[p] \in Seq([start : Nat, end : Nat])
    /\ symrg \in [Proc -> [RgId -> [start : Nat, end : Nat]]]
    /\ \A p \in Proc : \A n \in Page :
          /\ {pgd[p][n].present, pgd[p][n].swapped} \subseteq BOOLEAN
          /\ pgd[p][n].low \in 0 .. LOW_SPAN - 1
    /\ \A p \in Proc : fifo[p] \in Seq(Page)
    /\ \A p \in Proc : grow[p].need \in 0 .. MaxPgn /\ grow[p].got \in Seq(Frame)
    /\ life \in [Proc -> {"live", "over", "gone"}]
    /\ ramfree \in Seq(Frame)
    /\ swpfree \in Seq(SwpFrame)
    /\ ram \in [Frame -> Val \cup {NoVal}]
    /\ swp \in [SwpFrame -> Val \cup {NoVal}]
    /\ expected \in [Proc -> [Page -> Val \cup {NoVal}]]

\* The byte sets that share the address space of p between them
Owned(p) ==
    {<<"region", r>> : r \in RgId} \cup {<<"free", i>> : i \in DOMAIN freerg[p]}
        \cup {<<"orphan", 0>>}
BytesOf(p, o) ==
    CASE o[1] = "region" -> Bytes(symrg[p][o[2]])
      [] o[1] = "free" -> Bytes(freerg[p][o[2]])
      [] OTHER -> orphan[p]

\* No byte belongs to two live regions, or to a region and the free list
OneOwner ==
    \A p \in Proc : \A o1, o2 \in Owned(p) :
        o1 # o2 => BytesOf(p, o1) \cap BytesOf(p, o2) = {}

\* Every byte below sbrk is in a region or free to be allocated, unless the
\* program itself forgot it
NothingLost ==
    \A p \in Proc : grow[p] = NoGrow =>
        UNION {BytesOf(p, o) : o \in Owned(p)} = 0 .. vma[p].sbrk - 1

\* Neighbouring free regions are joined, so the free list is as coarse as the
\* regions in use allow
Coalesced ==
    \A p \in Proc : \A i, j \in DOMAIN freerg[p] :
        (i # j /\ Bytes(freerg[p][i]) # {} /\ Bytes(freerg[p][j]) # {})
            => freerg[p][i].end # freerg[p][j].start

\* Every byte of a region has a page behind it, so an access within the
\* region never faults
RegionsMapped ==
    \A p \in Proc : grow[p] = NoGrow => \A r \in RgId : \A a \in Bytes(symrg[p][r]) :
        a \div PAGESZ \in Page /\ pgd[p][a \div PAGESZ].present

\* The pages that are in MEMRAM
Resident(p) == {n \in Page : pgd[p][n].present /\ ~pgd[p][n].swapped}

\* Where a frame is: in the free list, on its way into an address space, or
\* behind a page of a process that was not killed
Places(f) ==
    {<<"free", k>> : k \in {k \in DOMAIN ramfree : ramfree[k] = f}}
        \cup {<<"taken", p>> : p \in {p \in Proc : f \in Range(grow[p].got)}}
        \cup {w \in (Proc \ killed) \X Page :
                 w[2] \in Resident(w[1]) /\ PAGING_FPN(pgd[w[1]][w[2]]) = f}

\* Every frame of MEMRAM is in one place, and one only
FrameExclusive == \A f \in Frame : Cardinality(Places(f)) = 1

\* The pages that all address spaces have up to now
Committed == {w \in Proc \X Page : (w[2] + 1) * PAGESZ <= vma[w[1]].vm_end}

\* Programs that stay inside their regions break nothing, unless all of them
\* together want more pages than MEMRAM has
BreaksOnlyWhenFull ==
    broken # "no" => broken = "crash in alloc_pages_range" /\ Cardinality(Committed) > RamFrames

\* Every page in MEMRAM can be chosen as a victim some day, whatever the
\* programs access
Evictable == \A p \in Proc : Resident(p) \subseteq Range(fifo[p])

\* The pages that are in MEMSWP
Swapped(p) == {n \in Page : pgd[p][n].swapped}

\* A swap frame holds one page, or is in the free list, there once; pages of killed
\* processes do not count
SwapExclusive ==
    /\ IsInjective(swpfree)
    /\ \A p, q \in Proc \ killed : \A n \in Swapped(p) :
          /\ PAGING_SWP(pgd[p][n]) \notin Range(swpfree)
          /\ \A m \in Swapped(q) :
                PAGING_SWP(pgd[p][n]) = PAGING_SWP(pgd[q][m]) => <<p, n>> = <<q, m>>

\* Without a kill that is so whatever the programs access
SwapExclusiveUntilKilled == killed = {} => SwapExclusive

\* Who was killed executes no more, and his memory was collected: each frame of
\* MEMRAM, his included, is in one place, and so is each of MEMSWP.  Violated:
\* free_pcb_memph gives back frames its target never had and keeps those it had, and
\* killall stops nobody who is not in the ready queue it searches
KillCollects ==
    \A q \in killed : life[q] = "gone" /\ FrameExclusive /\ SwapExclusive

\* A process reads from a page what it last wrote there
ReadsSeeWrites ==
    \A p \in Proc : \A n \in Page :
        expected[p][n] # NoVal =>
            /\ pgd[p][n].present
            /\ PAGING_FPN(pgd[p][n]) \in Frame
            /\ ram[PAGING_FPN(pgd[p][n])] = expected[p][n]
=============================================================================
