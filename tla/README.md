# A TLA+ model of the simple operating system

The repository simulates an operating system: a configuration file names
processes, each a list of instructions; CPU threads execute them in time slots
under a multi-level queue scheduler, and ALLOC, FREE, READ and WRITE work on
paged memory with swap. This directory holds TLA+ modules of that program, TLC
configurations that check them on small instances, and proofs checked by TLAPS.
Paths below are relative to `src/` of the repository (`timer.c` is
`src/timer.c`, and so on).

## 1. The system

| Part | State | Operations | Talks to |
| --- | --- | --- | --- |
| Time slots, `timer.c` | `dev_list` of containers with `done`, `fsh`, two mutexes and two condition variables each; `_time`, `timer_started`, `timer_stop` | `attach_event`, `start_timer`, `next_slot`, `detach_event`, `current_time`, `stop_timer`; the thread `timer_routine` | every CPU thread, the loader, main |
| Queues, `queue.c` | an array of at most 10 processes | `enqueue`, `dequeue`, `empty` | scheduler, killall |
| Scheduler, `sched.c` | `mlq_ready_queue[140]`, `slot[140]`, `ready_queue`, `running_list`, `queue_lock` | `get_proc`, `put_proc`, `add_proc` | CPU threads, loader; killall reaches into its queues through the pcb |
| CPUs, loader, main, `os.c` | per CPU `proc`, `time_left`; the loader's index; the global `done` | `cpu_routine`, `ld_routine`, `main` | timer, scheduler, `run` |
| Instructions, `cpu.c` | `pc` of a process | `run` | memory library, system calls |
| Memory library, `libmem.c` | `symrgtbl`, `vm_freerg_list`, `fifo_pgn` | `liballoc`, `libfree`, `libread`, `libwrite`, `free_pcb_memph` | memmap system call |
| Page tables, `mm.c`, `mm-vm.c` | `pgd`, `vm_end`, `sbrk` | `inc_vma_limit`, `vm_map_ram`, `pte_set_fpn`, `pte_set_swap`, `__swap_cp_page` | devices |
| Devices, `mm-memphy.c` | `storage`, `free_fp_list` of MEMRAM and of each MEMSWP | `MEMPHY_get_freefp`, `MEMPHY_put_freefp`, read, write | shared by all CPUs |
| Program loader, `loader.c` | `avail_pid` | `load` | the loader thread |
| System calls, `syscall.c`, `sys_mem.c` | none of their own | memmap, listsyscall | memory |
| killall, `sys_killall.c` | its own `idx`, `p`; no lock | `__sys_killall`, `remove_from_queue` | the arrays of the scheduler's queues, the memory of its target |

What is hard, and where:

* the barrier of `timer.c` sets one flag under one mutex and clears it under
  another, and two threads sleep on two condition variables for each other;
* `put_proc` and `add_proc` are two critical sections, and `done` of `os.c` has
  no lock at all;
* the scheduler has several ways to say "no process", and the CPU threads
  read all of them the same way;
* the memory library has long sequences of legal calls whose bookkeeping must
  stay complete (regions, frames, victims, swap frames), at byte boundaries;
* the devices are shared between the CPUs without a lock;
* killall edits queues and frees memory of processes that others use.

What makes each part correct:

* timer: no wakeup is lost; a thread works in slot t after exactly t returns of
  `next_slot`; a slot ends only when all have finished theirs; the timer ends
  after everybody detached, and only then are the containers freed;
* scheduler: a process is in one place only, and in one at least; round robin
  within a priority; nobody starves;
* CPUs: one instruction per process and slot; a full quantum for whoever is
  dispatched; every process gets to its end; the program ends;
* memory: regions do not overlap and cover the area; each byte of a region has its
  page, each page its frame; what was written is read; every page in MEMRAM can be
  evicted, and no two pages share a swap frame; every frame is in one place, whoever
  extends his area at the same time; only a full MEMRAM breaks a program that stays
  inside its regions;
* killall: where nobody meets it on a list it leaves what an atomic operation
  would have left; it touches no process but its target, whoever meets it; it
  terminates its target and collects the memory once; it returns.

The code does not keep all of these; section 3 says which it breaks, and how.

## 2. The modules

| Module | Models | Uses |
| --- | --- | --- |
| `SlotBarrier` | what `timer.c` promises: the abstract barrier | |
| `Timer` | `timer.c`, lock by lock, with main's calls | `SlotBarrier`, as its refinement |
| `Timer_proofs` | proofs about `Timer` | `Timer` |
| `SchedClient_proofs` | proofs about `SchedClient` | `SchedClient` |
| `OS_proofs` | proofs about `OS` | `OS`, `SchedClient_proofs` |
| `OSStop_proofs` | proofs about `OS`: when the CPUs leave nobody behind | `OS_proofs` |
| `VMemSpace_proofs` | proofs about `VMem`: the regions of an address space | `VMem` |
| `VMemFrames_proofs` | proofs about `VMem`: pages, frames, contents | `VMemSpace_proofs` |
| `Killall_proofs` | proofs about `Killall` | `Killall` |
| `MemPhy_proofs` | proofs about `MemPhy` | `MemPhy` |
| `Sched` | `queue.c`, and the MLQ half of `sched.c`: what each critical section does | |
| `SchedClient` | any number of threads that use the scheduler as it is meant | `Sched` |
| `OS` | `cpu_routine`, `ld_routine`, `load`, the threads main creates and joins | `Sched`, `SlotBarrier`; implements `SchedClient` |
| `VMem` | ALLOC, FREE, READ, WRITE and all of `libmem.c`, `mm.c`, `mm-vm.c`, `sys_mem.c` below them; the end of a process, and what killall does to memory | |
| `Killall` | `sys_killall.c` on the arrays of `queue.h`, statement by statement, with the other CPUs and the loader around it | |
| `MemPhy` | `MEMPHY_get_freefp`, statement by statement, on several CPUs | |

`MCxxx` modules give the constants for TLC. Operators called `Bad...` are
mutants: what a plausible bug would make of the definition that follows. No
specification uses them; they are there to see that a property notices.

**Timer.** `dev_list` and the cursor `temp` are numbers, because the list is
built by pushing in front and never reordered. Each thread has a program
counter (`tpc`, `dpc`, `mpc`); a step is one lock operation, one condition wait,
or one access to a shared flag. A waiting thread goes to `woken` by a signal or
spuriously, and must take the mutex again. `StatusOf` is the refinement mapping:
a device that set `done` has arrived until the timer, after the tick, comes to
its container; the devices the timer has not come to yet (`Pending`) count as
back at work from the tick on.

**Sched, SchedClient.** An operator per critical section under `queue_lock`.
`GetProc` has the three outcomes of `get_mlq_proc`: the queues are empty; there
are processes but no slot, so all slots are refilled and NULL is returned; or the
first queue with a process and a slot is served. `enqueue` has the capacity.
`SchedClient` interleaves the two halves of `put_proc` and `add_proc`.

**OS.** `cpc` follows `cpu_routine`: `top` is the head of the loop, `get` the second
`get_proc`, `put` the middle of `put_proc`, `check` the test of `done`, `slot` and
`wait` the two halves of `next_slot`. `lpc` follows `ld_routine`, with `load` as a
step that gives the pcb its pid and its pc. main creates the loader first and then
the CPUs one by one, so some of them run, and the loader may set `done`, before the
last is there; all of them are attached before. The time slots are those of
`SlotBarrier`, which is justified by the refinement of `Timer`. `Clients` is the
refinement mapping to `SchedClient`.

**VMem.** A step is a whole instruction, but for an ALLOC that extends its area:
`AllocBrk` moves the limits and enters `grow`, `TakeFrame` takes the frames of
`alloc_pages_range` one at a time, so that two CPUs compete for the last ones,
and `MapPages` is the rest, back to `__alloc`. Regions are kept to the byte; the
contents of a page are one value, the last one written, because no property
tells bytes of a page apart. A page table entry keeps PRESENT, SWAPPED and its
low 26 bits, since frame number (bits 0 to 12) and swap offset (bits 5 to 25)
overlap. `life` says whether a process may go on: `Finish` is what `os.c` does at
its end, which is nothing to its memory, and `Kill` is killall of a process that
is ready with priority 0 (in both lists: its memory is given back twice) or
runs or has another priority (once, and it goes on). Where the program crashes or uses
an uninitialized local, `broken` says so and the model stops. `expected`, `orphan`
and `killed` are history: the last write per page, the regions of ids that were
allocated again without FREE, and who was killed. Memory fresh from malloc is
taken to be zero (`init_mm` does not clear it).

**Killall.** `arr` and `size` are the fields of `mlq_ready_queue[0]` and of
`running_list`. killall takes no lock, so its accesses to them are steps of their
own: `size--` is a read and a write, a round of the loop that closes the gap is the
test of `size`, the read of `proc[i + 1]` (into `kv`) and the write of `proc[i]`. So
are those of `enqueue` and `dequeue`, which run under `queue_lock` (`sec`). Two
places are coarser. `proc[size] = NULL` reads `size` in the step that writes the
array, on both sides. The search in `dequeue` is a step per place, which reads
`size` and the pointer together and ends at the first pointer that is not NULL,
since the rest of the search cannot find a smaller priority; that a pointer turns NULL
between the test and the read of `prio` behind it is left out. The module shows one
slot: one CPU is in killall, since the slot cannot end before it, and each other
thread takes its turn in `cpu_routine` or `ld_routine` at most once. `Init` ranges
over all placements of the processes and all orders of the lists. A finished process
is still in `running_list` but does not match: free() has written over the start of
its pcb, where the pid is. `met` (the lists on which a critical section met the
walk) and `ideal` (the lists, had each operation been atomic) are history. A stale
`size--` may leave a size below zero, lower with each thread it meets; it never
leaves one above the capacity (`Count`). `broken` is a NULL pointer or an index
outside the array.

**MemPhy.** Node k of the free list is frame k. A CPU that follows a freed node
is not followed further.

## 3. The runs

| Run | Checks | Bounds |
| --- | --- | --- |
| `timer` | type, `NoDoneRace`, `TimeStable`, `NoLostWakeup`, `Lockstep`, `TimerOutlivesDevices`, `NoUseAfterFree`, `ImplementsBarrier`, `NextSlotReturns`, `Termination` | 3 devices; threads detach at the latest in slot 2, and may earlier |
| `sched` | type, `Exclusive`, `NoProcessLost`, `FifoWithinPriority`, `BoundedWait`, `NoStarvation` | 3 processes of 2 priorities, 2 callers, queues of 3 |
| `os` | type, `FreshQuantum`, `StoppedMeansFinished`, `UsesScheduler`, `OneInstructionPerSlot`, `EveryProcessFinishes` | 2 CPUs, 3 processes of 3 or 4 instructions, quantum 2, start times 0 and 2, 4 priorities |
| `os_hang` | `Termination`, violated | 2 CPUs, 2 processes |
| `os_strand` | `StoppedMeansFinished`, violated | 1 CPU, 2 processes, one slot per round |
| `vmem` | type, `OneOwner`, `NothingLost`, `Coalesced`, `RegionsMapped`, `FrameExclusive`, `ReadsSeeWrites`, `BreaksOnlyWhenFull` | 2 processes that may end, 2 region ids, 2 values, sizes 2 and 6, pages of 4 bytes, 3 pages each, 2 frames, 2 swap frames |
| `vmem_stray` | `RegionsMapped`, `Evictable`, `SwapExclusiveUntilKilled` | accesses up to two pages beyond a region, one kill, 3 pages each, 2 frames, 2 swap frames |
| `vmem_odd` | `OneOwner`, violated | sizes 1 and 3 |
| `vmem_swap` | `ReadsSeeWrites`, violated | accesses beyond a region |
| `vmem_kill` | `KillCollects`, violated | 1 page each, page tables of 3 entries, one kill |
| `killall` | type, `ListsExact`, `BreaksOnlyTogether`, `BystandersKept`, `KillReturns` | 3 processes, the killer's CPU, another CPU and the loader, lists of 3 |
| `memphy_race` | `HandedOutOnce`, violated | 2 CPUs, 3 frames |

Why the bounds are enough. Three devices let the timer stand between one it has
passed and one it has not, in both of its passes. Three processes in two priorities
give a queue with an order, and one for the slots to protect from starving, also one
that must wait for a refill; queues of three never fill with ready processes, while
`ready_queue` (which nothing empties) does. In `os` both CPUs compete, processes
change CPUs and outlive a quantum, and the slots of a priority run out. `MCOS` has
TLC evaluate that of its two numbers of priorities the 4 of `os` give enough slots
(`EnoughSlots`) and the 1 of `os_strand` does not. In `vmem` regions of half a page
and of a page and a half make every kind of free list neighbourhood, `vmem_stray`
adds regions of whole pages, and two frames for up to six pages let MEMRAM and then
MEMSWP run out, also while both processes are in the middle of an extension. In
`killall` lists of three have a middle to remove, the target can be first, last or
the killer itself, and the list may be full; with three threads killall can meet a
dequeue and an enqueue of the same list in one slot. `More` stops counting how often
memory is given back at three, one more than any correct run reaches. In `vmem`
sizes are even on purpose: with gaps of at least two bytes the off-by-one of
`get_free_vmrg_area` never bites, and the rest of the code can be seen to be right;
`vmem_odd` shows what it does. Processes, region ids and values are interchangeable
(symmetry) as nothing looks at them; the runs that use it check invariants only.

Fairness. `Timer`: weak fairness of main and strong fairness of each thread,
since a thread that finds a mutex free again and again gets it in the end; none
for spurious wakeups. `SchedClient` and `OS`: weak fairness of every thread,
because each of their steps stays enabled until it is taken (a critical section
is one step), and of `Tick`, because slots end (`NextSlotReturns` of `Timer`).
`Killall`: weak fairness of the killer's thread only. It waits for nobody, so it
must return however the others are scheduled, even if they stop.
Deadlock is checked in `timer`, `sched` and the `os` runs, where the end of the
program is a state with a stuttering step or no end exists; the memory models
stop where the program dies or every process has ended, `Killall` at the end of
its slot.

What `killall` shows. `ListsExact` and `BystandersKept` are about runs in which no
critical section met the walk of a list: then the arithmetic of `idx` and the
shifting are right, also for the last place and for a full list.
`BreaksOnlyTogether` says that it takes two to make the walk follow NULL or leave the
array, and `KillReturns` that the walk ends however the lists move under it. What
the call does to its target is in `vmem_kill`.

Without the condition on `met` `BystandersKept` is false, and that is a defect:
`README.md:252` to `254` of the repository ask for locks around the ready queue, and
`sched.c:52` reminds of the lock, which killall does not take. In TLC's trace killall has
taken its target out of the ready queue, but before its `proc[size] = NULL` a `put_proc`
on another CPU raises `size`. The wrong place is cleared, and killall finds the
old pointer to its target in the place where the other process is just being stored. It
removes that place, and the other process is in no queue any more. Of a missing lock
the run of this project is `memphy_race`.

Two more things that runs of this size avoid. With fewer places in a queue than processes
of its priority `NoProcessLost` is false: `enqueue` drops the last one and tells nobody
(`queue.c:12`). And not every page in `fifo_pgn` is in MEMRAM once programs access what
they have not allocated: such an access brings a page in and enters it
(`libmem.c:342`), an ALLOC that grows over it enters it again (`mm.c:118`), and when it
has been evicted its second entry is a victim still.

What the violated properties show:

* `os_hang`: a CPU that has no process at the top of its loop calls `next_slot`
  and continues without looking at `done` (`os.c:58` to `61`). When the last
  process ends on the other CPU it idles for ever.
* `os_strand`: `get_mlq_proc` returns NULL when it refills the slots
  (`sched.c:70`); a CPU that has just put a process back then stops if `done` is
  set, leaving it in the queue. `MAX_PRIO = 1` stands for the lowest priority,
  139 in the code, which has one slot per round. That slots which run out are the
  only cause is `NobodyLeftBehind`.
* `vmem_odd`: a free region one byte too small is accepted (`libmem.c:613`).
* `vmem_swap`: a swapped page keeps PRESENT (`mm.c:56`), so its next access uses
  the bits of the swap offset as a frame number; and the copy back from swap
  (`libmem.c:326` to `330`) goes the wrong way.
* `vmem_kill`: killall neither collects its target's memory nor ends it.
  `free_pcb_memph` tests PRESENT the wrong way round (`libmem.c:551`): each page that
  was never mapped gives frame 0 back to MEMRAM, whoever uses it, and each page in
  MEMRAM gives bits of its frame number back to MEMSWP as a swap frame, which may hold
  a page of another process. A target that runs, or is ready with another
  priority, is only taken out of `running_list` (`sys_killall.c:88`), from which nobody
  dispatches, and goes on. In the trace a process with one page kills itself: frame 0
  and swap frame 0 are free twice, and it is live. One that is ready with priority 0
  is in both lists, so its memory is given back twice. `KillCollects` asks for all of
  what a kill is for; what it asks of frames holds without kills (`vmem`,
  `vmem_stray`).
* `memphy_race`: two CPUs get the same frame (`mm-memphy.c:135` to `146`). Only
  overlapping calls do (`OnlyTheRace`).

## 4. The proofs

`Timer_proofs` holds, for every number of devices N > 0 and every MaxTime:

* `Invariance`: `Spec => []IInv`. `IInv` strengthens the properties by what the
  other threads' program counters imply: `PhaseInv` (which part of the program
  main, timer and list are in), `LockInv` (who holds each mutex, by program
  counters), `FlagInv` (a device's flags, its thread and how far the timer's two
  passes have come), `VisitInv` (returns of `next_slot` against `_time`, with
  the one under way), `CountInv` (`nfsh` catches up with `nevent` only if all
  detached). None of them is inductive alone: that a thread cannot set `done`
  while the timer clears it follows from the phase (`FlagInv`), which needs the
  locks (`LockInv`), which need that the cursor is not NULL (`PhaseInv`). There
  is one lemma per conjunct and one step per action in it.
* from it `TypeCorrect`, `DoneRaceFree`, `TimeReadSafe`, `WakeupsNotLost`,
  `SlotsInLockstep`, `TimerServesAll`, `FreesUnused`.
* `RefinesBarrier`: `Spec => ImplementsBarrier`. Setting `done` is Arrive,
  setting `fsh` is Leave, `_time++` is Tick, everything else stutters.

The assumptions are `NAssumption` and `MaxTimeAssumption`.

`SchedClient_proofs` holds, for any number of callers, processes and
priorities, under `SchedAssumption`:

* `ClientInvariance`: `CSpec => []CInv`. `CInv` is `CTypeOK`, `QueuesInv` (a queue
  holds processes of its own priority, none twice), `PlaceInv` (a process is in one
  of: its queue, one hand, being added, not added yet, over) and `PutInv` (who is
  in the middle of `put_proc` has a process). `QueuesInv` is why the search in
  `dequeue` always finds the head (`HighestIsFirst`): all priorities in a queue
  are equal. That removing the head leaves the process nowhere else needs that
  it was there once; that a second half of `put_proc` or `add_proc` adds nothing
  twice needs `PlaceInv`. The most urgent priority with a slot exists since the
  order of the naturals is well-founded (`MostUrgent`).
* from it `ClientTypeCorrect`, `RoundRobin` and `ExclusiveOwnership`, the last by
  counting: each of the sets that `Exclusive` adds up has at most one element, and
  at most one of them has any. `RoundRobin` says that nobody overtakes a process that
  waits. A step appends to its queue, takes the head or leaves it as it is
  (`QueueStep`), and none of these turns two places round.
* `NothingLost` has one assumption more, `Room`: there are no more processes than
  a queue has places. It needs `KeptInv`, that a process is in one of these places
  at all (`StillThere`), and that a queue that does not hold the process is not full.
* `BoundedWaiting`: `CSpec => BoundedWait`. `Wait(p)` counts the calls of `get_proc`
  until a ready process comes at the latest: a whole round, `RoundLength`
  dispatches and the call that refills, for each process before it in its
  queue, one more if its priority has no slot now, and the tickets left in this
  round. So it never exceeds
  `(RoundLength + 1) * MAX_QUEUE_SIZE + RoundLength` calls, and any call, also one
  that returns NULL, brings the process nearer; `put_proc` and `add_proc` change
  nothing for it, as they queue behind (`EnqueueBehind`). A dispatch takes one
  ticket (`TicketsCount`) and a refill pays a round with
  the round that begins (`WaitShrinks`). This is the safety half of `NoStarvation`;
  the other half is that the callers go on calling, which is fairness.

`OS_proofs` holds for any number of CPUs and any configuration that satisfies
`OSAssumption`:

* `LocalInvariance`: `Spec => []LocalInv`, what the threads keep true whatever the
  scheduler hands out; `DispatchedFresh` is part of it.
* `ImplementsClients`: `Spec => UsesScheduler`. A CPU's `get_proc`, the two halves
  of `put_proc` and the end of a process are the steps of a caller, the loader's
  two halves those of `add_proc`, everything else stutters. It needs from
  `LocalInv` that a CPU that calls `get_proc` holds nothing, and that the loader
  names no process twice (`IsInjective`).
* with it `ClientsHold` carries `CInv` over to the CPUs, and so `OSTypeCorrect` and
  `OneInstruction`. The latter needs `RanInv`: who has executed in this slot is in
  the hand of a CPU that waits for its end; by `PlaceInv` it is in no other.
* `ClientsProperties`: hence `Exclusive`, `FifoWithinPriority` and `BoundedWait` hold of
  the CPUs and the loader.

`OSStop_proofs` says when the CPUs leave nobody behind.

* `NobodyLeftBehind`: `Spec => []StoppedMeansFinished`, if there is a CPU, if the ready
  queue holds all processes (`QueueRoom`) and if a round has a slot for every
  quantum of the processes of a priority (`EnoughSlots`). The twelve
  configurations in `input` satisfy both: of the most crowded priority, 130 in
  `os_1_mlq_paging`, they ask for 8 quanta where there are 10 slots. `os_strand`
  does not satisfy `EnoughSlots`, and there the property fails.
* It takes three invariants beside those of `OS_proofs`. `AlignInv`: a process that no CPU
  holds has executed whole quanta, so the quanta that are still to come are known.
  `SlotsInv`: a priority has at least as many slots as quanta to come; its first
  consequence is `SlotsSuffice`, that `get_proc` never returns NULL while
  somebody is ready. `StopInv`: once the loader has set `done`, each process is over or
  some CPU that has not stopped will meet it. That rests on the slot the loader waits for
  between its last `add_proc` and `done`, and on nobody being lost (`KeptByCpus`).

`VMemSpace_proofs` holds for any processes, region ids, page size and frames that
satisfy `VMemAssumption`, under `EvenSizes`: the page size and every size asked for
are even. The code needs that, as `vmem_odd` shows what `get_free_vmrg_area` does
with an odd one.

* `SpaceAlways`: `Spec => []SInv`. For each process `SInv` says that the regions of
  its table, the free list and the regions it gave up (`orphan`) are disjoint byte by
  byte and fill the area up to `sbrk`; that an area in the middle of an extension
  lacks just the bytes it extends for; and that each page below the limit is mapped
  but for those the extension still brings. Only with the exact account of the extension is
  it inductive: between `AllocBrk` and `MapPages` the area is larger than what is
  in it.
* from it `OneOwnerThm`, `NothingLostThm` and `RegionsMappedThm`. The last holds with
  kills and with accesses beyond a region, too.
* `CoalescedThm` with `CInv`: no two regions of a free list touch, also not once the
  extension under way is added. It assumes `NoKills`, as killall frees a region
  twice. Here and in `SInv` the loop of `__free` is a fold over the list; since
  the prover has no induction over data, the lemmas about it (`MergedBytes`,
  `MergedApart`) prove what one round keeps and take it to all rounds with
  `SetInduction`, from the least round for which it would fail.

`VMemFrames_proofs` goes on with page tables and frames.

* `SwapExclusiveThm`: until somebody is killed, whatever programs do,
  `free_fp_list` of MEMSWP names a frame once, and no frame a page is in
  (`SwapInv`); what a kill does is in `vmem_kill`. It assumes `SwapWidth`, that a swap
  offset fits into its 21 bits.
* `EvictableThm`: every present page is in `fifo_pgn`, without any hypothesis
  (`BookInv`).
* `FrameExclusiveThm`, `ReadsSeeWritesThm`, `BreaksOnlyWhenFullThm` and `TypeOKThm`
  from `TameInv`, under `Tame` and for finitely many processes. `FInv` in it counts
  a frame once as free, taken by an extension or behind a page, and gives a process
  that extends its area frames and pages in step. `Tame` is what the violated runs
  ask for: `EvenSizes` (`vmem_odd`), no kill (`vmem_kill`), no access beyond a
  region (`vmem_swap`), and at most 8192 frames, as a frame number has 13 bits.
  `BreaksOnlyWhenFull` is a matter of counting: if no frame is free and no page is a
  victim, each frame is behind one of the pages or taken by an extension; with the
  page that is still wanted more are promised than there are frames (`AllTaken`).

`Killall_proofs` holds for any capacity of the queues, any finite set of processes that
fits into them and any number of other CPUs (`KillallAssumption`).

* `TypeCorrect` from `TypeInv`, which has what each test of `size` leaves true even
  if the other side changes `size` after it. It assumes nothing on who meets whom.
* `KillallInvariance`: `Spec => []IInv`. Three parts strengthen the properties.
  `ListsInv` says for a list nobody was met on what its array holds at each
  statement: `KillerAt` while killall walks it or closes the gap (`Gap`),
  `SectionAt` while `enqueue` or `dequeue` works on it (`Half`), packed (`Exact`)
  otherwise. `ReadyInv` says that a process is in the queue once, or in one hand,
  or under way: without it `Without` need not take out the place killall
  looked at. `RunningInv` says the same of running_list and the loader. That
  `enqueue` never finds a list full, which would drop the process, follows by
  counting (`NotFull`): a list without the process to be added has a place left.
* from it `ListsExactThm`, `BreaksOnlyTogetherThm` and `BystandersKeptThm`.
* `KillOutcomeThm`, the general side of `vmem_kill`: no undisturbed
  call does what it is for. Its target is terminated exactly if its memory was given
  back twice. It comes from `OutcomeInv`, which follows one process through both walks. It
  has not been passed yet (`Passed`), or has been taken out, and then the scheduler
  has lost it exactly if the list was mlq_ready_queue (`ReadyWalk`, `RunningWalk`);
  one that was taken out there is still in running_list, or the loader is
  about to add it (`Coming`), which is why it is found again and its memory
  given back a second time.

`MemPhy_proofs` has the other side of `memphy_race`, for any number of CPUs and frames.

* `OnlyTheRace`: in a run in which no two calls of `MEMPHY_get_freefp` overlap
  (`OneAtATime`) no two CPUs get one frame and no freed node is followed. `ListInv`
  says where the node of the call under way is: at the head, or just unlinked and
  nobody's yet. `TakeFrame` of `VMem` is one step under the same condition.

Only model-checked is liveness (`NextSlotReturns`, `Termination` of `Timer`,
`NoStarvation`, `EveryProcessFinishes`, `KillReturns`), which the prover does not reach:
it needs fairness and ENABLED.

## 5. What is not modelled

* listsyscall and the example handler, and all functions that print: they change
  no state. The dispatch of `syscall.c` by number, and SYSCALL 17 from a program
  instead of from `__alloc` or `pg_getpage`.
* The parsing of program files (`loader.c`) and of the configuration
  (`read_config`): their results are constants. A file that cannot be read ends
  the whole program.
* The builds without MLQ_SCHED and without MM_PAGING. They do not compile:
  `queue.c` and `os.c` use the field `prio`, `libmem.c` and `mm.c` the fields of
  the memory manager, without a guard. With them go half of `sched.c`, `mem.c`,
  `paging.c` and the end of `cpu.c`. The Makefile and the scripts.
* Sequential devices: main makes random access ones only.
* What a full ready queue does to the CPUs: in `sched` and `os` each queue has room for
  all processes, as the code's 10 places are enough for the inputs that come with
  it, while `ready_queue` and `running_list` do fill up.
* Memory from malloc that is not zero (`mm.c:249`), region ids outside the
  table, sizes of 0.
* Killing: a second killall in the same slot or after another one; what `free` and
  `printf` make of the pcb of a finished process; a target in the middle of
  `__alloc` or `__free` when killall frees its region (`Kill` takes those lists
  as they are between two instructions, though not the frames under way). The
  name is read from memory, but which process it names is a constant of the run.
* `OS`, `VMem` and `Killall` are not composed: `run` of `OS` is any instruction,
  and what the scheduler needs of it is only that it takes one slot. With killall
  in the program the promises of `OS` do not hold, as `Killall` shows.

## 6. Plan

Done: the barrier, the scheduler, the CPUs and the loader, memory with concurrent
extensions, ends and kills, killall on the queues, the race in the devices, and
proofs about all of them. Left is `VMem` with memory from malloc that is not
zero. `FrameExclusive` survives no kill: the frames in MEMRAM of the target are not given
back, so they are in no place, and frame 0 is given back for each page never mapped
(`vmem_kill`). What does survive one is proved without `NoKills` (`OneOwnerThm`,
`RegionsMappedThm`, `EvictableThm`).
