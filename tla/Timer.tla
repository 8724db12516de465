------------------------------- MODULE Timer -------------------------------
(***************************************************************************)
(* timer.c at the granularity of its mutexes and condition variables: the  *)
(* timer thread (timer_routine), the threads that use it (next_slot,       *)
(* detach_event) and the main thread (attach_event, start_timer,           *)
(* stop_timer, as main in os.c calls them).                                *)
(*                                                                         *)
(* Device d is the container made by the d-th call of attach_event.  The   *)
(* list is built by pushing in front, so the `next' of container d is      *)
(* container d-1 and 0 stands for NULL: `dev_list' and the cursor `temp'   *)
(* are numbers.  A thread inside pthread_cond_wait is at pc "..wait"; a    *)
(* signal or a spurious wakeup moves it to "..woken", where it must take   *)
(* the mutex again before it goes on.                                      *)
(***************************************************************************)
EXTENDS Integers

CONSTANTS
    N,             \* number of devices: the CPUs and the loader
    MaxTime        \* devices detach once this many slots have passed

ASSUME NAssumption == N \in Nat \ {0}
ASSUME MaxTimeAssumption == MaxTime \in Nat

Device == 1 .. N

VARIABLES
    dev_list,      \* head of the device list; 0 is NULL
    timer_started, timer_stop, _time,
    done, fsh,                   \* fields of each device
    event_lock, timer_lock,      \* holder of each mutex
    tpc, temp, nfsh, nevent,     \* timer_routine and its locals
    dpc,                         \* the thread behind each device
    mpc,                         \* the main thread
    visits                       \* history: next_slot calls d has returned from

shared == <<dev_list, timer_started, timer_stop>>
tlocal == <<temp, nfsh, nevent>>
locks  == <<event_lock, timer_lock>>
vars   == <<dev_list, timer_started, timer_stop, _time, done, fsh, event_lock,
            timer_lock, tpc, temp, nfsh, nevent, dpc, mpc, visits>>

Holder == {"none", "timer", "device"}

TimerPC == {"off", "top", "scan", "test", "sleep", "wait", "woken", "count",
            "rel", "clear", "signal", "exit"}

DevicePC == {"none", "work", "set", "tell", "lock", "test", "sleep", "wait",
             "woken", "unlock", "dset", "dtell", "exit"}

MainPC == {"attach", "spawn", "join", "stopped", "free", "end"}

TypeOK ==
    /\ dev_list \in 0 .. N
    /\ timer_started \in BOOLEAN
    /\ timer_stop \in BOOLEAN
    /\ _time \in Nat
    /\ done \in [Device -> BOOLEAN]
    /\ fsh \in [Device -> BOOLEAN]
    /\ event_lock \in [Device -> Holder]
    /\ timer_lock \in [Device -> Holder]
    /\ tpc \in TimerPC
    /\ temp \in 0 .. N
    /\ nfsh \in Nat
    /\ nevent \in Nat
    /\ dpc \in [Device -> DevicePC]
    /\ mpc \in MainPC
    /\ visits \in [Device -> Nat]

Init ==
    /\ dev_list = 0
    /\ timer_started = FALSE
    /\ timer_stop = FALSE
    /\ _time = 0
    /\ done = [d \in Device |-> FALSE]
    /\ fsh = [d \in Device |-> FALSE]
    /\ event_lock = [d \in Device |-> "none"]
    /\ timer_lock = [d \in Device |-> "none"]
    /\ tpc = "off"
    /\ temp = 0
    /\ nfsh = 0
    /\ nevent = 0
    /\ dpc = [d \in Device |-> "none"]
    /\ mpc = "attach"
    /\ visits = [d \in Device |-> 0]

----------------------------------------------------------------------------
(* The main thread.                                                        *)

\* attach_event, called by main for each CPU and then for the loader
AttachEvent ==
    /\ mpc = "attach"
    /\ dev_list < N
    /\ ~timer_started
    /\ dev_list' = dev_list + 1
    /\ UNCHANGED <<timer_started, timer_stop, _time, done, fsh, locks, tpc,
                   tlocal, dpc, mpc, visits>>

\* start_timer: the timer thread exists from here on
StartTimer ==
    /\ mpc = "attach"
    /\ dev_list = N
    /\ timer_started' = TRUE
    /\ tpc' = "top"
    /\ mpc' = "spawn"
    /\ UNCHANGED <<dev_list, timer_stop, _time, done, fsh, locks, tlocal, dpc,
                   visits>>

\* pthread_create of the thread behind device d.  main creates the loader's
\* first and then the CPUs'; here the order is left open
Spawn(d) ==
    /\ mpc = "spawn"
    /\ dpc[d] = "none"
    /\ dpc' = [dpc EXCEPT ![d] = "work"]
    /\ mpc' = IF \A e \in Device \ {d} : dpc[e] # "none" THEN "join" ELSE mpc
    /\ UNCHANGED <<shared, _time, done, fsh, locks, tpc, tlocal, visits>>

\* main has joined every device thread and enters stop_timer
StopTimer ==
    /\ mpc = "join"
    /\ \A d \in Device : dpc[d] = "exit"
    /\ timer_stop' = TRUE
    /\ mpc' = "stopped"
    /\ UNCHANGED <<dev_list, timer_started, _time, done, fsh, locks, tpc,
                   tlocal, dpc, visits>>

\* Mutant: stop_timer frees the list without joining the timer thread
BadJoinTimer ==
    /\ mpc = "stopped"
    /\ mpc' = "free"
    /\ UNCHANGED <<shared, _time, done, fsh, locks, tpc, tlocal, dpc, visits>>

\* pthread_join(_timer) in stop_timer
JoinTimer ==
    /\ mpc = "stopped"
    /\ tpc = "exit"
    /\ mpc' = "free"
    /\ UNCHANGED <<shared, _time, done, fsh, locks, tpc, tlocal, dpc, visits>>

\* Mutant: the loop looks at dev_list only after it moved past the end
BadFreeDevice ==
    /\ mpc = "free"
    /\ dev_list' = dev_list - 1
    /\ mpc' = IF dev_list = 0 THEN "end" ELSE "free"
    /\ UNCHANGED <<timer_started, timer_stop, _time, done, fsh, locks, tpc,
                   tlocal, dpc, visits>>

\* One round of the loop that destroys the containers, or its end
FreeDevice ==
    /\ mpc = "free"
    /\ dev_list' = IF dev_list = 0 THEN 0 ELSE dev_list - 1
    /\ mpc' = IF dev_list = 0 THEN "end" ELSE "free"
    /\ UNCHANGED <<timer_started, timer_stop, _time, done, fsh, locks, tpc,
                   tlocal, dpc, visits>>

Main ==
    \/ AttachEvent
    \/ StartTimer
    \/ \E d \in Device : Spawn(d)
    \/ StopTimer
    \/ JoinTimer
    \/ FreeDevice

----------------------------------------------------------------------------
(* timer_routine.                                                          *)

\* Mutant: the collecting pass starts behind the head of the list
BadTimerTop ==
    /\ tpc = "top"
    /\ IF timer_stop
       THEN tpc' = "exit" /\ UNCHANGED tlocal
       ELSE /\ tpc' = "scan"
            /\ temp' = dev_list - 1
            /\ nfsh' = 0
            /\ nevent' = 0
    /\ UNCHANGED <<shared, _time, done, fsh, locks, dpc, mpc, visits>>

\* while (!timer_stop): a new slot starts at the head of the list
TimerTop ==
    /\ tpc = "top"
    /\ IF timer_stop
       THEN tpc' = "exit" /\ UNCHANGED tlocal
       ELSE /\ tpc' = "scan"
            /\ temp' = dev_list
            /\ nfsh' = 0
            /\ nevent' = 0
    /\ UNCHANGED <<shared, _time, done, fsh, locks, dpc, mpc, visits>>

\* Collecting pass: take the event_lock of the next device
TimerLockEvent ==
    /\ tpc = "scan"
    /\ temp # 0
    /\ event_lock[temp] = "none"
    /\ event_lock' = [event_lock EXCEPT ![temp] = "timer"]
    /\ tpc' = "test"
    /\ UNCHANGED <<shared, _time, done, fsh, timer_lock, tlocal, dpc, mpc, visits>>

\* while (!done && !fsh), evaluated with the event_lock held
TimerTest ==
    /\ tpc = "test"
    /\ tpc' = IF done[temp] \/ fsh[temp] THEN "count" ELSE "sleep"
    /\ UNCHANGED <<shared, _time, done, fsh, locks, tlocal, dpc, mpc, visits>>

\* pthread_cond_wait gives the event_lock back and blocks, in one step
TimerWait ==
    /\ tpc = "sleep"
    /\ event_lock' = [event_lock EXCEPT ![temp] = "none"]
    /\ tpc' = "wait"
    /\ UNCHANGED <<shared, _time, done, fsh, timer_lock, tlocal, dpc, mpc, visits>>

\* pthread_cond_wait may return although nobody signalled
TimerSpurious ==
    /\ tpc = "wait"
    /\ tpc' = "woken"
    /\ UNCHANGED <<shared, _time, done, fsh, locks, tlocal, dpc, mpc, visits>>

\* Mutant: `if' instead of `while' around pthread_cond_wait
BadTimerRelock ==
    /\ tpc = "woken"
    /\ event_lock[temp] = "none"
    /\ event_lock' = [event_lock EXCEPT ![temp] = "timer"]
    /\ tpc' = "count"
    /\ UNCHANGED <<shared, _time, done, fsh, timer_lock, tlocal, dpc, mpc, visits>>

\* A woken timer takes the event_lock again and re-tests
TimerRelock ==
    /\ tpc = "woken"
    /\ event_lock[temp] = "none"
    /\ event_lock' = [event_lock EXCEPT ![temp] = "timer"]
    /\ tpc' = "test"
    /\ UNCHANGED <<shared, _time, done, fsh, timer_lock, tlocal, dpc, mpc, visits>>

\* Count the device, give its event_lock back, go to the next one
TimerCount ==
    /\ tpc = "count"
    /\ nfsh' = nfsh + (IF fsh[temp] THEN 1 ELSE 0)
    /\ nevent' = nevent + 1
    /\ event_lock' = [event_lock EXCEPT ![temp] = "none"]
    /\ temp' = temp - 1
    /\ tpc' = "scan"
    /\ UNCHANGED <<shared, _time, done, fsh, timer_lock, dpc, mpc, visits>>

\* _time++ once the whole list was collected; the releasing pass begins
TimerTick ==
    /\ tpc = "scan"
    /\ temp = 0
    /\ _time' = _time + 1
    /\ temp' = dev_list
    /\ tpc' = "rel"
    /\ UNCHANGED <<shared, done, fsh, locks, nfsh, nevent, dpc, mpc, visits>>

\* Releasing pass: take the timer_lock of the next device
TimerLockTimer ==
    /\ tpc = "rel"
    /\ temp # 0
    /\ timer_lock[temp] = "none"
    /\ timer_lock' = [timer_lock EXCEPT ![temp] = "timer"]
    /\ tpc' = "clear"
    /\ UNCHANGED <<shared, _time, done, fsh, event_lock, tlocal, dpc, mpc, visits>>

\* temp->id.done = 0
TimerClear ==
    /\ tpc = "clear"
    /\ done' = [done EXCEPT ![temp] = FALSE]
    /\ tpc' = "signal"
    /\ UNCHANGED <<shared, _time, fsh, locks, tlocal, dpc, mpc, visits>>

\* Mutant: timer_cond is not signalled
BadTimerSignal ==
    /\ tpc = "signal"
    /\ timer_lock' = [timer_lock EXCEPT ![temp] = "none"]
    /\ temp' = temp - 1
    /\ tpc' = "rel"
    /\ UNCHANGED <<shared, _time, done, fsh, event_lock, nfsh, nevent, dpc, mpc,
                   visits>>

\* Signal timer_cond, give the timer_lock back, go to the next device
TimerSignal ==
    /\ tpc = "signal"
    /\ dpc' = [dpc EXCEPT ![temp] = IF @ = "wait" THEN "woken" ELSE @]
    /\ timer_lock' = [timer_lock EXCEPT ![temp] = "none"]
    /\ temp' = temp - 1
    /\ tpc' = "rel"
    /\ UNCHANGED <<shared, _time, done, fsh, event_lock, nfsh, nevent, mpc, visits>>

\* Mutant: the timer stops with the first device that detached
BadTimerEndSlot ==
    /\ tpc = "rel"
    /\ temp = 0
    /\ tpc' = IF nfsh > 0 THEN "exit" ELSE "top"
    /\ UNCHANGED <<shared, _time, done, fsh, locks, tlocal, dpc, mpc, visits>>

\* The end of the list: leave the loop if every device had finished
TimerEndSlot ==
    /\ tpc = "rel"
    /\ temp = 0
    /\ tpc' = IF nfsh = nevent THEN "exit" ELSE "top"
    /\ UNCHANGED <<shared, _time, done, fsh, locks, tlocal, dpc, mpc, visits>>

TimerThread ==
    \/ TimerTop \/ TimerLockEvent \/ TimerTest \/ TimerWait \/ TimerRelock
    \/ TimerCount \/ TimerTick \/ TimerLockTimer \/ TimerClear \/ TimerSignal
    \/ TimerEndSlot

----------------------------------------------------------------------------
(* The thread behind a device.                                             *)

\* Mutant: done is set without the event_lock
BadNextSlot(d) ==
    /\ dpc[d] = "work"
    /\ _time < MaxTime
    /\ dpc' = [dpc EXCEPT ![d] = "set"]
    /\ UNCHANGED <<shared, _time, done, fsh, locks, tpc, tlocal, mpc, visits>>

\* next_slot: take the event_lock.  Once MaxTime slots have passed the
\* threads of this model detach instead of asking for another slot
NextSlot(d) ==
    /\ dpc[d] = "work"
    /\ _time < MaxTime
    /\ event_lock[d] = "none"
    /\ event_lock' = [event_lock EXCEPT ![d] = "device"]
    /\ dpc' = [dpc EXCEPT ![d] = "set"]
    /\ UNCHANGED <<shared, _time, done, fsh, timer_lock, tpc, tlocal, mpc, visits>>

\* timer_id->done = 1
SetDone(d) ==
    /\ dpc[d] = "set"
    /\ done' = [done EXCEPT ![d] = TRUE]
    /\ dpc' = [dpc EXCEPT ![d] = "tell"]
    /\ UNCHANGED <<shared, _time, fsh, locks, tpc, tlocal, mpc, visits>>

\* Where a signal on the event_cond of d leaves the timer thread
SignalEvent(d) == IF tpc = "wait" /\ temp = d THEN "woken" ELSE tpc

\* Signal event_cond and give the event_lock back
TellDone(d) ==
    /\ dpc[d] = "tell"
    /\ tpc' = SignalEvent(d)
    /\ event_lock' = [event_lock EXCEPT ![d] = "none"]
    /\ dpc' = [dpc EXCEPT ![d] = "lock"]
    /\ UNCHANGED <<shared, _time, done, fsh, timer_lock, tlocal, mpc, visits>>

\* Mutant: a woken device does not look at done again
BadLockTimer(d) ==
    /\ dpc[d] \in {"lock", "woken"}
    /\ timer_lock[d] = "none"
    /\ timer_lock' = [timer_lock EXCEPT ![d] = "device"]
    /\ dpc' = [dpc EXCEPT ![d] = IF @ = "woken" THEN "unlock" ELSE "test"]
    /\ UNCHANGED <<shared, _time, done, fsh, event_lock, tpc, tlocal, mpc, visits>>

\* Take the timer_lock: on the way in, and again after a wakeup
LockTimer(d) ==
    /\ dpc[d] \in {"lock", "woken"}
    /\ timer_lock[d] = "none"
    /\ timer_lock' = [timer_lock EXCEPT ![d] = "device"]
    /\ dpc' = [dpc EXCEPT ![d] = "test"]
    /\ UNCHANGED <<shared, _time, done, fsh, event_lock, tpc, tlocal, mpc, visits>>

\* Mutant: next_slot does not wait for the timer
BadTestDone(d) ==
    /\ dpc[d] = "test"
    /\ dpc' = [dpc EXCEPT ![d] = "unlock"]
    /\ UNCHANGED <<shared, _time, done, fsh, locks, tpc, tlocal, mpc, visits>>

\* while (timer_id->done), evaluated with the timer_lock held
TestDone(d) ==
    /\ dpc[d] = "test"
    /\ dpc' = [dpc EXCEPT ![d] = IF done[d] THEN "sleep" ELSE "unlock"]
    /\ UNCHANGED <<shared, _time, done, fsh, locks, tpc, tlocal, mpc, visits>>

\* pthread_cond_wait gives the timer_lock back and blocks, in one step
WaitTimer(d) ==
    /\ dpc[d] = "sleep"
    /\ timer_lock' = [timer_lock EXCEPT ![d] = "none"]
    /\ dpc' = [dpc EXCEPT ![d] = "wait"]
    /\ UNCHANGED <<shared, _time, done, fsh, event_lock, tpc, tlocal, mpc, visits>>

DeviceSpurious(d) ==
    /\ dpc[d] = "wait"
    /\ dpc' = [dpc EXCEPT ![d] = "woken"]
    /\ UNCHANGED <<shared, _time, done, fsh, locks, tpc, tlocal, mpc, visits>>

\* next_slot returns: d works in the next slot
LeaveNextSlot(d) ==
    /\ dpc[d] = "unlock"
    /\ timer_lock' = [timer_lock EXCEPT ![d] = "none"]
    /\ dpc' = [dpc EXCEPT ![d] = "work"]
    /\ visits' = [visits EXCEPT ![d] = @ + 1]
    /\ UNCHANGED <<shared, _time, done, fsh, event_lock, tpc, tlocal, mpc>>

\* detach_event: take the event_lock
DetachEvent(d) ==
    /\ dpc[d] = "work"
    /\ event_lock[d] = "none"
    /\ event_lock' = [event_lock EXCEPT ![d] = "device"]
    /\ dpc' = [dpc EXCEPT ![d] = "dset"]
    /\ UNCHANGED <<shared, _time, done, fsh, timer_lock, tpc, tlocal, mpc, visits>>

\* event->fsh = 1
SetFsh(d) ==
    /\ dpc[d] = "dset"
    /\ fsh' = [fsh EXCEPT ![d] = TRUE]
    /\ dpc' = [dpc EXCEPT ![d] = "dtell"]
    /\ UNCHANGED <<shared, _time, done, locks, tpc, tlocal, mpc, visits>>

\* Mutant: detach_event does not signal event_cond
BadTellFsh(d) ==
    /\ dpc[d] = "dtell"
    /\ event_lock' = [event_lock EXCEPT ![d] = "none"]
    /\ dpc' = [dpc EXCEPT ![d] = "exit"]
    /\ UNCHANGED <<shared, _time, done, fsh, timer_lock, tpc, tlocal, mpc, visits>>

\* Signal event_cond, give the event_lock back; the thread exits
TellFsh(d) ==
    /\ dpc[d] = "dtell"
    /\ tpc' = SignalEvent(d)
    /\ event_lock' = [event_lock EXCEPT ![d] = "none"]
    /\ dpc' = [dpc EXCEPT ![d] = "exit"]
    /\ UNCHANGED <<shared, _time, done, fsh, timer_lock, tlocal, mpc, visits>>

\* What the thread of d does of its own accord
DeviceThread(d) ==
    \/ NextSlot(d) \/ SetDone(d) \/ TellDone(d) \/ LockTimer(d) \/ TestDone(d)
    \/ WaitTimer(d) \/ LeaveNextSlot(d)
    \/ DetachEvent(d) \/ SetFsh(d) \/ TellFsh(d)

----------------------------------------------------------------------------
\* The whole program has ended
Finished == mpc = "end" /\ UNCHANGED vars

Next ==
    \/ Main
    \/ TimerThread \/ TimerSpurious
    \/ \E d \in Device : DeviceThread(d) \/ DeviceSpurious(d)
    \/ Finished

Spec == Init /\ [][Next]_vars

\* Every thread runs, and a thread that finds a mutex free again and again
\* gets it in the end.  Nothing makes a spurious wakeup happen.
Fairness ==
    /\ WF_vars(Main)
    /\ SF_vars(TimerThread)
    /\ \A d \in Device : SF_vars(DeviceThread(d))

FairSpec == Spec /\ Fairness

----------------------------------------------------------------------------
(* Properties.                                                             *)

\* The two threads never reach their writes of one device's `done' at the
\* same time, although next_slot writes it under event_lock and
\* timer_routine under timer_lock
NoDoneRace ==
    \A d \in Device : ~ (tpc = "clear" /\ temp = d /\ dpc[d] = "set")

\* _time is not about to change while some thread is outside next_slot and
\* may call current_time(), which reads it without a lock
TimeStable ==
    tpc = "scan" /\ temp = 0 => \A d \in Device : dpc[d] # "work"

\* A blocked thread whose condition has come true is about to be signalled:
\* neither side can sleep through the other's wakeup
NoLostWakeup ==
    /\ tpc = "wait" /\ (done[temp] \/ fsh[temp]) => dpc[temp] \in {"tell", "dtell"}
    /\ \A d \in Device :
          dpc[d] = "wait" /\ ~done[d] => tpc = "signal" /\ temp = d

\* A thread works in slot t after exactly t returns of next_slot: no call
\* returns early, and no slot passes a thread by
Lockstep ==
    \A d \in Device : dpc[d] = "work" => visits[d] = _time

\* The timer thread gives up only when every device has detached
TimerOutlivesDevices ==
    tpc = "exit" => \A d \in Device : fsh[d]

\* stop_timer frees no container that a thread could still touch
NoUseAfterFree ==
    mpc \in {"free", "end"} =>
        /\ tpc = "exit"
        /\ \A d \in Device : dpc[d] = "exit"

\* d was collected by the tick that began this releasing pass, and its
\* `done' is still to be cleared
Pending(d) ==
    \/ tpc \in {"rel", "clear"} /\ d <= temp
    \/ tpc = "signal" /\ d < temp

----------------------------------------------------------------------------
(* The inductive invariant behind the safety properties.                   *)

Scanning == tpc \in {"scan", "test", "sleep", "wait", "woken", "count"}
Releasing == tpc \in {"rel", "clear", "signal"}

\* Where the thread of d is between its signal and its return from next_slot
Waiting(d) == dpc[d] \in {"lock", "test", "sleep", "wait", "woken"}

\* The timer has seen d done or finished in this slot, and still relies on it
Collected(d) ==
    \/ Scanning /\ d > temp
    \/ tpc = "count" /\ d = temp
    \/ Pending(d)

\* How far main is decides which threads there are
PhaseInv ==
    /\ mpc = "attach" <=> tpc = "off"
    /\ mpc = "attach" => ~timer_started /\ \A d \in Device : dpc[d] = "none"
    /\ mpc \in {"spawn", "join", "stopped"} => dev_list = N
    /\ timer_stop <=> mpc \in {"stopped", "free", "end"}
    /\ timer_stop => \A d \in Device : dpc[d] = "exit"
    /\ mpc \in {"free", "end"} => tpc = "exit"
    /\ tpc \in {"test", "sleep", "wait", "woken", "count", "clear", "signal"}
          => temp # 0

\* Who holds a mutex follows from where the two threads are
LockInv ==
    \A d \in Device :
        /\ event_lock[d] = "timer" <=> tpc \in {"test", "sleep", "count"} /\ temp = d
        /\ event_lock[d] = "device" <=> dpc[d] \in {"set", "tell", "dset", "dtell"}
        /\ timer_lock[d] = "timer" <=> tpc \in {"clear", "signal"} /\ temp = d
        /\ timer_lock[d] = "device" <=> dpc[d] \in {"test", "sleep", "unlock"}

\* The two flags of a device, its thread and the timer agree
FlagInv ==
    \A d \in Device :
        /\ done[d] => dpc[d] = "tell" \/ Waiting(d)
        /\ dpc[d] \in {"tell", "sleep"} => done[d]
        /\ fsh[d] <=> dpc[d] \in {"dtell", "exit"}
        /\ Collected(d) => (done[d] /\ Waiting(d)) \/ dpc[d] = "exit"
        /\ tpc = "count" /\ d = temp => done[d] \/ fsh[d]
        /\ tpc = "sleep" /\ d = temp => ~done[d] /\ ~fsh[d]

\* Each thread has returned from next_slot once per slot that has passed,
\* but for the one return that is under way
VisitInv ==
    \A d \in Device :
        \/ fsh[d]
        \/ visits[d] = (IF /\ Waiting(d) \/ dpc[d] = "unlock"
                           /\ ~done[d] \/ Pending(d)
                        THEN _time - 1 ELSE _time)

\* nfsh catches up with nevent only if every device counted had detached
CountInv ==
    /\ Scanning \/ Releasing => nfsh <= nevent
    /\ Scanning /\ nfsh = nevent => \A d \in Device : d > temp => fsh[d]
    /\ Releasing /\ nfsh = nevent => \A d \in Device : fsh[d]
    /\ tpc = "exit" => \A d \in Device : fsh[d]

IInv ==
    /\ TypeOK
    /\ PhaseInv
    /\ LockInv
    /\ FlagInv
    /\ NoLostWakeup
    /\ VisitInv
    /\ CountInv

----------------------------------------------------------------------------
(* The refinement.                                                         *)

\* What device d still owes to the current slot, in the terms of SlotBarrier
StatusOf(d) ==
    IF fsh[d] THEN "gone"
    ELSE IF done[d] /\ ~Pending(d) THEN "arrived"
    ELSE "work"

Barrier == INSTANCE SlotBarrier WITH
               time <- _time,
               st   <- [d \in Device |-> StatusOf(d)]

\* timer.c implements the barrier of SlotBarrier
ImplementsBarrier == Barrier!BSpec

\* next_slot returns: the next slot comes for everyone who waits for it
NextSlotReturns ==
    \A d \in Device : dpc[d] = "lock" ~> dpc[d] = "work"

\* Once all devices have detached, the timer thread stops, stop_timer
\* returns and the program ends
Termination == <>(mpc = "end")
=============================================================================
