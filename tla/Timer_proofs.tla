---------------------------- MODULE Timer_proofs ----------------------------
(***************************************************************************)
(* Proofs about Timer.tla: IInv is an inductive invariant, it implies the  *)
(* safety properties the runs check, and Timer implements SlotBarrier.     *)
(* One lemma per conjunct of IInv, one step per action.                    *)
(***************************************************************************)
EXTENDS Timer, TLAPS

\* The initial state satisfies the inductive invariant
LEMMA InitIInv == Init => IInv
<1> SUFFICES ASSUME Init PROVE IInv
  OBVIOUS
<1> USE NAssumption DEF Init, Device, Scanning, Releasing, Waiting, Collected,
        Pending
<1>1. TypeOK
  <2>1. tpc \in TimerPC /\ mpc \in MainPC  BY DEF TimerPC, MainPC
  <2>2. dpc \in [Device -> DevicePC]  BY DEF DevicePC
  <2>3. event_lock \in [Device -> Holder] /\ timer_lock \in [Device -> Holder]
    BY DEF Holder
  <2>4. done \in [Device -> BOOLEAN] /\ fsh \in [Device -> BOOLEAN]  OBVIOUS
  <2>5. dev_list \in 0 .. N /\ temp \in 0 .. N /\ visits \in [Device -> Nat]
    OBVIOUS
  <2> QED  BY <2>1, <2>2, <2>3, <2>4, <2>5 DEF TypeOK
<1>2. PhaseInv  BY DEF PhaseInv
<1>3. LockInv  BY DEF LockInv
<1>4. FlagInv  BY DEF FlagInv
<1>5. NoLostWakeup  BY DEF NoLostWakeup
<1>6. VisitInv  BY DEF VisitInv
<1>7. CountInv  BY DEF CountInv
<1> QED  BY <1>1, <1>2, <1>3, <1>4, <1>5, <1>6, <1>7 DEF IInv


\* Every step keeps the types; the timer never moves its cursor past NULL,
\* because it is only inside a container when temp is not NULL
LEMMA TypeStep ==
    ASSUME TypeOK, PhaseInv, [Next]_vars
    PROVE  TypeOK'
<1> USE NAssumption DEF TypeOK, PhaseInv, Device, Holder, TimerPC, DevicePC,
        MainPC, shared, tlocal, locks
<1>1. CASE Main
  <2>1. CASE AttachEvent  BY <2>1 DEF AttachEvent
  <2>2. CASE StartTimer  BY <2>2 DEF StartTimer
  <2>3. ASSUME NEW dd \in Device, Spawn(dd) PROVE TypeOK'
    BY <2>3 DEF Spawn
  <2>4. CASE StopTimer  BY <2>4 DEF StopTimer
  <2>5. CASE JoinTimer  BY <2>5 DEF JoinTimer
  <2>6. CASE FreeDevice  BY <2>6 DEF FreeDevice
  <2> QED  BY <1>1, <2>1, <2>2, <2>3, <2>4, <2>5, <2>6 DEF Main
<1>2. CASE TimerThread
  <2>1. CASE TimerTop  BY <2>1 DEF TimerTop
  <2>2. CASE TimerLockEvent  BY <2>2 DEF TimerLockEvent
  <2>3. CASE TimerTest  BY <2>3 DEF TimerTest
  <2>4. CASE TimerWait  BY <2>4 DEF TimerWait
  <2>5. CASE TimerRelock  BY <2>5 DEF TimerRelock
  <2>6. CASE TimerCount  BY <2>6 DEF TimerCount
  <2>7. CASE TimerTick  BY <2>7 DEF TimerTick
  <2>8. CASE TimerLockTimer  BY <2>8 DEF TimerLockTimer
  <2>9. CASE TimerClear  BY <2>9 DEF TimerClear
  <2>10. CASE TimerSignal  BY <2>10 DEF TimerSignal
  <2>11. CASE TimerEndSlot  BY <2>11 DEF TimerEndSlot
  <2> QED  BY <1>2, <2>1, <2>2, <2>3, <2>4, <2>5, <2>6, <2>7, <2>8, <2>9,
           <2>10, <2>11
           DEF TimerThread
<1>3. CASE TimerSpurious  BY <1>3 DEF TimerSpurious
<1>4. ASSUME NEW dd \in Device, DeviceThread(dd) PROVE TypeOK'
  <2>1. CASE NextSlot(dd)  BY <2>1 DEF NextSlot
  <2>2. CASE SetDone(dd)  BY <2>2 DEF SetDone
  <2>3. CASE TellDone(dd)  BY <2>3 DEF TellDone, SignalEvent
  <2>4. CASE LockTimer(dd)  BY <2>4 DEF LockTimer
  <2>5. CASE TestDone(dd)  BY <2>5 DEF TestDone
  <2>6. CASE WaitTimer(dd)  BY <2>6 DEF WaitTimer
  <2>7. CASE LeaveNextSlot(dd)  BY <2>7 DEF LeaveNextSlot
  <2>8. CASE DetachEvent(dd)  BY <2>8 DEF DetachEvent
  <2>9. CASE SetFsh(dd)  BY <2>9 DEF SetFsh
  <2>10. CASE TellFsh(dd)  BY <2>10 DEF TellFsh, SignalEvent
  <2> QED  BY <1>4, <2>1, <2>2, <2>3, <2>4, <2>5, <2>6, <2>7, <2>8, <2>9,
           <2>10
           DEF DeviceThread
<1>5. ASSUME NEW dd \in Device, DeviceSpurious(dd) PROVE TypeOK'
  BY <1>5 DEF DeviceSpurious
<1>6. CASE UNCHANGED vars  BY <1>6 DEF vars
<1> QED  BY <1>1, <1>2, <1>3, <1>4, <1>5, <1>6 DEF Next, Finished

\* The threads start and end with main
LEMMA PhaseStep ==
    ASSUME TypeOK, PhaseInv, [Next]_vars
    PROVE  PhaseInv'
<1> USE NAssumption DEF TypeOK, PhaseInv, Device, DevicePC, MainPC, shared,
        tlocal, locks
<1>1. CASE Main
  <2>1. CASE AttachEvent  BY <2>1 DEF AttachEvent
  <2>2. CASE StartTimer  BY <2>2 DEF StartTimer
  <2>3. ASSUME NEW dd \in Device, Spawn(dd) PROVE PhaseInv'
    BY <2>3 DEF Spawn
  <2>4. CASE StopTimer  BY <2>4 DEF StopTimer
  <2>5. CASE JoinTimer  BY <2>5 DEF JoinTimer
  <2>6. CASE FreeDevice  BY <2>6 DEF FreeDevice
  <2> QED  BY <1>1, <2>1, <2>2, <2>3, <2>4, <2>5, <2>6 DEF Main
<1>2. CASE TimerThread
  <2>1. CASE TimerTop  BY <2>1 DEF TimerTop
  <2>2. CASE TimerLockEvent  BY <2>2 DEF TimerLockEvent
  <2>3. CASE TimerTest  BY <2>3 DEF TimerTest
  <2>4. CASE TimerWait  BY <2>4 DEF TimerWait
  <2>5. CASE TimerRelock  BY <2>5 DEF TimerRelock
  <2>6. CASE TimerCount  BY <2>6 DEF TimerCount
  <2>7. CASE TimerTick  BY <2>7 DEF TimerTick
  <2>8. CASE TimerLockTimer  BY <2>8 DEF TimerLockTimer
  <2>9. CASE TimerClear  BY <2>9 DEF TimerClear
  <2>10. CASE TimerSignal  BY <2>10 DEF TimerSignal
  <2>11. CASE TimerEndSlot  BY <2>11 DEF TimerEndSlot
  <2> QED  BY <1>2, <2>1, <2>2, <2>3, <2>4, <2>5, <2>6, <2>7, <2>8, <2>9,
           <2>10, <2>11
           DEF TimerThread
<1>3. CASE TimerSpurious  BY <1>3 DEF TimerSpurious
<1>4. ASSUME NEW dd \in Device, DeviceThread(dd) PROVE PhaseInv'
  <2>1. CASE NextSlot(dd)  BY <2>1 DEF NextSlot
  <2>2. CASE SetDone(dd)  BY <2>2 DEF SetDone
  <2>3. CASE TellDone(dd)  BY <2>3 DEF TellDone, SignalEvent
  <2>4. CASE LockTimer(dd)  BY <2>4 DEF LockTimer
  <2>5. CASE TestDone(dd)  BY <2>5 DEF TestDone
  <2>6. CASE WaitTimer(dd)  BY <2>6 DEF WaitTimer
  <2>7. CASE LeaveNextSlot(dd)  BY <2>7 DEF LeaveNextSlot
  <2>8. CASE DetachEvent(dd)  BY <2>8 DEF DetachEvent
  <2>9. CASE SetFsh(dd)  BY <2>9 DEF SetFsh
  <2>10. CASE TellFsh(dd)  BY <2>10 DEF TellFsh, SignalEvent
  <2> QED  BY <1>4, <2>1, <2>2, <2>3, <2>4, <2>5, <2>6, <2>7, <2>8, <2>9,
           <2>10
           DEF DeviceThread
<1>5. ASSUME NEW dd \in Device, DeviceSpurious(dd) PROVE PhaseInv'
  BY <1>5 DEF DeviceSpurious
<1>6. CASE UNCHANGED vars  BY <1>6 DEF vars
<1> QED  BY <1>1, <1>2, <1>3, <1>4, <1>5, <1>6 DEF Next, Finished

\* A mutex changes hands only with the program counter of its holder
LEMMA LockStep ==
    ASSUME TypeOK, PhaseInv, LockInv, [Next]_vars
    PROVE  LockInv'
<1> USE NAssumption DEF TypeOK, PhaseInv, LockInv, Device, Holder, DevicePC,
        shared, tlocal, locks
<1>1. CASE Main
  <2>1. CASE AttachEvent  BY <2>1 DEF AttachEvent
  <2>2. CASE StartTimer  BY <2>2 DEF StartTimer
  <2>3. ASSUME NEW dd \in Device, Spawn(dd) PROVE LockInv'
    BY <2>3 DEF Spawn
  <2>4. CASE StopTimer  BY <2>4 DEF StopTimer
  <2>5. CASE JoinTimer  BY <2>5 DEF JoinTimer
  <2>6. CASE FreeDevice  BY <2>6 DEF FreeDevice
  <2> QED  BY <1>1, <2>1, <2>2, <2>3, <2>4, <2>5, <2>6 DEF Main
<1>2. CASE TimerThread
  <2>1. CASE TimerTop  BY <2>1 DEF TimerTop
  <2>2. CASE TimerLockEvent  BY <2>2 DEF TimerLockEvent
  <2>3. CASE TimerTest  BY <2>3 DEF TimerTest
  <2>4. CASE TimerWait  BY <2>4 DEF TimerWait
  <2>5. CASE TimerRelock  BY <2>5 DEF TimerRelock
  <2>6. CASE TimerCount  BY <2>6 DEF TimerCount
  <2>7. CASE TimerTick  BY <2>7 DEF TimerTick
  <2>8. CASE TimerLockTimer  BY <2>8 DEF TimerLockTimer
  <2>9. CASE TimerClear  BY <2>9 DEF TimerClear
  <2>10. CASE TimerSignal  BY <2>10 DEF TimerSignal
  <2>11. CASE TimerEndSlot  BY <2>11 DEF TimerEndSlot
  <2> QED  BY <1>2, <2>1, <2>2, <2>3, <2>4, <2>5, <2>6, <2>7, <2>8, <2>9,
           <2>10, <2>11
           DEF TimerThread
<1>3. CASE TimerSpurious  BY <1>3 DEF TimerSpurious
<1>4. ASSUME NEW dd \in Device, DeviceThread(dd) PROVE LockInv'
  <2>1. CASE NextSlot(dd)  BY <2>1 DEF NextSlot
  <2>2. CASE SetDone(dd)  BY <2>2 DEF SetDone
  <2>3. CASE TellDone(dd)  BY <2>3 DEF TellDone, SignalEvent
  <2>4. CASE LockTimer(dd)  BY <2>4 DEF LockTimer
  <2>5. CASE TestDone(dd)  BY <2>5 DEF TestDone
  <2>6. CASE WaitTimer(dd)  BY <2>6 DEF WaitTimer
  <2>7. CASE LeaveNextSlot(dd)  BY <2>7 DEF LeaveNextSlot
  <2>8. CASE DetachEvent(dd)  BY <2>8 DEF DetachEvent
  <2>9. CASE SetFsh(dd)  BY <2>9 DEF SetFsh
  <2>10. CASE TellFsh(dd)  BY <2>10 DEF TellFsh, SignalEvent
  <2> QED  BY <1>4, <2>1, <2>2, <2>3, <2>4, <2>5, <2>6, <2>7, <2>8, <2>9,
           <2>10
           DEF DeviceThread
<1>5. ASSUME NEW dd \in Device, DeviceSpurious(dd) PROVE LockInv'
  BY <1>5 DEF DeviceSpurious
<1>6. CASE UNCHANGED vars  BY <1>6 DEF vars
<1> QED  BY <1>1, <1>2, <1>3, <1>4, <1>5, <1>6 DEF Next, Finished

\* What the timer has seen of a device stays true until it clears the flag
LEMMA FlagStep ==
    ASSUME TypeOK, PhaseInv, LockInv, FlagInv, [Next]_vars
    PROVE  FlagInv'
<1> USE NAssumption DEF TypeOK, PhaseInv, LockInv, FlagInv, Scanning,
        Waiting, Collected, Pending, Device, DevicePC, MainPC, shared,
        tlocal, locks
<1>1. CASE Main
  <2>1. CASE AttachEvent  BY <2>1 DEF AttachEvent
  <2>2. CASE StartTimer  BY <2>2 DEF StartTimer
  <2>3. ASSUME NEW dd \in Device, Spawn(dd) PROVE FlagInv'
    BY <2>3 DEF Spawn
  <2>4. CASE StopTimer  BY <2>4 DEF StopTimer
  <2>5. CASE JoinTimer  BY <2>5 DEF JoinTimer
  <2>6. CASE FreeDevice  BY <2>6 DEF FreeDevice
  <2> QED  BY <1>1, <2>1, <2>2, <2>3, <2>4, <2>5, <2>6 DEF Main
<1>2. CASE TimerThread
  <2>1. CASE TimerTop  BY <2>1 DEF TimerTop
  <2>2. CASE TimerLockEvent  BY <2>2 DEF TimerLockEvent
  <2>3. CASE TimerTest  BY <2>3 DEF TimerTest
  <2>4. CASE TimerWait  BY <2>4 DEF TimerWait
  <2>5. CASE TimerRelock  BY <2>5 DEF TimerRelock
  <2>6. CASE TimerCount  BY <2>6 DEF TimerCount
  <2>7. CASE TimerTick  BY <2>7 DEF TimerTick
  <2>8. CASE TimerLockTimer  BY <2>8 DEF TimerLockTimer
  <2>9. CASE TimerClear
    <3> USE <2>9 DEF TimerClear
    <3>1. temp \in Device /\ tpc = "clear"  OBVIOUS
    <3>2. Waiting(temp) \/ dpc[temp] = "exit"  BY <3>1
    <3>3. dpc[temp] \notin {"tell", "sleep"}  BY <3>1, <3>2
    <3>4. SUFFICES ASSUME NEW d \in Device
                   PROVE  /\ done'[d] => dpc[d] = "tell" \/ Waiting(d)'
                          /\ dpc[d] \in {"tell", "sleep"} => done'[d]
                          /\ fsh[d] <=> dpc[d] \in {"dtell", "exit"}
                          /\ Collected(d)' => \/ done'[d] /\ Waiting(d)'
                                              \/ dpc[d] = "exit"
      BY <3>1
    <3>5. CASE d = temp  BY <3>1, <3>3, <3>5
    <3>6. CASE d # temp  BY <3>1, <3>6
    <3> QED  BY <3>5, <3>6
  <2>10. CASE TimerSignal  BY <2>10 DEF TimerSignal
  <2>11. CASE TimerEndSlot  BY <2>11 DEF TimerEndSlot
  <2> QED  BY <1>2, <2>1, <2>2, <2>3, <2>4, <2>5, <2>6, <2>7, <2>8, <2>9,
           <2>10, <2>11
           DEF TimerThread
<1>3. CASE TimerSpurious  BY <1>3 DEF TimerSpurious
<1>4. ASSUME NEW dd \in Device, DeviceThread(dd) PROVE FlagInv'
  <2>1. CASE NextSlot(dd)  BY <2>1 DEF NextSlot
  <2>2. CASE SetDone(dd)  BY <2>2 DEF SetDone
  <2>3. CASE TellDone(dd)  BY <2>3 DEF TellDone, SignalEvent
  <2>4. CASE LockTimer(dd)  BY <2>4 DEF LockTimer
  <2>5. CASE TestDone(dd)  BY <2>5 DEF TestDone
  <2>6. CASE WaitTimer(dd)  BY <2>6 DEF WaitTimer
  <2>7. CASE LeaveNextSlot(dd)  BY <2>7 DEF LeaveNextSlot
  <2>8. CASE DetachEvent(dd)  BY <2>8 DEF DetachEvent
  <2>9. CASE SetFsh(dd)
    <3> USE <2>9 DEF SetFsh
    <3>1. \A d \in Device : /\ dpc'[d] = IF d = dd THEN "dtell" ELSE dpc[d]
                            /\ fsh'[d] = IF d = dd THEN TRUE ELSE fsh[d]
      OBVIOUS
    <3>2. dpc[dd] = "dset" /\ ~done[dd]  OBVIOUS
    <3>3. \A d \in Device : Collected(d)' <=> Collected(d)  OBVIOUS
    <3>4. SUFFICES ASSUME NEW d \in Device
                   PROVE  FlagInv!(d)'
      BY DEF FlagInv
    <3>5. CASE d = dd  BY <3>1, <3>2, <3>3, <3>5
    <3>6. CASE d # dd  BY <3>1, <3>3, <3>6
    <3> QED  BY <3>5, <3>6
  <2>10. CASE TellFsh(dd)  BY <2>10 DEF TellFsh, SignalEvent
  <2> QED  BY <1>4, <2>1, <2>2, <2>3, <2>4, <2>5, <2>6, <2>7, <2>8, <2>9,
           <2>10
           DEF DeviceThread
<1>5. ASSUME NEW dd \in Device, DeviceSpurious(dd) PROVE FlagInv'
  BY <1>5 DEF DeviceSpurious
<1>6. CASE UNCHANGED vars  BY <1>6 DEF vars
<1> QED  BY <1>1, <1>2, <1>3, <1>4, <1>5, <1>6 DEF Next, Finished

\* A condition comes true only while the one who made it true still has
\* the signal ahead
LEMMA WakeupStep ==
    ASSUME TypeOK, PhaseInv, LockInv, FlagInv, NoLostWakeup, [Next]_vars
    PROVE  NoLostWakeup'
<1> USE NAssumption DEF TypeOK, PhaseInv, LockInv, FlagInv, NoLostWakeup,
        Device, DevicePC, MainPC, shared, tlocal, locks
<1>1. CASE Main
  <2>1. CASE AttachEvent  BY <2>1 DEF AttachEvent
  <2>2. CASE StartTimer  BY <2>2 DEF StartTimer
  <2>3. ASSUME NEW dd \in Device, Spawn(dd) PROVE NoLostWakeup'
    BY <2>3 DEF Spawn
  <2>4. CASE StopTimer  BY <2>4 DEF StopTimer
  <2>5. CASE JoinTimer  BY <2>5 DEF JoinTimer
  <2>6. CASE FreeDevice  BY <2>6 DEF FreeDevice
  <2> QED  BY <1>1, <2>1, <2>2, <2>3, <2>4, <2>5, <2>6 DEF Main
<1>2. CASE TimerThread
  <2>1. CASE TimerTop  BY <2>1 DEF TimerTop
  <2>2. CASE TimerLockEvent  BY <2>2 DEF TimerLockEvent
  <2>3. CASE TimerTest  BY <2>3 DEF TimerTest
  <2>4. CASE TimerWait  BY <2>4 DEF TimerWait
  <2>5. CASE TimerRelock  BY <2>5 DEF TimerRelock
  <2>6. CASE TimerCount  BY <2>6 DEF TimerCount
  <2>7. CASE TimerTick  BY <2>7 DEF TimerTick
  <2>8. CASE TimerLockTimer  BY <2>8 DEF TimerLockTimer
  <2>9. CASE TimerClear  BY <2>9 DEF TimerClear
  <2>10. CASE TimerSignal  BY <2>10 DEF TimerSignal
  <2>11. CASE TimerEndSlot  BY <2>11 DEF TimerEndSlot
  <2> QED  BY <1>2, <2>1, <2>2, <2>3, <2>4, <2>5, <2>6, <2>7, <2>8, <2>9,
           <2>10, <2>11
           DEF TimerThread
<1>3. CASE TimerSpurious  BY <1>3 DEF TimerSpurious
<1>4. ASSUME NEW dd \in Device, DeviceThread(dd) PROVE NoLostWakeup'
  <2>1. CASE NextSlot(dd)  BY <2>1 DEF NextSlot
  <2>2. CASE SetDone(dd)  BY <2>2 DEF SetDone
  <2>3. CASE TellDone(dd)  BY <2>3 DEF TellDone, SignalEvent
  <2>4. CASE LockTimer(dd)  BY <2>4 DEF LockTimer
  <2>5. CASE TestDone(dd)  BY <2>5 DEF TestDone
  <2>6. CASE WaitTimer(dd)  BY <2>6 DEF WaitTimer
  <2>7. CASE LeaveNextSlot(dd)  BY <2>7 DEF LeaveNextSlot
  <2>8. CASE DetachEvent(dd)  BY <2>8 DEF DetachEvent
  <2>9. CASE SetFsh(dd)  BY <2>9 DEF SetFsh
  <2>10. CASE TellFsh(dd)  BY <2>10 DEF TellFsh, SignalEvent
  <2> QED  BY <1>4, <2>1, <2>2, <2>3, <2>4, <2>5, <2>6, <2>7, <2>8, <2>9,
           <2>10
           DEF DeviceThread
<1>5. ASSUME NEW dd \in Device, DeviceSpurious(dd) PROVE NoLostWakeup'
  BY <1>5 DEF DeviceSpurious
<1>6. CASE UNCHANGED vars  BY <1>6 DEF vars
<1> QED  BY <1>1, <1>2, <1>3, <1>4, <1>5, <1>6 DEF Next, Finished

\* The clock and the number of returns of next_slot move together
LEMMA VisitStep ==
    ASSUME TypeOK, PhaseInv, LockInv, FlagInv, VisitInv, [Next]_vars
    PROVE  VisitInv'
<1> USE NAssumption DEF TypeOK, PhaseInv, LockInv, FlagInv, VisitInv,
        Scanning, Waiting, Collected, Pending, Device, DevicePC, MainPC,
        shared, tlocal, locks
<1>1. CASE Main
  <2>1. CASE AttachEvent  BY <2>1 DEF AttachEvent
  <2>2. CASE StartTimer  BY <2>2 DEF StartTimer
  <2>3. ASSUME NEW dd \in Device, Spawn(dd) PROVE VisitInv'
    BY <2>3 DEF Spawn
  <2>4. CASE StopTimer  BY <2>4 DEF StopTimer
  <2>5. CASE JoinTimer  BY <2>5 DEF JoinTimer
  <2>6. CASE FreeDevice  BY <2>6 DEF FreeDevice
  <2> QED  BY <1>1, <2>1, <2>2, <2>3, <2>4, <2>5, <2>6 DEF Main
<1>2. CASE TimerThread
  <2>1. CASE TimerTop  BY <2>1 DEF TimerTop
  <2>2. CASE TimerLockEvent  BY <2>2 DEF TimerLockEvent
  <2>3. CASE TimerTest  BY <2>3 DEF TimerTest
  <2>4. CASE TimerWait  BY <2>4 DEF TimerWait
  <2>5. CASE TimerRelock  BY <2>5 DEF TimerRelock
  <2>6. CASE TimerCount  BY <2>6 DEF TimerCount
  <2>7. CASE TimerTick  BY <2>7 DEF TimerTick
  <2>8. CASE TimerLockTimer  BY <2>8 DEF TimerLockTimer
  <2>9. CASE TimerClear  BY <2>9 DEF TimerClear
  <2>10. CASE TimerSignal  BY <2>10 DEF TimerSignal
  <2>11. CASE TimerEndSlot  BY <2>11 DEF TimerEndSlot
  <2> QED  BY <1>2, <2>1, <2>2, <2>3, <2>4, <2>5, <2>6, <2>7, <2>8, <2>9,
           <2>10, <2>11
           DEF TimerThread
<1>3. CASE TimerSpurious  BY <1>3 DEF TimerSpurious
<1>4. ASSUME NEW dd \in Device, DeviceThread(dd) PROVE VisitInv'
  <2>1. CASE NextSlot(dd)  BY <2>1 DEF NextSlot
  <2>2. CASE SetDone(dd)  BY <2>2 DEF SetDone
  <2>3. CASE TellDone(dd)  BY <2>3 DEF TellDone, SignalEvent
  <2>4. CASE LockTimer(dd)  BY <2>4 DEF LockTimer
  <2>5. CASE TestDone(dd)  BY <2>5 DEF TestDone
  <2>6. CASE WaitTimer(dd)  BY <2>6 DEF WaitTimer
  <2>7. CASE LeaveNextSlot(dd)  BY <2>7 DEF LeaveNextSlot
  <2>8. CASE DetachEvent(dd)  BY <2>8 DEF DetachEvent
  <2>9. CASE SetFsh(dd)  BY <2>9 DEF SetFsh
  <2>10. CASE TellFsh(dd)  BY <2>10 DEF TellFsh, SignalEvent
  <2> QED  BY <1>4, <2>1, <2>2, <2>3, <2>4, <2>5, <2>6, <2>7, <2>8, <2>9,
           <2>10
           DEF DeviceThread
<1>5. ASSUME NEW dd \in Device, DeviceSpurious(dd) PROVE VisitInv'
  BY <1>5 DEF DeviceSpurious
<1>6. CASE UNCHANGED vars  BY <1>6 DEF vars
<1> QED  BY <1>1, <1>2, <1>3, <1>4, <1>5, <1>6 DEF Next, Finished

\* nfsh = nevent says that all devices counted so far had detached
LEMMA CountStep ==
    ASSUME TypeOK, PhaseInv, FlagInv, CountInv, [Next]_vars
    PROVE  CountInv'
<1> USE NAssumption DEF TypeOK, PhaseInv, FlagInv, CountInv, Scanning,
        Releasing, Device, DevicePC, MainPC, shared, tlocal, locks
<1>1. CASE Main
  <2>1. CASE AttachEvent  BY <2>1 DEF AttachEvent
  <2>2. CASE StartTimer  BY <2>2 DEF StartTimer
  <2>3. ASSUME NEW dd \in Device, Spawn(dd) PROVE CountInv'
    BY <2>3 DEF Spawn
  <2>4. CASE StopTimer  BY <2>4 DEF StopTimer
  <2>5. CASE JoinTimer  BY <2>5 DEF JoinTimer
  <2>6. CASE FreeDevice  BY <2>6 DEF FreeDevice
  <2> QED  BY <1>1, <2>1, <2>2, <2>3, <2>4, <2>5, <2>6 DEF Main
<1>2. CASE TimerThread
  <2>1. CASE TimerTop  BY <2>1 DEF TimerTop
  <2>2. CASE TimerLockEvent  BY <2>2 DEF TimerLockEvent
  <2>3. CASE TimerTest  BY <2>3 DEF TimerTest
  <2>4. CASE TimerWait  BY <2>4 DEF TimerWait
  <2>5. CASE TimerRelock  BY <2>5 DEF TimerRelock
  <2>6. CASE TimerCount  BY <2>6 DEF TimerCount
  <2>7. CASE TimerTick  BY <2>7 DEF TimerTick
  <2>8. CASE TimerLockTimer  BY <2>8 DEF TimerLockTimer
  <2>9. CASE TimerClear  BY <2>9 DEF TimerClear
  <2>10. CASE TimerSignal  BY <2>10 DEF TimerSignal
  <2>11. CASE TimerEndSlot  BY <2>11 DEF TimerEndSlot
  <2> QED  BY <1>2, <2>1, <2>2, <2>3, <2>4, <2>5, <2>6, <2>7, <2>8, <2>9,
           <2>10, <2>11
           DEF TimerThread
<1>3. CASE TimerSpurious  BY <1>3 DEF TimerSpurious
<1>4. ASSUME NEW dd \in Device, DeviceThread(dd) PROVE CountInv'
  <2>1. CASE NextSlot(dd)  BY <2>1 DEF NextSlot
  <2>2. CASE SetDone(dd)  BY <2>2 DEF SetDone
  <2>3. CASE TellDone(dd)  BY <2>3 DEF TellDone, SignalEvent
  <2>4. CASE LockTimer(dd)  BY <2>4 DEF LockTimer
  <2>5. CASE TestDone(dd)  BY <2>5 DEF TestDone
  <2>6. CASE WaitTimer(dd)  BY <2>6 DEF WaitTimer
  <2>7. CASE LeaveNextSlot(dd)  BY <2>7 DEF LeaveNextSlot
  <2>8. CASE DetachEvent(dd)  BY <2>8 DEF DetachEvent
  <2>9. CASE SetFsh(dd)  BY <2>9 DEF SetFsh
  <2>10. CASE TellFsh(dd)  BY <2>10 DEF TellFsh, SignalEvent
  <2> QED  BY <1>4, <2>1, <2>2, <2>3, <2>4, <2>5, <2>6, <2>7, <2>8, <2>9,
           <2>10
           DEF DeviceThread
<1>5. ASSUME NEW dd \in Device, DeviceSpurious(dd) PROVE CountInv'
  BY <1>5 DEF DeviceSpurious
<1>6. CASE UNCHANGED vars  BY <1>6 DEF vars
<1> QED  BY <1>1, <1>2, <1>3, <1>4, <1>5, <1>6 DEF Next, Finished

\* IInv is inductive
LEMMA Inductive == IInv /\ [Next]_vars => IInv'
  BY TypeStep, PhaseStep, LockStep, FlagStep, WakeupStep, VisitStep, CountStep
  DEF IInv

\* Every reachable state satisfies IInv, for any number of devices
THEOREM Invariance == Spec => []IInv
  BY InitIInv, Inductive, PTL DEF Spec

\* The variables of timer.c keep their types, and the timer thread never
\* looks into the container of a NULL cursor
THEOREM TypeCorrect == Spec => []TypeOK
<1>1. IInv => TypeOK  BY DEF IInv
<1> QED  BY <1>1, Invariance, PTL

\* The write of `done' in next_slot and the one in timer_routine, made under
\* different mutexes, never meet
THEOREM DoneRaceFree == Spec => []NoDoneRace
<1>1. ASSUME IInv, NEW d \in Device, tpc = "clear", temp = d
      PROVE  dpc[d] # "set"
  <2>1. Collected(d)  BY <1>1 DEF IInv, TypeOK, Collected, Pending, Device
  <2>2. Waiting(d) \/ dpc[d] = "exit"  BY <1>1, <2>1 DEF IInv, FlagInv
  <2> QED  BY <2>2 DEF Waiting
<1>2. IInv => NoDoneRace  BY <1>1 DEF NoDoneRace
<1> QED  BY <1>2, Invariance, PTL

\* current_time() needs no lock: _time changes only while every thread that
\* could read it is inside next_slot or has ended
THEOREM TimeReadSafe == Spec => []TimeStable
<1>1. ASSUME IInv, tpc = "scan", temp = 0, NEW d \in Device
      PROVE  dpc[d] # "work"
  <2>1. Collected(d)  BY <1>1 DEF Collected, Scanning, Device
  <2>2. Waiting(d) \/ dpc[d] = "exit"  BY <1>1, <2>1 DEF IInv, FlagInv
  <2> QED  BY <2>2 DEF Waiting
<1>2. IInv => TimeStable  BY <1>1 DEF TimeStable
<1> QED  BY <1>2, Invariance, PTL

\* No thread of the barrier sleeps through the signal meant for it
THEOREM WakeupsNotLost == Spec => []NoLostWakeup
<1>1. IInv => NoLostWakeup  BY DEF IInv
<1> QED  BY <1>1, Invariance, PTL

\* Every thread takes part in every slot, once
THEOREM SlotsInLockstep == Spec => []Lockstep
<1>1. IInv => Lockstep
  BY NAssumption
  DEF IInv, TypeOK, FlagInv, VisitInv, Lockstep, Waiting, Device
<1> QED  BY <1>1, Invariance, PTL

\* The timer thread does not leave while a device may still need a slot
THEOREM TimerServesAll == Spec => []TimerOutlivesDevices
<1>1. IInv => TimerOutlivesDevices
  BY DEF IInv, CountInv, TimerOutlivesDevices
<1> QED  BY <1>1, Invariance, PTL

\* stop_timer destroys mutexes and frees containers nobody uses any more
THEOREM FreesUnused == Spec => []NoUseAfterFree
<1>1. IInv => NoUseAfterFree
  BY DEF IInv, PhaseInv, NoUseAfterFree
<1> QED  BY <1>1, Invariance, PTL

----------------------------------------------------------------------------
(* The refinement: setting `done' is Arrive, setting `fsh' is Leave, the    *)
(* increment of _time is Tick, and every other step stutters.              *)

\* A step that leaves the clock and every status alone stutters
LEMMA Stutter ==
    ASSUME _time' = _time, \A d \in Device : StatusOf(d)' = StatusOf(d)
    PROVE  UNCHANGED Barrier!bvars
  BY DEF Barrier!bvars

\* The timer starts as the barrier does
LEMMA BarrierInit == Init => Barrier!BInit
  BY DEF Init, Barrier!BInit, StatusOf, Device

\* The timer thread ticks or stutters
LEMMA TimerRefines ==
    ASSUME IInv, IInv', TimerThread
    PROVE  Barrier!Tick \/ UNCHANGED Barrier!bvars
<1> USE NAssumption DEF IInv, TypeOK, Device, StatusOf, Pending, shared, tlocal,
        locks
<1>1. CASE TimerTop  BY <1>1, Stutter DEF TimerTop
<1>2. CASE TimerLockEvent  BY <1>2, Stutter DEF TimerLockEvent
<1>3. CASE TimerTest  BY <1>3, Stutter DEF TimerTest
<1>4. CASE TimerWait  BY <1>4, Stutter DEF TimerWait
<1>5. CASE TimerRelock  BY <1>5, Stutter DEF TimerRelock
<1>6. CASE TimerCount  BY <1>6, Stutter DEF TimerCount
<1>7. CASE TimerTick
  <2>1. \A d \in Device : fsh[d] \/ done[d]
    BY <1>7 DEF TimerTick, FlagInv, Collected, Scanning
  <2>2. \A d \in Device : StatusOf(d) # "work"
    BY <1>7, <2>1 DEF TimerTick
  <2>3. dev_list = N
    BY <1>7 DEF TimerTick, PhaseInv, MainPC
  <2>4. \A d \in Device :
           StatusOf(d)' = IF StatusOf(d) = "arrived" THEN "work" ELSE StatusOf(d)
    BY <1>7, <2>1, <2>3 DEF TimerTick
  <2> QED  BY <1>7, <2>2, <2>4 DEF TimerTick, Barrier!Tick, Barrier!Release
<1>8. CASE TimerLockTimer  BY <1>8, Stutter DEF TimerLockTimer
<1>9. CASE TimerClear
  <2>1. \A d \in Device : StatusOf(d)' = StatusOf(d)
    BY <1>9 DEF TimerClear
  <2> QED  BY <1>9, <2>1, Stutter DEF TimerClear
<1>10. CASE TimerSignal  BY <1>10, Stutter DEF TimerSignal
<1>11. CASE TimerEndSlot  BY <1>11, Stutter DEF TimerEndSlot
<1> QED
  BY <1>1, <1>2, <1>3, <1>4, <1>5, <1>6, <1>7, <1>8, <1>9, <1>10, <1>11
  DEF TimerThread

\* The thread of a device arrives, leaves or stutters
LEMMA DeviceRefines ==
    ASSUME IInv, IInv', NEW dd \in Device, DeviceThread(dd)
    PROVE  Barrier!Arrive(dd) \/ Barrier!Leave(dd) \/ UNCHANGED Barrier!bvars
<1> USE NAssumption DEF IInv, TypeOK, Device, StatusOf, Pending, shared, tlocal,
        locks
<1>1. CASE NextSlot(dd)  BY <1>1, Stutter DEF NextSlot
<1>2. CASE SetDone(dd)
  <2>1. ~done[dd] /\ ~fsh[dd] /\ ~Pending(dd)
    BY <1>2 DEF SetDone, FlagInv, Waiting, Collected
  <2>2. StatusOf(dd) = "work" /\ StatusOf(dd)' = "arrived"
    BY <1>2, <2>1 DEF SetDone
  <2>3. \A d \in Device \ {dd} : StatusOf(d)' = StatusOf(d)
    BY <1>2 DEF SetDone
  <2>4. UNCHANGED _time  BY <1>2 DEF SetDone
  <2> HIDE DEF StatusOf, IInv
  <2> QED  BY <2>2, <2>3, <2>4 DEF Barrier!Arrive
<1>3. CASE TellDone(dd)  BY <1>3, Stutter DEF TellDone, SignalEvent
<1>4. CASE LockTimer(dd)  BY <1>4, Stutter DEF LockTimer
<1>5. CASE TestDone(dd)  BY <1>5, Stutter DEF TestDone
<1>6. CASE WaitTimer(dd)  BY <1>6, Stutter DEF WaitTimer
<1>7. CASE LeaveNextSlot(dd)  BY <1>7, Stutter DEF LeaveNextSlot
<1>8. CASE DetachEvent(dd)  BY <1>8, Stutter DEF DetachEvent
<1>9. CASE SetFsh(dd)
  <2>1. ~done[dd] /\ ~fsh[dd]
    BY <1>9 DEF SetFsh, FlagInv, Waiting
  <2>2. StatusOf(dd) = "work" /\ StatusOf(dd)' = "gone"
    BY <1>9, <2>1 DEF SetFsh
  <2>3. \A d \in Device \ {dd} : StatusOf(d)' = StatusOf(d)
    BY <1>9 DEF SetFsh
  <2> QED  BY <1>9, <2>2, <2>3 DEF SetFsh, Barrier!Leave
<1>10. CASE TellFsh(dd)  BY <1>10, Stutter DEF TellFsh, SignalEvent
<1> QED
  BY <1>1, <1>2, <1>3, <1>4, <1>5, <1>6, <1>7, <1>8, <1>9, <1>10
  DEF DeviceThread

\* main touches neither the clock nor a flag
LEMMA MainRefines == ASSUME IInv, Main PROVE UNCHANGED Barrier!bvars
<1> USE DEF StatusOf, Pending, shared, tlocal, locks
<1>1. CASE AttachEvent  BY <1>1, Stutter DEF AttachEvent
<1>2. CASE StartTimer  BY <1>2, Stutter DEF StartTimer, IInv, PhaseInv
<1>3. CASE \E d \in Device : Spawn(d)  BY <1>3, Stutter DEF Spawn
<1>4. CASE StopTimer  BY <1>4, Stutter DEF StopTimer
<1>5. CASE JoinTimer  BY <1>5, Stutter DEF JoinTimer
<1>6. CASE FreeDevice  BY <1>6, Stutter DEF FreeDevice
<1> QED  BY <1>1, <1>2, <1>3, <1>4, <1>5, <1>6 DEF Main

\* Every step of the timer is a step of the barrier, or none
LEMMA NextRefines ==
    ASSUME IInv, IInv', [Next]_vars
    PROVE  [Barrier!BNext]_(Barrier!bvars)
<1> USE DEF Barrier!BNext
<1>1. CASE Main  BY <1>1, MainRefines
<1>2. CASE TimerThread  BY <1>2, TimerRefines
<1>3. CASE TimerSpurious
  BY <1>3, Stutter DEF TimerSpurious, StatusOf, Pending, shared, tlocal, locks
<1>4. CASE \E d \in Device : DeviceThread(d)  BY <1>4, DeviceRefines
<1>5. CASE \E d \in Device : DeviceSpurious(d)
  BY <1>5, Stutter DEF DeviceSpurious, StatusOf, Pending, shared, tlocal, locks
<1>6. CASE UNCHANGED vars
  BY <1>6, Stutter DEF vars, StatusOf, Pending
<1> QED  BY <1>1, <1>2, <1>3, <1>4, <1>5, <1>6 DEF Next, Finished

\* timer.c implements the barrier: whatever its threads do is a run of
\* SlotBarrier
THEOREM RefinesBarrier == Spec => ImplementsBarrier
  BY BarrierInit, Invariance, NextRefines, PTL
  DEF Spec, ImplementsBarrier, Barrier!BSpec
=============================================================================
