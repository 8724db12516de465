SPECIFICATION FairSpec
CONSTANTS
    N = 3
    MaxTime = 2
INVARIANTS
    TypeOK
    NoDoneRace
    TimeStable
    NoLostWakeup
    Lockstep
    TimerOutlivesDevices
    NoUseAfterFree
PROPERTIES
    ImplementsBarrier
    NextSlotReturns
    Termination
