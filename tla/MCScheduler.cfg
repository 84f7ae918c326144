CONSTANTS
    Idle = idle
    p1 = p1
    p2 = p2
    p3 = p3
    Process = {idle, p1, p2, p3}
    PROCESS_PRIORITY_LEVELS = 3
    QUANTUM = 2
    TICK = 1
    ULONG_RANGE = 8
    Sleeps = {0, 2, 3}
    NewPriorities = {0, 2}
SYMMETRY ProcessSymmetry
SPECIFICATION Spec
INVARIANT TypeOK
INVARIANT EveryProcessOnItsList
INVARIANT TimerListSorted
INVARIANT OnlyLossOfProcessZeroHalts
PROPERTY DispatchesHighest
PROPERTY WakeupPreempts
PROPERTY TickWakesAllDue
