CONSTANTS
    Idle = idle
    p1 = p1
    p2 = p2
    p3 = p3
    Process = {idle, p1, p2, p3}
    PROCESS_PRIORITY_LEVELS = 2
    QUANTUM = 2
    TICK = 2
    ULONG_RANGE = 16
    Sleeps = {0, 1, 3, 4}
    NewPriorities = {0, 1}
SYMMETRY ProcessSymmetry
SPECIFICATION TimedSpec
CONSTRAINT CounterFarFromLimit
PROPERTY SleepIsNeverShort
PROPERTY SleepIsNeverLong
