CONSTANTS
    Idle = idle
    p1 = p1
    p2 = p2
    p3 = p3
    Process = {idle, p1, p2, p3}
    PROCESS_PRIORITY_LEVELS = 2
    QUANTUM = 2
    TICK = 1
    ULONG_RANGE = 4
    Sleeps = {0, 2}
    NewPriorities = {0, 1}
SPECIFICATION FairSpec
PROPERTY MostUrgentRuns
PROPERTY SleeperWakes
