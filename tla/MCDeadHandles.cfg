CONSTANTS
    Idle = idle
    p1 = p1
    p2 = p2
    p3 = p3
    Process = {idle, p1, p2, p3}
    NoProcess = NoProcess
    processType = processType
    AnyType = AnyType
    PROCESS_PRIORITY_LEVELS = 2
    QUANTUM = 1
    TICK = 1
    ULONG_RANGE = 1
    Sleeps = {0}
    NewPriorities = {0}
    CreatePriorities = {1}
    MAX_HANDLE_COUNT = 1
    Victims = {"self", "ready"}
SYMMETRY ProcessSymmetry
SPECIFICATION PsSpec
INVARIANT DeadHoldNoObjects
