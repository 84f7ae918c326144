CONSTANTS
    Idle = idle
    p1 = p1
    p2 = p2
    p3 = p3
    Process = {idle, p1, p2, p3}
    PROCESS_PRIORITY_LEVELS = 2
    QUANTUM = 1
    TICK = 1
    ULONG_RANGE = 2
    Sleeps = {0}
    NewPriorities = {}
    NodeCount = 4
    NoNode = NoNode
    m1 = m1
    m2 = m2
    Message = {m1, m2}
    NoMessage = NoMessage
    Types = {0, 1}
    TimeOuts = {0}
SYMMETRY MessagesSymmetry
SPECIFICATION MessagesSpec
PROPERTY SleepsLastTheirTime
