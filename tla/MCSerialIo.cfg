CONSTANTS
    Idle = idle
    p1 = p1
    p2 = p2
    p3 = p3
    Process = {idle, p1, p2, p3}
    PROCESS_PRIORITY_LEVELS = 2
    QUANTUM = 1
    TICK = 1
    ULONG_RANGE = 2
    Sleeps = {0}
    NewPriorities = {0, 1}
    a = a
    b = b
    Char = {a, b}
    NUL = NUL
    Text <- Texts
    FIFO_SIZE = 3
    NoPointer = NoPointer
    MaxTexts = 2
SYMMETRY ProcessSymmetry
SPECIFICATION IoSpec
INVARIANT IoTypeOK
INVARIANT NulBehindInput
INVARIANT ReadersAreBlocked
PROPERTY OnlyDeadReadersHalt
PROPERTY ReadersGetCharacters
PROPERTY ImplementsTerminal
