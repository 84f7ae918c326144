CONSTANTS
    p1 = p1
    p2 = p2
    p3 = p3
    o1 = o1
    o2 = o2
    processType = processType
    fileType = fileType
    Process = {p1, p2, p3}
    Object = {o1, o2}
    NoObject = NoObject
    Types = {processType, fileType}
    AnyType = AnyType
    TypeOf <- SameType
    MAX_HANDLE_COUNT = 2
    Inherited = {o1}
    HeldLimit = 2
SYMMETRY ProcessSymmetry
SPECIFICATION Spec
INVARIANT TypeOK
INVARIANT CountsAreReferences
INVARIANT ExistsWhileReferenced
INVARIANT SleepersAreQueued
INVARIANT CountsNeverCrash
