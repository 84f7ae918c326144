CONSTANTS
    N = 3
    Waiter = Waiter
    NoMessage = NoMessage
    NoType = NoType
    MaxRequests = 1
    LONG_RANGE = 2048
    PsAvailApps <- Programs
    Garbage <- Remains
    PIDs <- SomePIDs
    Lines <- SomeLines
SPECIFICATION CommandsSpec
INVARIANT PhTypeOK
INVARIANT ForksAccounted
INVARIANT NeighboursNeverEatTogether
INVARIANT ArgumentsArrive
INVARIANT ProgramsFoundByName
PROPERTY SomebodyEats
PROPERTY MealsEndWithTheWaiter
