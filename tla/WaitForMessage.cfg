CONSTANTS
    N = 4
    Wanted = {1, 3, 4}
    MaxWaits = 3
SPECIFICATION Spec
INVARIANTS
    TypeOK
    OneWait
    TasksCoverMessages
PROPERTY OthersInOrder
CHECK_DEADLOCK FALSE
