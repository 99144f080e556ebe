CONSTANTS
    c1 = c1
    c2 = c2
    Callers = {c1, c2}
    Uses <- QueryAndAdmin
    Capacity = 4
    Users = {c1}
    FlushThreshold = 3
    LogTable = TRUE
SPECIFICATION HelpersSpec
PROPERTIES ReaderKnows
CHECK_DEADLOCK FALSE
