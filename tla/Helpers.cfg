CONSTANTS
    c1 = c1
    c2 = c2
    Callers = {c1, c2}
    Uses <- QueryAndAdmin
    Capacity = 2
    Users = {c1, c2}
    FlushThreshold = 5
    LogTable = TRUE
SPECIFICATION HelpersSpec
INVARIANTS DuckInv SafeToReplace WriterInv
PROPERTIES AnswersOwn  ImplementsEngine ImplementsCall
CHECK_DEADLOCK FALSE
