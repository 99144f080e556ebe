CONSTANTS
    w1 = w1
    t1 = t1
    r1 = r1
    Writers = {w1}
    Timers = {t1}
    Readers = {r1}
    Threshold = 3
    MemoryCap = 1
    BatchSize = 2
    RingCap = 1
    Anonymous <- FirstIsAnonymous
    DuckMayFail = TRUE
    AnswersMayBeLost = TRUE
    TableMayVanish = FALSE
    MaxLogs = 3
    MaxOutages = 1
    MaxRestarts = 1
SPECIFICATION Spec
INVARIANTS LInv NothingLost NotHeldTwice BufferBounded
CHECK_DEADLOCK FALSE
