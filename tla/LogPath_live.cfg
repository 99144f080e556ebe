CONSTANTS
    w1 = w1
    t1 = t1
    r1 = r1
    Writers = {w1}
    Timers = {t1}
    Readers = {}
    Threshold = 2
    MemoryCap = 2
    BatchSize = 2
    RingCap = 1
    Anonymous <- FirstIsAnonymous
    DuckMayFail = FALSE
    AnswersMayBeLost = TRUE
    TableMayVanish = TRUE
    MaxLogs = 3
    MaxOutages = 1
    MaxRestarts = 1
SPECIFICATION LiveSpec
PROPERTIES EntriesSettle
CHECK_DEADLOCK FALSE
