CONSTANTS
    a1 = a1
    a2 = a2
    f1 = f1
    FeedOf <- OneFeed
    Articles = {a1, a2}
    Feeds = {f1}
    FirstArticles = {a1}
    Handlers = {h1}
    Requests <- ReadChanges
    ApiFlushers = {}
    Snapshotters = {s1}
    BufferMayFail = FALSE
    MaxChanges = 2
    MaxOutages = 1
    MaxCrashes = 1
SPECIFICATION LiveSpec
PROPERTIES PendingDrains BackOnline CacheConverges
CHECK_DEADLOCK FALSE
