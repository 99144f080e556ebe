CONSTANTS
    a1 = a1
    a2 = a2
    f1 = f1
    FeedOf <- OneFeed
    Articles = {a1, a2}
    Feeds = {f1}
    FirstArticles = {a1}
    Handlers = {h1}
    Requests <- ReadRequests
    ApiFlushers = {}
    Snapshotters = {}
    BufferMayFail = FALSE
    MaxChanges = 2
    MaxOutages = 0
    MaxCrashes = 0
SPECIFICATION Spec
PROPERTIES ClearsOnlyReplayed
CHECK_DEADLOCK FALSE
