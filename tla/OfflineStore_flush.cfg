CONSTANTS
    a1 = a1
    a2 = a2
    f1 = f1
    FeedOf <- OneFeed
    Articles = {a1, a2}
    Feeds = {f1}
    FirstArticles = {a1}
    Handlers = {h1}
    Requests <- ReadRequests
    ApiFlushers = {api}
    Snapshotters = {}
    BufferMayFail = TRUE
    MaxChanges = 2
    MaxOutages = 1
    MaxCrashes = 1
SPECIFICATION Spec
INVARIANTS IInv SettledIsWanted OverlayIsWanted
PROPERTIES FlushKeepsView ImplementsWriteBehind
CHECK_DEADLOCK FALSE
