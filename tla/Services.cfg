CONSTANTS
    u1 = u1
    u2 = u2
    c1 = c1
    daemon = daemon
    cron = cron
    f1 = f1
    f2 = f2
    g1 = g1
    g2 = g2
    e1 = e1
    e2 = e2
    l1 = l1
    l2 = l2
    Users = {u1, u2}
    Reads = {"content", "settings", "feed", "raw"}
    Changes = {c1}
    MaxOutages = 1
    MaxFaults = 1
    MaxCrashes = 1
    Now = 3
    Together = 2
    Retentions <- SomeRetentions
    MaxChanges = 1
    MaxFailures = 1
    MaxTrimFailures = 1
    Fetchers = {daemon, cron}
    Daemon = daemon
    Feeds = {f1, f2}
    Guids = {g1, g2}
    Threshold <- OneDayATier
    LastDay = 2
    MaxDeaths = 1
    Cap = 3
    Nothing = Nothing
    Events = {e1, e2}
    Flushers = {l1, l2}
SPECIFICATION ServicesSpec
INVARIANTS TrimInv FetchInv RingInv FetchedIsStored StoredOnce IntervalFitsTier
PROPERTIES CacheSurvives UsersAreServed Recovers SnapshotsRefill TrimKeepsNewest TrimCatchesUp TierSteps EveryArticleArrives ImplementsQueue
CHECK_DEADLOCK FALSE
