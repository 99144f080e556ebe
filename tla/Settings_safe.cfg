CONSTANTS
    theme = theme
    poll = poll
    old = old
    new = new
    None = None
    Values = {old, new}
    Keys = {theme, poll}
    FirstSettings <- Rows
    Defaults <- Seeds
    Handlers = {h1, h2}
    Requests <- SaveBoth
    ApiFlushers = {}
    Snapshotters = {s1}
    BufferMayFail = TRUE
    MaxSaves = 2
    MaxOutages = 0
    MaxCrashes = 1
SPECIFICATION Spec
INVARIANTS SInv SavedReachesLance SavedIsSeen
PROPERTIES ImplementsWriteBehind
