CONSTANTS
    theme = theme
    poll = poll
    old = old
    new = new
    None = None
    Values = {old, new}
    Keys = {theme, poll}
    FirstSettings <- RowsOfBoth
    Defaults <- Seeds
    Handlers = {h1, h2}
    Requests <- SaveBoth
    ApiFlushers = {}
    Snapshotters = {s1}
    BufferMayFail = FALSE
    MaxSaves = 2
    MaxOutages = 1
    MaxCrashes = 0
SPECIFICATION LiveSpec
PROPERTIES ReadersAgreeWithLance
