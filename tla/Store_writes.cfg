SPECIFICATION Spec
CONSTANTS
    Fields = {last, theme}
    Values = {v0, v1, v2}
    LastConnected = last
    Hwid = hwid
    Empty = v0
    FirstRunValue = v1
    FirstRun <- FirstRunSettings
    Workers = {w1}
    Startup = startup
    None = none
    RenameRaces = FALSE
    MaxChanges = 1
    MaxForeign = 1
    MaxReloads = 1
    MaxFailures = 0
    MaxCrashes = 0
    MaxEdits = 1
    MaxSubmits = 2
INVARIANTS StoreInv
PROPERTY OwnFieldsOnly
