SPECIFICATION Spec
CONSTANTS
    Fields = {last, hwid}
    Values = {v0, v1}
    LastConnected = last
    Hwid = hwid
    Empty = v0
    FirstRunValue = v1
    FirstRun <- FirstRunSettings
    Workers = {w1}
    Startup = startup
    None = none
    RenameRaces = TRUE
    MaxChanges = 2
    MaxForeign = 1
    MaxReloads = 1
    MaxFailures = 1
    MaxCrashes = 1
    MaxEdits = 0
    MaxSubmits = 0
INVARIANT KillSwitchFollowsUnit
PROPERTIES NextSaveKeepsConfirmed
