SPECIFICATION Spec
CONSTANTS
    Profiles = {p1, p2}
    Pids = {k1, k2}
    Threads = {t1, t2}
    Main = Main
    None = None
    Inputs <- SettingsChanges
    DiskEdits = {}
    MaxInputs = 3
    MaxExits = 0
    MaxLateRuleSet = 2
    MaxChannel = 1
    MaxQueuedTicks = 1
    StartAttempts = 1
    NotReady = {}
    RetryLimit = 1
SYMMETRY Symmetry
INVARIANTS
    TunnelRunsCurrentSettings
    IdleRunsNoTunnel
    ConnectionHasProfile
