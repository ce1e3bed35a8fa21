SPECIFICATION Spec
CONSTANTS
    Profiles = {p1}
    Pids = {k1, k2}
    Threads = {t1, t2}
    Main = Main
    None = None
    Inputs <- ResumeOnly
    DiskEdits = {}
    MaxInputs = 1
    MaxExits = 1
    MaxLateRuleSet = 0
    MaxChannel = 1
    MaxQueuedTicks = 1
    StartAttempts = 1
    NotReady = {}
    RetryLimit = 1
SYMMETRY Symmetry
PROPERTIES
    StaleExitIsIgnored
