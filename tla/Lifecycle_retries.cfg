SPECIFICATION Spec
CONSTANTS
    Profiles = {p1}
    Pids = {k1, k2}
    Threads = {t1, t2}
    Main = Main
    None = None
    Inputs <- Races
    DiskEdits = {}
    MaxInputs = 2
    MaxExits = 1
    MaxLateRuleSet = 0
    MaxChannel = 1
    MaxQueuedTicks = 1
    StartAttempts = 2
    NotReady = {"BinaryBeingWritten", "TunNotPermitted"}
    RetryLimit = 2
SYMMETRY Symmetry
PROPERTIES
    ImplementsSingleTunnel
