SPECIFICATION FairSpec
CONSTANTS
    Profiles = {p1}
    Pids = {k1}
    Threads = {t1, t2}
    Main = Main
    None = None
    Inputs <- Races
    DiskEdits = {}
    MaxInputs = 2
    MaxExits = 1
    MaxLateRuleSet = 0
    MaxChannel = 1
    MaxQueuedTicks = 1
    StartAttempts = 1
    NotReady = {"TunNotPermitted"}
    RetryLimit = 1
PROPERTIES
    ConnectSettles
    RetiredIsStopped
    QuitTerminates
