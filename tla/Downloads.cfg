SPECIFICATION FairSpec
CONSTANTS
    Parts = {"subscriptions", "rule-sets"}
    Malformed = Malformed
    StatusStub = StatusStub
    InfoNode = InfoNode
INVARIANTS
    MarkedIsUnderWay
    FilesAreOfTheirSource
    StatesMatchDisk
PROPERTIES
    UpdatesKeepProfiles
    UpdatesEnd
    ConnectionSettles
CHECK_DEADLOCK FALSE
