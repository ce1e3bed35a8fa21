SPECIFICATION FairSpec
CONSTANTS
    Parts = {"rule-sets"}
    Malformed = Malformed
    StatusStub = StatusStub
    InfoNode = InfoNode
PROPERTY ConnectionAlwaysSettles
CHECK_DEADLOCK FALSE
