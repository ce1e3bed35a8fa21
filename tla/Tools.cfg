SPECIFICATION Spec
INVARIANTS
    DecodedAsTyped
    ScreenIsConsistent
    LogsAreFaithful
    SetupConverges
PROPERTIES
    CursorKeepsItsRecord
CHECK_DEADLOCK FALSE
