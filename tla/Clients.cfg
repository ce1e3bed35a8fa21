SPECIFICATION Spec
INVARIANTS
    DaemonRestartsAreSafe
    ClientsAgree
    ResultsAreOfThisConnection
PROPERTIES
    ReplacementReconnects
    ErrorIsDrawnBeforeCleared
    SourcesStayInPlace
    TourKeepsItsPlace
CHECK_DEADLOCK FALSE
