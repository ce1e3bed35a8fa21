SPECIFICATION Spec
INVARIANTS
    LinksKeepTheirMeaning
    RouteAsPlanned
    LookupFollowsRoute
    EditsAreJudged
PROPERTIES
    EditsAreKept
    EnterAppliesWhatIsShown
    MigrationsKeepSettings
CHECK_DEADLOCK FALSE
