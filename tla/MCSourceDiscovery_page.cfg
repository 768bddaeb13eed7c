\* Two requests in flight, or one beside the handlers of a discovery.
SPECIFICATION SlicedSpec
CONSTANTS
    Jobs = {"d1"}
    Executors = {"e1", "e2"}
    None = None
    Competitors = {"c1", "c2"}
    Domain <- TwoDomains
    Sources = {"s1", "s2"}
    Owner <- FirstOwns
    Requests = {"r1", "r2"}
    MaxCompetitors = 1
    Target <- FirstOnly
    MaxErrors = 1
CHECK_DEADLOCK FALSE
INVARIANT DiscoveryTypeOK
INVARIANT MonitoredUnlessCrossed
INVARIANT LimitHolds
INVARIANT TaskMatchesRun
PROPERTY DeletionSettles
PROPERTY DecisionsKept
PROPERTY EndedDiscoveryFinal
PROPERTY DiscoveryEnds
