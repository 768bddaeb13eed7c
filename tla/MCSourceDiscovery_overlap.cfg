\* A rejection that overlaps another one, or an activation, leaves a monitored
\* competitor without a source.
SPECIFICATION SlicedSpec
CONSTANTS
    Jobs = {"d1"}
    Executors = {"e1", "e2"}
    None = None
    Competitors = {"c1", "c2"}
    Domain <- TwoDomains
    Sources = {"s1", "s2"}
    Owner <- FirstOwns
    Requests = {"r1", "r2"}
    MaxCompetitors = 1
    Target <- FirstOnly
    MaxErrors = 1
CHECK_DEADLOCK FALSE
INVARIANT MonitoredHasSource
