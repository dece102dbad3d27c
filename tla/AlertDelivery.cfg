SPECIFICATION MCSpec
CONSTANTS
    Providers <- SmallProviders
    Overrides <- OwnOverrides
    Alerts = {"a1", "a2"}
    Endpoints = {"e1", "e2"}
    Contained <- FirstInSecond
    Recipients <- TwoRecipients
    MaxTroubles = 2
    MaxIncidents = 3
    MaxKeys = 3
    q1 = q1
    q2 = q2
    c1 = c1
    c2 = c2
    h1 = h1
    h2 = h2
    Callers = {q1, q2}
    Clients = {h1, h2}
    Credentials = {c1, c2}
    NoHeader = NoHeader
    SessionTTL = 2
    Window = 2
    MaximumFailures = 2
    MaximumKeys = 1
    Traffics <- SomeTraffics
SYMMETRY Symmetric
INVARIANT AccessIsEarned
INVARIANT EachConsistent
INVARIANT EveryoneTold
INVARIANT ResolvedIsClosed
INVARIANT SentAsConfigured
CHECK_DEADLOCK FALSE
