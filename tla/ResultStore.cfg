SPECIFICATION MCSpec
CONSTANTS
  Keys = {"a", "b", "s"}
  Extends <- MCExtends
  SuiteKeys = {"s"}
  Connections = 1
  MaxResults = 2
  MaxEvents = 2
  Slack = 1
  PageSize = 2
  BucketRetention = 3
  None = None
  Workloads <- MCWorkloads
  DayHours = 2
  BufferHours = 2
  RetentionHours = 6
  CleanUpHours = 6
  MergeEntries = 5
  s1 = s1
  s2 = s2
  g1 = g1
  g2 = g2
  pushed = pushed
  strict = strict
  s3 = s3
  alerting = alerting
  masked = masked
  layout = layout
  Absent = Absent
  KeyNames <- TwoNames
  Monitored <- TwoEndpoints
  Forms <- SomeForms
  Settings = {g1,g2}
  Layouts = {layout}
  Secrets = {s1,s2,s3}
  TokenOf <- FormTokens
  IsPushForm <- FormIsPush
  AcceptedWith <- FormProviders
  NotRestorable = {masked}
  Backups <- SomeBackups
  Installations <- SomeInstallations
  Registered <- SomeRegistered
  MaxTroubles = 2
  r1 = r1
  r2 = r2
  c1 = c1
  c2 = c2
  Requests = {r1,r2}
  Endpoints = {1,2}
  Credentials = {c1,c2}
  Unset = Unset
  VerificationTTL = 2
  FailureWindow = 2
  CacheTTL = 2
  UnavailableTTL = 1
  MaximumFailures = 2
  MaximumAssemblies = 1
  MaximumChecks = 1
  Visits <- SomeVisits
SYMMETRY Symmetric
INVARIANT AnswersFit
INVARIANT CacheIsCurrent
INVARIANT StoresAgree
INVARIANT Consistent
INVARIANT EventsTell
INVARIANT AggregatesExact
INVARIANT RestoresAsPlanned
CHECK_DEADLOCK FALSE
