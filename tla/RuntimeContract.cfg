SPECIFICATION FairSpec
CONSTANTS
  r1 = r1
  r2 = r2
  r3 = r3
  a = a
  b = b
  c1 = c1
  c2 = c2
  c3 = c3
  k = k
  None = None
  Languages <- AllLanguages
  Requests <- TwoRequests
  Callers <- TwoCallers
  CallerOf <- Batch
  CanEnd <- BatchEnds
  MaxConcurrency = 1
  MaxAttempts = 2
  Routes <- AllRoutes
  RouteOf <- Different
  FallbackRoutes <- ToSecond
  Adapters <- Registered
  Keys <- OneKey
  KeyOf <- Cached
  Rejections <- GuardRejects
  Replies <- SomeReplies
  Verdicts <- SomeVerdicts
  FailureThreshold = 1
  ResetAfterMs = 1
  HalfOpenMaxAttempts = 1
INVARIANTS
  OutcomesAgree
  CallsAreAccountedFor
PROPERTIES
  ImplementsBoundedSlots
  ExecutionEnds
\* Every request is executed once, so the system stops.
CHECK_DEADLOCK FALSE
