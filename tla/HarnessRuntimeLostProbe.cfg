SPECIFICATION Spec
CONSTANTS
  r1 = r1
  r2 = r2
  r3 = r3
  s1 = s1
  s2 = s2
  c1 = c1
  c2 = c2
  c3 = c3
  k = k
  None = None
  Requests <- TwoRequests
  Signals <- TwoSignals
  SignalOf <- Batch
  CanAbort <- TwoSignals
  MaxConcurrency = 2
  MaxAttempts = 1
  Routes <- AllRoutes
  RouteOf <- Primary
  FallbackRoutes <- NoFallback
  Adapters <- Registered
  Keys <- OneKey
  KeyOf <- Cached
  Rejections <- Nobody
  Replies <- AllReplies
  Verdicts <- AllVerdicts
  FailureThreshold = 1
  ResetAfterMs = 1
  HalfOpenMaxAttempts = 1
INVARIANTS
  NoLostProbe
\* Every request is executed once, so the system stops.
CHECK_DEADLOCK FALSE
