SPECIFICATION FairSpec
CONSTANTS
  r1 = r1
  r2 = r2
  r3 = r3
  s1 = s1
  s2 = s2
  c1 = c1
  c2 = c2
  c3 = c3
  k = k
  None = None
  Requests <- ThreeRequests
  Signals <- TwoSignals
  SignalOf <- Batch
  CanAbort <- OnlyBatch
  MaxConcurrency = 1
  MaxAttempts = 2
  Routes <- AllRoutes
  RouteOf <- Different
  FallbackRoutes <- ToPrimary
  Adapters <- Registered
  Keys <- OneKey
  KeyOf <- Cached
  Rejections <- GuardRejects
  Replies <- SomeReplies
  Verdicts <- SomeVerdicts
  FailureThreshold = 2
  ResetAfterMs = 1
  HalfOpenMaxAttempts = 1
INVARIANTS
  HarnessInv
PROPERTIES
  AbortedIsNotCalled
  ProbesAreDecided
  ImplementsGate
  ImplementsBoundedSlots
  FirstComeFirstServed
\* Every request is executed once, so the system stops.
CHECK_DEADLOCK FALSE
