SPECIFICATION FairSpec
CONSTANTS
  Cases <- FourCases
  Sampled <- ThreeSampled
  MaxConcurrency = 2
  MaxBytes = 2
  Frameworks <- AllFrameworks
  Languages <- AllLanguages
INVARIANTS
  ToolContract
  ReportIsTrue
  ProviderContract
  ReplyTellsOutcome
PROPERTIES
  CancelStartsNothing
  NothingIsLeftBehind
\* Calls and runs end.
CHECK_DEADLOCK FALSE
