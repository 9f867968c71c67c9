SPECIFICATION ConfigurationSpec
CONSTANTS
  Uses = {"lifecycle", "command", "detection", "document"}
  Procs = {p1, p2, p3}
  MaxEdits = 1
  Interference = FALSE
  Names = {n1, n2}
  Initial <- Representatives
  Foreign <- Others
  Absent = Absent
  CommandLines <- SomeLines
  Questions <- Asked
  FirstDocuments <- SomeFiles
  ForeignDocuments <- OtherFiles
  MaxForeign = 1
  Saved <- Old
  Nothing = Nothing
  Broken = Broken
  TargetLanguages = {"typescript", "javascript", "python", "go", "rust"}
  Drafts <- SomeDrafts
  MaxDefects = 2
  Missing = Missing
  Bad = Bad
  Blank = Blank
  Unsafe = Unsafe
  Unlimited = Unlimited
  None = None
  NoPath = NoPath
  Registered <- SomeExtensions
  Trees <- SomeTrees
  Contents <- SomeContents
  MaxChanges = 1
SYMMETRY Symmetry
INVARIANTS
  LifecycleInv
  DocumentInv
  DetectionInv
PROPERTIES
  ReplacedCanBeRestored
  OnlyAskedIsDone
  ConfirmedIsWritten
\* Every operation ends, and so does editing, so the system stops.
CHECK_DEADLOCK FALSE
