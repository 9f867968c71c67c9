SPECIFICATION ConfigurationSpec
CONSTANTS
  Uses = {"lifecycle"}
  Procs = {p1}
  MaxEdits = 1
  Interference = TRUE
  Names = {n1, n2}
  Initial <- Representatives
  Foreign <- Others
  Absent = Absent
  CommandLines <- SomeLines
  Questions <- Asked
  FirstDocuments <- SomeFiles
  ForeignDocuments <- OtherFiles
  MaxForeign = 1
  Saved <- Old
  Nothing = Nothing
  Broken = Broken
  TargetLanguages = {"typescript", "javascript", "python", "go", "rust"}
  Drafts <- SomeDrafts
  MaxDefects = 0
  Missing = Missing
  Bad = Bad
  Blank = Blank
  Unsafe = Unsafe
  Unlimited = Unlimited
  None = None
  NoPath = NoPath
  Registered <- SomeExtensions
  Trees <- SomeTrees
  Contents <- SomeContents
  MaxChanges = 0
SYMMETRY Symmetry
PROPERTIES
  ChangedMeanwhileIsKept
\* Every operation ends, and so does editing, so the system stops.
CHECK_DEADLOCK FALSE
