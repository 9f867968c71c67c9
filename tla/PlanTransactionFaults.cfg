\* Two batches over two files, one edit, every I/O call may fail and either
\* process may die; commit windows do not overlap with edits or each other.
\* The batches end, so the system stops.
CHECK_DEADLOCK FALSE
SPECIFICATION Spec
CONSTANTS
  Paths <- TwoPaths
  Txns = {t1, t2}
  Edits = {e1}
  Original = Original
  Absent = Absent
  Interference = FALSE
  Faults = {"read", "stage", "commit", "rollback", "cleanup"}
  Crashes = TRUE
SYMMETRY Symmetry
INVARIANTS
  StalePlanNeverWrites
  TypeOK
  FailureIsClean
PROPERTIES
  ContentSurvives
