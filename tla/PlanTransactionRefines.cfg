\* Two batches and an edit, no failed rollback: a compare-and-swap of all files.
\* The batches end, so the system stops.
CHECK_DEADLOCK FALSE
SPECIFICATION FairSpec
CONSTANTS
  Paths <- TwoPaths
  Txns = {t1, t2}
  Edits = {e1}
  Original = Original
  Absent = Absent
  Interference = FALSE
  Faults = {"read", "stage", "commit", "cleanup"}
  Crashes = FALSE
PROPERTIES
  ImplementsAtomicBatch
  Terminates
