\* One process that may die at any time.
\* The batches end, so the system stops.
CHECK_DEADLOCK FALSE
SPECIFICATION Spec
CONSTANTS
  Paths <- TwoPaths
  Txns = {t1}
  Edits = {}
  Original = Original
  Absent = Absent
  Interference = FALSE
  Faults = {}
  Crashes = TRUE
INVARIANT CrashLeavesNoPartialPlan
