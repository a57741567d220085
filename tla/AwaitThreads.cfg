SPECIFICATION Spec
CONSTANTS
  Tasks = {"g", "p", "c"}
  Plan <- ChainPlan
  Roots = {"g"}
  Drains = {}
  Callers = {"x", "y"}
  Threads = {"x", "y"}
  MaxCancels = 2
  None = "none"
PROPERTIES CancelBeatsResult AwaitReturns
\* Every task has ended, or a leaf waits for a source that never fires.
CHECK_DEADLOCK FALSE
