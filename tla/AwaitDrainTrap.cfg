SPECIFICATION Spec
CONSTANTS
  Tasks = {"g", "p", "j", "k", "c"}
  Plan <- CatchThenDrainPlan
  Roots = {"g"}
  Drains = {"k"}
  Callers = {"x"}
  Threads = {}
  MaxCancels = 2
  None = "none"
INVARIANTS NoTrap
\* Every task has ended, or a leaf waits for a source that never fires.
CHECK_DEADLOCK FALSE
