SPECIFICATION FairSpec
CONSTANTS
  Tasks = {root, t1}
  Root = root
  Durations = {1, 2}
  NumSlots = 2
  PollCap = 2
  MaxTime = 3
  MaxWaits = 1
  Leftovers = 2
  None = None
INVARIANTS TypeOK
PROPERTIES BlockingReturns
\* The loop has returned, or the bounds on time and waits end the run.
CHECK_DEADLOCK FALSE
