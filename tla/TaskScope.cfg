SPECIFICATION Spec
CONSTANTS
  Tasks = {b, w}
  Servers = {w}
  Racers = {b}
  Scopes = {s}
  Owner = owner
  Cancellers = {x}
  MaxCancels = 1
  None = None
INVARIANTS NoAbort RefsExact ResultsDisposed CancelReachesChildren
PROPERTIES CloseReturns OrphansEnd
\* The parent has ended, or a child that serves for ever is never cancelled.
CHECK_DEADLOCK FALSE
