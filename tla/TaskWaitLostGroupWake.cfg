SPECIFICATION Spec
CONSTANTS
    Tasks = {t1}
    Exec = x
    Threads = {h1}
    Kinds = {"pair"}
    Calls = {"wake"}
    MaxGen = 2
    NumSlots = 2
    MaxSlotGen = 2
    MaxSets = 1
    MaxCalls = 2
INVARIANT SuspendedIsRegistered
\* A task may wait for a source that never fires, and the bounds end the run.
CHECK_DEADLOCK FALSE
