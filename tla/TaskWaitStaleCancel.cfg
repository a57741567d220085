SPECIFICATION Spec
CONSTANTS
    Tasks = {t1}
    Exec = x
    Threads = {h1}
    Kinds = {"single"}
    Calls = {"cancel"}
    MaxGen = 4
    NumSlots = 2
    MaxSlotGen = 3
    MaxSets = 1
    MaxCalls = 3
INVARIANT RegistrationIsCurrent
\* A task may wait for a source that never fires, and the bounds end the run.
CHECK_DEADLOCK FALSE
