SPECIFICATION FairSpec
CONSTANTS
    Tasks = {t1, t2}
    Exec = x
    Threads = {}
    Kinds = {"single", "pair"}
    Calls = {"wake", "cancel"}
    MaxGen = 2
    NumSlots = 3
    MaxSlotGen = 2
    MaxSets = 1
    MaxCalls = 2
INVARIANTS SuspendedIsRegistered RegistrationIsCurrent
PROPERTIES QueuedRuns
\* A task may wait for a source that never fires, and the bounds end the run.
CHECK_DEADLOCK FALSE
