SPECIFICATION FairSpec
CONSTANTS
    Tasks = {t1, t2}
    Exec = x
    Threads = {}
    Kinds = {"single", "pair"}
    Calls = {"wake", "cancel"}
    MaxGen = 3
    NumSlots = 2
    MaxSlotGen = 2
    MaxSets = 1
    MaxCalls = 2
INVARIANTS SuspendedIsRegistered RegistrationIsCurrent
PROPERTIES CancelWakes
\* A task may wait for a source that never fires, and the bounds end the run.
CHECK_DEADLOCK FALSE
