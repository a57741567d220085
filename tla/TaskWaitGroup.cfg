SPECIFICATION Spec
CONSTANTS
    Tasks = {t1}
    Exec = x
    Threads = {h1, h2}
    Kinds = {"pair"}
    Calls = {"wake", "cancel"}
    MaxGen = 3
    NumSlots = 4
    MaxSlotGen = 2
    MaxSets = 2
    MaxCalls = 3
INVARIANTS NoAbort EpochQueuedOnce WaitSetRefs RaceDecided
SYMMETRY ThreadSymmetry
\* A task may wait for a source that never fires, and the bounds end the run.
CHECK_DEADLOCK FALSE
