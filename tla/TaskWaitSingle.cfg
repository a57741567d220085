SPECIFICATION Spec
CONSTANTS
    Tasks = {t1}
    Exec = x
    Threads = {h1}
    Kinds = {"single", "plain"}
    Calls = {"wake", "cancel", "schedule"}
    MaxGen = 3
    NumSlots = 2
    MaxSlotGen = 2
    MaxSets = 1
    MaxCalls = 3
INVARIANTS QueuedIsClaimable
\* A task may wait for a source that never fires, and the bounds end the run.
CHECK_DEADLOCK FALSE
