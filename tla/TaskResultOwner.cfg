SPECIFICATION FairSpec
CONSTANTS
    Handle = o
    Worker = w
    Helpers = {}
    Publishers = {}
INVARIANT NothingLeaked
PROPERTY EventuallyFreed
\* A freed task has nothing more to do.
CHECK_DEADLOCK FALSE
