SPECIFICATION Spec
CONSTANTS
    Handle = o
    Worker = w
    Helpers = {h1}
    Publishers = {}
INVARIANT NothingLeaked
\* A freed task has nothing more to do.
CHECK_DEADLOCK FALSE
