SPECIFICATION Spec
CONSTANTS
    Handle = o
    Worker = w
    Helpers = {h1, h2}
    Publishers = {h1, h2}
INVARIANTS TypeOK IInv TerminalAgrees NoAbort
SYMMETRY HelperSymmetry
\* A task that is never started and whose handle is kept has nothing to do.
CHECK_DEADLOCK FALSE
