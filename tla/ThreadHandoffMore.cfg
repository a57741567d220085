SPECIFICATION Spec
CONSTANT MaxFailures = 3
INVARIANTS TypeOK IInv
PROPERTIES DiscarderIsDecidedByOrder FailureKeepsHandle ClosedHandleIsFreed
