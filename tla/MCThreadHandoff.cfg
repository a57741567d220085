SPECIFICATION Spec
CONSTANT MaxFailures = 3
INVARIANTS NoRequireFails FreedMeansUnused ConsumedAtMostOnce NothingLeaked
PROPERTIES JoinReturns
