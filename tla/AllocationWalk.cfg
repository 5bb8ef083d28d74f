SPECIFICATION Spec
CONSTANT Inputs <- MCInputs
INVARIANTS TypeOK WalkMatchesAllocation DrawsAccounted ExpiringFirst
CHECK_DEADLOCK FALSE
