SPECIFICATION BoundedSpec
INVARIANT TimeoutLeavesNothing
CHECK_DEADLOCK FALSE
