SPECIFICATION Spec
CONSTANT Setups <- MCSetups
INVARIANT MergedOnce
PROPERTY TreeEnds
CHECK_DEADLOCK FALSE
