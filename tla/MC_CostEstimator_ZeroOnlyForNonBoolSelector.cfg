CONSTANT ScalarValues <- MCScalarValues
SPECIFICATION Spec
INVARIANT ZeroOnlyForNonBoolSelector
CHECK_DEADLOCK FALSE
