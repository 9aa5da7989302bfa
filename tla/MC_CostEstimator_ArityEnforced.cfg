CONSTANT ScalarValues <- MCScalarValues
SPECIFICATION Spec
INVARIANT ArityEnforced
CHECK_DEADLOCK FALSE
