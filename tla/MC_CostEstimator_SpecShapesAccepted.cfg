CONSTANT ScalarValues <- MCScalarValues
SPECIFICATION Spec
INVARIANT SpecShapesAccepted
CHECK_DEADLOCK FALSE
