\* The dispatch over every operation and every list of up to three operands.
\* A panic aborts the process, so states with a Panic cost are final.
CONSTANT ScalarValues <- MCScalarValues
SPECIFICATION Spec
INVARIANT TypeOK
INVARIANT AcceptedShapesAreSpecLegal
CHECK_DEADLOCK FALSE
