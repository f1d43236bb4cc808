SPECIFICATION Spec
CONSTANT Inputs <- MCInputs
INVARIANT AnySequenceIsChecked
CHECK_DEADLOCK FALSE
