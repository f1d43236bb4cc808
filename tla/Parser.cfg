SPECIFICATION Spec
CONSTANT Inputs <- MCInputs
INVARIANTS TypeOK AcceptedIsBalanced TreeIsTheLine TreeIsShaped SentencesAreAccepted
CHECK_DEADLOCK FALSE
