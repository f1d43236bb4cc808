SPECIFICATION Spec
CONSTANTS
  N = 3
  Cap = 1
  Programs <- MCPrograms
CHECK_DEADLOCK FALSE
PROPERTY EveryPipelineReturns
