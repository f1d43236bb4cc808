SPECIFICATION Spec
CONSTANTS
  Nil = Nil
  f = f
  g = g
  Name = {f, g}
  Status = {0, 1}
  MaxRaised = 3
  Lines <- MCLines
  Node <- MCNode
  kind <- MCKind
  next <- MCNext
  oper <- MCOper
  pipeEnd <- MCPipeEnd
  cond <- MCCond
  body <- MCBody
  els <- MCEls
  arms <- MCArms
  name <- MCName
  count <- MCCount
CHECK_DEADLOCK FALSE
INVARIANT RefusedOnlyOutsideLoops
