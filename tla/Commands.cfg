SPECIFICATION Spec
CONSTANTS
  File = {f}
  Forms <- MCForms
  MaxLines = 3
INVARIANTS TypeOK ThreeOpen NothingLost InOrder
CHECK_DEADLOCK FALSE
