SPECIFICATION Spec
CONSTANTS
  File = {f}
  Forms <- MCForms
  MaxLines = 3
CHECK_DEADLOCK FALSE
INVARIANT RedirectionIsLocal
