SPECIFICATION Spec
CONSTANTS
  N = 3
  Cap = 1
  Programs <- MCPrograms
INVARIANTS TypeOK Wired OneWriter SigpipeOnlyUnread CleanReturn
PROPERTIES ImplementsContract DrainedReturns
CHECK_DEADLOCK FALSE
