SPECIFICATION Spec
CONSTANTS
  Zero = 0
  Few = 2
  Many = 7
  Width = 5
  Minus = Minus
  MaxTokens = 4
  Number <- MCNumber
  Input <- MCInput
INVARIANTS TypeOK Increasing PrintedIsMeant EndsOnlyOnErrors
PROPERTY Answers
CHECK_DEADLOCK FALSE
