SPECIFICATION Spec
CONSTANTS
  a = a
  ab = ab
  x = x
  plain = plain
  NULL = NULL
  Name = {a, ab, x}
  Bucket = {1}
  hash <- MCHash
  prefix <- MCPrefix
  Text = {a, plain}
  MaxLines = 2
  MaxCommands = 4
  MaxOthers = 1
INVARIANTS TypeOK AliasIsLatest RanIsRecorded
PROPERTIES OthersStay HistoryKept
CHECK_DEADLOCK FALSE
