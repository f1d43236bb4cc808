SPECIFICATION Spec
CONSTANTS
  a = a
  b = b
  Name = {a, b}
  Bucket = {1}
  hash <- MCHash
  Cell = {1, 2, 3, 4, 5, 6, 7}
  NULL = NULL
  Literal = Literal
  First = First
  Empty = Empty
  Released = Released
  Texts <- MCTexts
  MaxDepth = 2
  MaxLines = 5
INVARIANTS TypeOK OneEntry OwnedUnlessShared UsesOnlyOwned LastAssigned
PROPERTY OthersStay
CHECK_DEADLOCK FALSE
