SPECIFICATION Spec
CONSTANTS
  top = top
  a = a
  b = b
  aa = aa
  NULL = NULL
  Dir = {top, a, b, aa}
  Root = top
  Part = {".", "..", "a", "b"}
  Dots = {".", ".."}
  entry <- MCEntry
  MaxParts = 2
INVARIANTS TypeOK NamesFollow
PROPERTY FailedIsVain
