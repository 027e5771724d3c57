CONSTANTS
  Producer = {p1}
  Consumer = {c1, c2}
  MaxNodes = 3
  MaxPuts = 2
  MaxGets = 2
  Reuse = TRUE
  Spurious = FALSE
  Null = Null
  None = None
SPECIFICATION Spec
INVARIANT NoUseAfterFree
