CONSTANTS
  Producer = {p1}
  Consumer = {c1}
  MaxNodes = 3
  MaxPuts = 4
  MaxGets = 5
  Reuse = TRUE
  Spurious = FALSE
  Null = Null
  None = None
SPECIFICATION Spec
SYMMETRY Symmetry
INVARIANTS TypeOK NoUseAfterFree NoLeak
PROPERTY IsFifo
