CONSTANTS
  Producer = {t1, t2}
  Consumer = {t1, t2}
  MaxNodes = 3
  MaxPuts = 1
  MaxGets = 2
  Reuse = FALSE
  Spurious = TRUE
  Null = Null
  None = None
SPECIFICATION FairSpec
INVARIANTS NoWildPointer TailNearEnd
PROPERTIES IsFifo EveryCallReturns
