CONSTANTS
  ThreadCount = 2
  Client = {c1}
  Job = {j1, j2, j3}
  MaxCoro = 3
  Global = Global
  Pool = Pool
  None = None
  MaxYields = 1
  MaxStarts = 2
  Index <- NoIndex
  Outcomes = {"return"}
SPECIFICATION Spec
SYMMETRY Symmetry
INVARIANTS TypeOK OnePlace CurrentIsHeld DrainComplete PoolFinished StopEndsCoroutines
PROPERTY NoRerun
