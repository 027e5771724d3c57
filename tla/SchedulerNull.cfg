CONSTANTS
  ThreadCount = 2
  Client = {c1}
  Job = {j1, j2, j3}
  MaxCoro = 3
  Global = Global
  Pool = Pool
  None = None
  MaxYields = 0
  MaxStarts = 1
  Index <- NoIndex
  Outcomes = {"return"}
SPECIFICATION Spec
SYMMETRY Symmetry
INVARIANT NoNullCoroutine
