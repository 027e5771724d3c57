CONSTANTS
  ThreadCount = 2
  Client = {c1}
  Job = {j1, j2}
  MaxCoro = 2
  Global = Global
  Pool = Pool
  None = None
  MaxYields = 0
  MaxStarts = 1
  Index <- NoIndex
  Outcomes = {"return", "unknown"}
SPECIFICATION Spec
INVARIANT ResumeStatusOK
