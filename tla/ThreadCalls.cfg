CONSTANTS
  Obj = {o1, o2}
  None = None
SPECIFICATION FairSpec
INVARIANTS TypeOK OnlyAbandonedFail Started NoThreadLeak JoinedHasEnded
PROPERTY CallsReturn
