CONSTANTS
  IntText = {"1", "2", "7", "64", "128"}
  Bad = "$"
  MaxNodes = 14
  Thread = {t1, t2}
  Decl <- SomeDecl
  Name <- SomeName
  Type <- SomeType
  Default <- SomeDefault
  Order <- SomeOrder
  Throwing = {"logs"}
  Direct = {"stack", "again"}
  File <- SomeFiles
  Text <- SomeTexts
  Garbage = {"1", "2"}
  MaxCalls = 3
  MaxSets = 1
  None = None
SPECIFICATION Spec
INVARIANTS TypeOK ToldIsValue OneVariable SomeoneMoves
PROPERTIES IsSettings ReloadIsQuiet
