CONSTANTS
  Name = {"a", "b"}
  Root = "root"
  Conf <- PlainAndRich
  Value <- SomeValues
  Level <- SomeLevels
  Garbage <- AnyGarbage
  Pattern <- DefaultPattern
  Thread = {t1}
  Script <- SetUpByHand
  None = None
SPECIFICATION FairSpec
INVARIANTS TypeOK ValidIsWhole LoadedWhenIdle CanPrint
PROPERTY MessageEnds
