CONSTANTS
  Thread = {t1, t2}
  Coro = {co1, co2, co3, co4}
  Main = Main
  None = None
  Modulus = 4
SPECIFICATION Spec
SYMMETRY Symmetry
INVARIANTS TypeOK BackToResumer AtRest CountsAddUp
