CONSTANTS
  Char <- SomeChars
  Letter <- SomeLetters
  MaxLength = 6
SPECIFICATION Spec
INVARIANTS TypeOK RoundTrip
CHECK_DEADLOCK FALSE
