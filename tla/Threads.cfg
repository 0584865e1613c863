SPECIFICATION Spec
CONSTANTS
  Thread = {t1, t2}
  NONE = NONE
  Rounds <- MCRounds
INVARIANTS NoAssertionFails CountIsExact
PROPERTY AllThreadsEnd
