SPECIFICATION SchedSpec
CONSTANTS
  c1 = c1  c2 = c2  c3 = c3  s1 = s1
  Co = {c1, c2, c3}
  Stack = {s1}
  Word <- MCWord
  Loops <- MCLoops
  MainCo = MainCo
  NULL = NULL
  Junk = Junk
  Protector = Protector
  Limit = 3
  Room = 2
  SaveArgs = {0}
  DefaultSave = 1
INVARIANTS NoAssertionFails ResumedAsAsked TakeTurns
PROPERTY Completes
