SPECIFICATION Spec
CONSTANTS
  c1 = c1  c2 = c2  c3 = c3  s1 = s1  s2 = s2  w1 = w1  w2 = w2
  Co = {c1, c2, c3}
  Stack = {s1, s2}
  Word = {w1}
  MainCo = MainCo
  NULL = NULL
  Junk = Junk
  Protector = Protector
  Limit = 2
  Room = 2
  SaveArgs = {0}
  DefaultSave = 1
SYMMETRY MCSymmetry
INVARIANTS OwnerIsValid RunnerIsCurrent OwnAssertionsHold
PROPERTIES EndIsFinal
