SPECIFICATION Spec
CONSTANTS
  c1 = c1  c2 = c2  c3 = c3  s1 = s1  s2 = s2  w1 = w1  w2 = w2
  Co = {c1, c2}
  Stack = {s1}
  Word = {w1, w2}
  MainCo = MainCo
  NULL = NULL
  Junk = Junk
  Protector = Protector
  Limit = 3
  Room = 3
  SaveArgs = {0, 2}
  DefaultSave = 1
SYMMETRY MCSymmetry
INVARIANTS TypeOK
PROPERTIES ImplementsCoroutines
