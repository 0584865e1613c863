SPECIFICATION StatsSpec
CONSTANTS
  c1 = c1  c2 = c2  s1 = s1  w1 = w1
  Co = {c1, c2}
  Stack = {s1}
  Word = {w1}
  MainCo = MainCo
  NULL = NULL
  Junk = Junk
  Protector = Protector
  Limit = 3
  Room = 2
  SaveArgs = {0, 2}
  DefaultSave = 1
  CtMod = 3
SYMMETRY MCSymmetry
INVARIANTS SavesArePaired MaxCpszPredictsGrowth StandaloneIsNeverCopied
