CONSTANTS
  Width <- MCWidth
  Mod <- MCMod
SPECIFICATION Spec
INVARIANTS TypeOK FitsWhenCopied DiesOfOverflowOnly AsInAco
PROPERTY LoopEnds
CHECK_DEADLOCK FALSE
