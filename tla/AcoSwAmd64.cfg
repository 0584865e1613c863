CONSTANTS
  Co = {c1}
  MainCo = main
  Arch = "amd64"
  ShareEnv = FALSE
  StackSz = 48
  Setting <- MCSetting
SPECIFICATION Spec
INVARIANTS TypeOK StackPointerIsValid StartsWithThreadWords
PROPERTY ImplementsContexts
