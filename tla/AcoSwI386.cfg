CONSTANTS
  Co = {c1}
  MainCo = main
  Arch = "i386"
  ShareEnv = FALSE
  StackSz = 48
  Setting <- MCSetting
SPECIFICATION Spec
INVARIANTS StackPointerIsValid
PROPERTY ImplementsContexts
