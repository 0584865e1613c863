CONSTANTS
  Co = {c1, c2}
  MainCo = main
  Arch = "amd64"
  ShareEnv = TRUE
  StackSz = 48
  Setting <- MCSetting
SPECIFICATION Spec
PROPERTY ImplementsContexts
