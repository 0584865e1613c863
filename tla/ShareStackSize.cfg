SPECIFICATION Spec
CONSTANTS
  Mod = 512
  PtrSize = 8
  MinSize = 48
  DefaultSize = 160
  PageSizes <- MCPageSizes
  Addrs <- MCAddrs
INVARIANTS TypeOK SizeAsPromised DiesOfOverflowOnly LayoutFits LimitBelowStack AllIsFreed
\* The call ends, by returning a stack that is later destroyed or in an abort.
CHECK_DEADLOCK FALSE
