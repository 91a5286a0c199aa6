SPECIFICATION Spec
CONSTANTS
  NULL = NULL
  Channels = {0}
  Max = 0
  SubPages = {"fm"}
  Inputs = {"encoder", "display"}
  Pressed = {"0", "1", "2", "3", "4", "5"}
  Turns <- BothWays
  Holds = {}
  AnyTime = {"encoder", "display"}
INVARIANT PointsToValue
