SPECIFICATION Spec
CONSTANTS
  NULL = NULL
  Channels = {0}
  Max = 1
  SubPages = {"sweep", "fm"}
  Inputs = {"encoder", "display", "keypad"}
  Pressed = {"0", "1", "2", "3", "4", "5", "digit", "unit", "enter", "point"}
  Turns <- BothWays
  Holds = {"display"}
  AnyTime = {}
INVARIANT ValuesInRange
