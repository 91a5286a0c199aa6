SPECIFICATION Spec
CONSTANTS
  NULL = NULL
  Channels = {0, 1}
  Max = 0
  SubPages = {"sweep"}
  Inputs = {"encoder", "display", "enable"}
  Pressed = {"0", "1", "2"}
  Turns = {0}
  Holds = {"enable"}
  AnyTime = {"enable"}
INVARIANT SweepApplied
PROPERTIES RelayUndoneOnlyBySweepOrHold ResetLostOnlyInWindow
