SPECIFICATION Spec
CONSTANTS
  NULL = NULL
  Channels = {0}
  Max = 0
  SubPages = {"settings", "phase", "sweep", "am", "fm"}
  Inputs = {"encoder", "display", "keypad"}
  Pressed = {"0", "1", "5", "digit", "enter"}
  Turns = {0, 1}
  Holds = {"encoder"}
  AnyTime = {"encoder", "display", "keypad"}
INVARIANTS TypeOK PageStack TypingSafe TypingOwner NoReplay
