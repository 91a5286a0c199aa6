SPECIFICATION Spec
CONSTANTS
  Torn = Torn
  Active = {"D0"}
  Files = {f1, f2}
  Playable = {f1}
  Supported = {f1}
  Chunks = 2
  Arb = 1
  Inputs = {"wave", "tuneDown", "tuneUp", "load", "stop", "browse", "enable"}
  Pace = "prompt"
INVARIANTS TypeOK FatFsExclusive TearOnlyWhenLate
PROPERTY StopForgottenOnlyInWindow
