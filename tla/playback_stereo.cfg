SPECIFICATION Spec
CONSTANTS
  Torn = Torn
  Active = {"D0", "D1"}
  Files = {f1}
  Playable = {f1}
  Supported = {f1}
  Chunks = 2
  Arb = 1
  Inputs = {"wave", "tuneDown", "load"}
  Pace = "full"
INVARIANT ReplacesConsumedHalf
