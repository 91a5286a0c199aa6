SPECIFICATION Spec
CONSTANTS
  Torn = Torn
  Active = {"D0", "A0"}
  Files = {f1}
  Playable = {f1}
  Supported = {f1}
  Chunks = 2
  Arb = 1
  Inputs = {"wave", "modulation", "tuneDown"}
  Pace = "full"
INVARIANT EveryEdgeSeen
