SPECIFICATION Spec
CONSTANTS
  Torn = Torn
  Active = {"A0", "A1"}
  Files = {f1}
  Playable = {f1}
  Supported = {f1}
  Chunks = 2
  Arb = 1
  Inputs = {"wave", "modulation", "tuneDown"}
  Pace = "prompt"
INVARIANT EnabledOnlyIfSlow
