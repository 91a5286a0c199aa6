SPECIFICATION Spec
CONSTANTS
  Torn = Torn
  Active = {"D0", "A0"}
  Files = {f1}
  Playable = {f1}
  Supported = {f1}
  Chunks = 1
  Arb = 1
  Inputs = {"wave", "modulation", "tuneDown", "load"}
  Pace = "prompt"
INVARIANTS NoOverwriteUnplayed TearOnlyWhenLate
PROPERTY MixedOnlyByOthers
