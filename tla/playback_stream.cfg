SPECIFICATION FairSpec
CONSTANTS
  Torn = Torn
  Active = {"D0"}
  Files = {f1, f2}
  Playable = {f1, f2}
  Supported = {f1, f2}
  Chunks = 3
  Arb = 1
  Inputs = {"wave", "tuneDown", "load", "stop", "browse", "enable"}
  Pace = "full"
INVARIANT ReplacesConsumedHalf
PROPERTIES PlaysInOrder StopCloses
