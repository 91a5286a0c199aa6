SPECIFICATION DelaySpec
CONSTANTS
  Period = 512
  MHz = 100
  Delays = {0, 1, 2}
  Gap = 2
PROPERTY LastsAsAsked
