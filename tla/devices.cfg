SPECIFICATION Spec
CONSTANTS
  Sectors = {0, 1, 2, 3, 4, 5, 6, 7, 8, 9}
  Counts = {1}
  Garbage = Garbage
  Nothing = Nothing
  Tries = 1
  Polls = 1
  Wrap = 16384
  SS = 2
  ClusterSize = 4
  BootSector = 0
  FatSector = 3
  DirSectors <- Directory
  FirstSector = 4
  FileSize = 11
  DataOffset = 1
  DataLength = 10
  Format = "stereo"
  Keys = {0, 2, 5}
  Column <- KeyColumn
  Zero = 0
  None = None
  PressDelay = 10
  ReleaseDelay = 20
  Bounce = 8
  Dwell = 24
  Pages = 2
  Columns = 2
  Pictures = {1}
  Length = 3
  CounterWrap = 16
  PhaseRange = 4
  Settings <- ChannelSettings
  Modulation <- SquareModulation
  PulseClocks = 2
  F = 8
  FileSamples <- Loudness
  Period = 64
  MHz = 100
  Delays = {0, 1, 2}
  Gap = 2
  Base = 2
  Decimals = 1
  Longest = 2
  Turns <- EncoderSteps
  Values <- EditedValues
  Words = {0, 1}
  Listing <- CardListing
  Folders = {"A", "B"}
  Nameless = Nameless
INVARIANTS
  DevicesTypeOK
  OneSectorAtATime OpenIsReadable StatusTruthful
  SettledScreen BytesInOrder ChannelsInPhase
  TablesWellFormed BoostKeepsSign AmFollowsFormula PathNearTheCard
PROPERTIES
  ImplementsDevice ImplementsStream UpdateReturns StopCloses
  ReportsOnlyKeysMet OneReportPerPress KeyReported
  ScreenCatchesUp DelayWindow EnterStoresTheEntry
