SPECIFICATION Spec
CONSTANTS
  Backend = "neon"
  Bins = 4
  Rows = 1
  Decimation = 4
  Outputs = 2
  ExactBins = FALSE
  PhasePeriod = 3
  RunsAvailable = FALSE
  MaxHistory = 16
  BlockSizes = {0, 1, 3, 11, 19}
  MaxPosition = 60
INVARIANTS TypeOK RingIsStream QueueReadable WindowsIntact PhasesFollowStream OutputsFit
PROPERTY IsStream
