SPECIFICATION Spec
CONSTANTS
  Backend = "avx2_fma"
  Bins = 8
  Rows = 22
  Decimation = 4
  Outputs = 4
  ExactBins = TRUE
  PhasePeriod = 4
  RunsAvailable = TRUE
  MaxHistory = 512
  BlockSizes = {37, 345, 601}
  MaxPosition = 1300
PROPERTY IsStream
