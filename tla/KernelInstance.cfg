SPECIFICATION Spec
CONSTANTS
  Kinds = {"pfb_channelizer", "costas4", "carrier_analyzer", "symbol_sync4", "viterbi_k7r2"}
  Configs = {some_bins, no_bins}
  Blind = {no_bins}
  Rejected = {rejected}
  NoState = NoState
  Decimation = 2
  BlockSizes = {0, 3}
  Capacities = {1, 2}
  MaxPosition = 6
INVARIANTS TypeOK FailureKeepsState ParametersFitState
PROPERTIES QueryForetells IsStreamingKernel
