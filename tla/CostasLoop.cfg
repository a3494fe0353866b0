SPECIFICATION Spec
CONSTANTS
  Backend = "avx2_fma"
  Lanes = {0, 1}
  Turn = 4
  Delay = 2
  Period = 2
  Alpha = 1
  Beta = 1
  Clip = 1
  InitialPhase = 1
  InitialFrequency = 1
  Errors <- TwoErrors
  Limits = {0, 1}
  Overrides = {1}
  SampleCounts = {3}
  SkipCounts = {1, 3}
  QuarterTurns = {1}
  Sources <- AfterThreeSamples
  MaxFrequency = 2
INVARIANTS TypeOK PhasorFollowsPhase PhaseStaysSmall
PROPERTY AreLanes
