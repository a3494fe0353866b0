SPECIFICATION Spec
CONSTANTS
  Backend = "avx2_fma"
  Lanes = {0, 1}
  Ticks = 2
  Omega = 5
  OmegaMin = 4
  OmegaMax = 6
  Alpha = 1
  Beta = 0
  Errors <- EarlyOrLate
  Poisons = {}
  StartsMuellerMuller = FALSE
  AutoTed = TRUE
  Fallback = TRUE
  MinSymbols = 2
  MmHold = 3
  FallbackHold = 3
  Counts = {4, 24}
  Capacities = {5, 20}
  MaxSymbols = 8
  MaxSupplied = 24
INVARIANTS BatchStaysInside ReplayIsLate
PROPERTY AreLanes
