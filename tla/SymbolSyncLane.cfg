SPECIFICATION Spec
CONSTANTS
  Backend = "generic"
  Lanes = {0}
  Ticks = 2
  Omega = 5
  OmegaMin = 4
  OmegaMax = 6
  Alpha = 1
  Beta = 1
  Errors <- EarlyOrLate
  Poisons = {"ahead", "behind"}
  StartsMuellerMuller = FALSE
  AutoTed = TRUE
  Fallback = TRUE
  MinSymbols = 1
  MmHold = 2
  FallbackHold = 2
  Counts = {0, 5, 14}
  Capacities = {1, 20}
  MaxSymbols = 8
  MaxSupplied = 24
INVARIANTS TypeOK HistoryIsStream
PROPERTY AreLanes
