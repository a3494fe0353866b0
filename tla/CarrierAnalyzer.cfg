SPECIFICATION Spec
CONSTANTS
  Backends = {"generic", "neon", "avx2_fma", "avx512"}
  Blocks <- SomeBlocks
  None = None
  Busy = Busy
INVARIANT TypeOK
PROPERTY AreStatistics
