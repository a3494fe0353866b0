SPECIFICATION Spec
CONSTANTS
  NaN = NaN
  SizeMax = 1023
  None = None
  Lengths = {0, 1, 3, 4, 7, 8, 15, 31, 44, 73}
  Batches <- SomeBatches
INVARIANTS ElementsAreDefined BatchesAreTransforms
