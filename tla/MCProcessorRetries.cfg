CONSTANTS
  None = None
  Id = {i1, i2}
  Subroutine <- MCRetried
  Lifetime <- MCLifetime
  ProcessorDomain = "Main"
  MaxSends = 2
  MaxTries = 3
SPECIFICATION MainSpec
SYMMETRY MCSymmetry
INVARIANT EveryFunctionHasItsRetries
