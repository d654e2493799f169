CONSTANTS
  None = None
  Id = {i1, i2}
  Subroutine <- MCUnretried
  Lifetime <- MCLifetime
  ProcessorDomain = "Main"
  MaxSends = 2
  MaxTries = 3
SPECIFICATION MainSpec
SYMMETRY MCSymmetry
INVARIANT RejectedMeansNothingRan
