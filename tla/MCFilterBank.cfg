CONSTANTS
  NUM_FILTERS = 2
  FILTER_ORDER = 3
  Coefficients <- MCCoefficients
  Samples <- MCSamples
  MaxSamples = 5
SPECIFICATION Spec
INVARIANT LeqIsEnergy
