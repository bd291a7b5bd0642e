CONSTANTS
  NumSamples <- MCNumSamples
  FifoDepth <- MCFifoDepth
  MaxSessions <- MCMaxSessions
SPECIFICATION Spec
PROPERTY SessionTerminates
PROPERTY SessionRefinement
