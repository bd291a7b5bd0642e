CONSTANTS
  NumSamples <- MCNumSamples
  FifoDepth <- MCFifoDepth
  MaxSessions <- MCMaxSessions
SPECIFICATION AppSpec
INVARIANT AverageReadOnlyAfterCompletion
