CONSTANTS
  NumSamples <- MCNumSamples
  FifoDepth <- MCFifoDepth
  MaxSessions <- MCMaxSessions
SPECIFICATION Spec
INVARIANT BufferHoldsOneSession
