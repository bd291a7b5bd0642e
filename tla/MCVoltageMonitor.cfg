CONSTANTS
  NumSamples <- MCNumSamples
  FifoDepth <- MCFifoDepth
  MaxSessions <- MCMaxSessions
SPECIFICATION Spec
INVARIANT TypeOK
INVARIANT FlagMatchesHardware
INVARIANT NoSampleDropped
INVARIANT StaleSampleOnlyInFirstSlot
PROPERTY NoRearmMidTransfer
