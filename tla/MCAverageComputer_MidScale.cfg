CONSTANTS
  NumSamples <- MCNumSamples
  RawValues <- MCRawValues
SPECIFICATION Spec
INVARIANT MidScaleReads1651
