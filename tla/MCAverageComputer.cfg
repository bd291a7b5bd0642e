CONSTANTS
  NumSamples <- MCNumSamples
  RawValues <- MCRawValues
SPECIFICATION Spec
INVARIANT AverageWithinOneMv
