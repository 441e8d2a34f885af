\* A call_later handle: two wrappers around one callback.
SPECIFICATION Spec
CONSTANTS
  OnMainThread = TRUE
  MaxLayers = 2
  Weights <- TwoWeights
  ThresholdHigh <- High
  ThresholdMedium <- Medium
  MaxEvents = 2
  MaxHandles = 1
  MaxIo = 3
INVARIANT CpuBlockingMeansNoIo
