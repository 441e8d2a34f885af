\* A handle of a single wrapper that uses the raise_on_violations context manager.
SPECIFICATION Spec
CONSTANTS
  OnMainThread = TRUE
  MaxLayers = 1
  Weights <- TwoWeights
  ThresholdHigh <- High
  ThresholdMedium <- Medium
  MaxEvents = 2
  MaxHandles = 1
  MaxIo = 3
INVARIANT RaisesForTheBlockOnly
