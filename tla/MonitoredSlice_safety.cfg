\* Handles of one or two wrappers; one I/O more than the cap.
SPECIFICATION Spec
CONSTANTS
  OnMainThread = TRUE
  MaxLayers = 2
  Weights <- TwoWeights
  ThresholdHigh <- High
  ThresholdMedium <- Medium
  MaxEvents = 2
  MaxHandles = 2
  MaxIo = 3
INVARIANTS
  TypeOK
  OwnIo
  ReportedOnce
  NoIoLost
  RaiseJustified
  ViolationRaises
