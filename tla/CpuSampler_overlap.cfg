\* Two loops on two threads, their slices overlapping.
SPECIFICATION Spec
CONSTANTS
  Threads = {t1, t2}
  Overlap = TRUE
  MaxLayers = 1
  MaxSamples = 1
  ArmAfter = 1
  MaxForks = 0
  MaxStart = 4
  MaxTime = 5
INVARIANT OwnSamples
