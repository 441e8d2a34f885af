\* Slices of two loop threads, one at a time, a handle being one or two nested
\* wrappers, and a fork by any of their user code.
SPECIFICATION FairSpec
CONSTANTS
  Threads = {t1, t2}
  Overlap = FALSE
  MaxLayers = 2
  MaxSamples = 2
  ArmAfter = 2
  MaxForks = 1
  MaxStart = 4
  MaxTime = 5
INVARIANTS
  TypeOK
  OwnSamples
  ShortSlicesUnsampled
  NoSampleLost
PROPERTIES
  ImplementsAttribution
  SliceEndReturns
  SlowSliceSampled
