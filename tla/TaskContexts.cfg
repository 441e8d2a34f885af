\* Two contexts, one or two wrappers a slice, two block instances.
SPECIFICATION Spec
CONSTANTS
  Tasks = {t1, t2}
  Values = {v1, v2}
  None = None
  Unset = Unset
  Instances = {i1, i2}
  MaxLayers = 2
  MaxOps = 5
  MaxDepth = 2
INVARIANTS
  TypeOK
  OwnContext
  ContextOfTheFirstIo
  NoKnownValueLost
PROPERTY RaiseRestored
