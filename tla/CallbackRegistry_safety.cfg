\* Two threads report slices, and both change the list, from inside callbacks and
\* from outside.
SPECIFICATION Spec
CONSTANTS
  Callbacks = {a, b, c}
  Threads = {loop, other}
  Registrars = {loop, other}
  MaxDispatches = 2
  MaxChanges = 4
SYMMETRY CallbackSymmetry
CHECK_DEADLOCK FALSE
INVARIANTS
  TypeOK
  CopiesBounded
  CompleteWithoutRemoval
