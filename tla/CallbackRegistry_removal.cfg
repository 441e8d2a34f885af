\* One loop whose callbacks change the list.
SPECIFICATION Spec
CONSTANTS
  Callbacks = {a, b}
  Threads = {loop}
  Registrars = {loop}
  MaxDispatches = 1
  MaxChanges = 3
CHECK_DEADLOCK FALSE
INVARIANT AllInvoked
