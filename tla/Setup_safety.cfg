\* Two threads, two loops, a process, its child and its grandchild.
SPECIFICATION Spec
CONSTANTS
  Threads = {t1, t2}
  Loops = {l1, l2}
  MaxForks = 2
SYMMETRY SetupSymmetry
INVARIANTS
  TypeOK
  SamplingIsReal
  OneWatchdog
  PatchedOnce
  ActivatePatches
