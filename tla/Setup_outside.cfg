\* One thread, one loop, no fork.
SPECIFICATION Spec
CONSTANTS
  Threads = {t1}
  Loops = {l1}
  MaxForks = 0
INVARIANT RunningLoopsMonitored
