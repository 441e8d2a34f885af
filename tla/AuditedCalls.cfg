\* Two threads, a child and a grandchild, every order of setup calls, imports
\* and calls.
SPECIFICATION Spec
CONSTANTS
  Targets <- SomeTargets
  Missing = {"os.statvfs"}
  Native = {"open"}
  Sockets = {"ssl.SSLSocket.recv", "ssl.SSLSocket.read"}
  Inside <- InsideThem
  Threads = {main, worker}
  MainThread = main
  MaxForks = 2
  MaxHooks = 2
CHECK_DEADLOCK FALSE
INVARIANTS
  TypeOK
  CountedOnce
  BlockingCallsHeard
  PatchedIsTrue
