\* Intervals from 0 to above the derived idle cap, arming ages and idle sleeps
\* derived or given (0 included), and a threshold that is changed once.
SPECIFICATION Spec
CONSTANTS
  Intervals = {0, 2, 6}
  Arms = {Derived, 0, 2}
  Idles = {Derived, 0, 4}
  Thresholds = {4, 8}
  Derived = Derived
  IdleCap = 5
  MaxSamples = 6
  Late = 1
  MaxAge = 16
INVARIANTS
  TypeOK
  ViolatorsSampled
  FewSamplesMeanStarvation
  CountsMeasureTime
  LongestFirst
