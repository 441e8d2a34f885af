------------------------- MODULE SampleAttribution --------------------------
(* What the CPU sampler promises, without marker, store, lock or watchdog:   *)
(* samples are taken of slices that are open, and a slice that is over is    *)
(* handed exactly those that were taken of it.  CpuSampler implements        *)
(* this.                                                                     *)
EXTENDS Integers, Sequences, SequencesExt

CONSTANTS
  Threads,      \* the threads that run event loops
  Slices,       \* the slices there may be
  MaxSamples    \* max_samples_per_slice

VARIABLES
  open,     \* per thread, the slices it is inside of, outermost first
  result    \* per thread, the samples its last finished slice was handed

vars == <<open, result>>

Init ==
  /\ open = [t \in Threads |-> <<>>]
  /\ result = [t \in Threads |-> <<>>]

\* A slice without samples.  A slice in which another one begins is nested.
Fresh(s)      == [slice |-> s, held |-> 0, nested |-> FALSE]
AsNested(o)   == [o EXCEPT !.nested = TRUE]
Outer(slices) == [i \in DOMAIN slices |-> AsNested(slices[i])]

Begin(t, s) ==
  /\ \A u \in Threads : \A i \in DOMAIN open[u] : open[u][i].slice # s
  /\ open' = [open EXCEPT ![t] = Append(Outer(@), Fresh(s))]
  /\ UNCHANGED result

\* A sample reaches a slice as long as it is open, also when another one began
\* in it meanwhile.
Observe(t, i) ==
  /\ open[t][i].held < MaxSamples
  /\ open' = [open EXCEPT ![t][i].held = @ + 1]
  /\ UNCHANGED result

\* The one thing that costs a slice its samples is another one inside it.
Forget(t, i) ==
  /\ open[t][i].nested
  /\ open' = [open EXCEPT ![t][i].held = 0]
  /\ UNCHANGED result

\* The code of the slice has ended; samples may still arrive.
Finish(t) ==
  /\ open[t] # <<>>
  /\ result' = [result EXCEPT ![t] = <<>>]
  /\ UNCHANGED open

Deliver(t) ==
  /\ open[t] # <<>>
  /\ result' = [result EXCEPT ![t] = [n \in 1 .. Last(open[t]).held |-> Last(open[t]).slice]]
  /\ open' = [open EXCEPT ![t] = Front(@)]

\* The process goes on as its child: with one thread and without samples.
Fork(t) ==
  /\ open' = [u \in Threads |->
       IF u = t THEN [i \in DOMAIN open[t] |-> [open[t][i] EXCEPT !.held = 0]] ELSE <<>>]
  /\ result' = [u \in Threads |-> IF u = t THEN result[t] ELSE <<>>]

Next ==
  \E t \in Threads :
    \/ \E s \in Slices : Begin(t, s)
    \/ \E i \in DOMAIN open[t] : Observe(t, i) \/ Forget(t, i)
    \/ Finish(t) \/ Deliver(t) \/ Fork(t)

Spec == Init /\ [][Next]_vars
=============================================================================
