----------------------------- MODULE CpuSampler -----------------------------
(* aiocop/core/cpu_sampler.py: the threads that run event loops publish the  *)
(* callback slice they execute, a watchdog thread samples the stack of the   *)
(* published thread, and the loop thread collects the samples of its slice.  *)
(*                                                                           *)
(* A step is one access to the state the threads share (the module globals   *)
(* and the lock), together with the local work up to the next such access:   *)
(* under the GIL a load or a store of a global is atomic and nothing larger  *)
(* is.  Time is the reading of perf_counter_ns, in ticks.                    *)
EXTENDS Integers, Sequences

CONSTANTS
  Threads,      \* the threads that run event loops
  Overlap,      \* whether slices of different threads may be running at once
  MaxLayers,    \* wrappers one handle may nest: call_later also goes through call_at
  MaxSamples,   \* max_samples_per_slice
  ArmAfter,     \* arm_after_ns
  MaxForks,     \* bound: times the process forks and goes on as its child
  MaxStart,     \* bound: no slice starts at or after this reading of the clock
  MaxTime       \* bound: the clock stops here

ASSUME ConstantsAssumption ==
  /\ Overlap \in BOOLEAN
  /\ MaxLayers \in Nat \ {0}
  /\ MaxSamples \in Nat
  /\ ArmAfter \in Nat
  /\ MaxForks \in Nat
  /\ MaxStart \in Nat
  /\ MaxTime \in Nat

VARIABLES
  clock,                   \* perf_counter_ns()
  forks,                   \* forks so far
  currentSliceId,          \* _current_slice_id
  currentSliceThreadId,    \* _current_slice_thread_id
  samplesLock,             \* holder of _samples_lock
  samplesSliceId,          \* _samples_slice_id
  samples,                 \* _samples: each stack as the slice it was taken in
  pc,                      \* where each loop thread is
  t0,                      \* the slice each loop thread is about to publish
  slices,                  \* the wrappers each loop thread is inside of, innermost last
  finished,                \* the last slice each thread finished
  collected,               \* and the samples it got
  wdPc, wdSlice, wdThread, wdFrames   \* the watchdog: its place and its locals

marker   == <<currentSliceId, currentSliceThreadId>>
store    == <<samplesLock, samplesSliceId, samples>>
loopVars == <<pc, t0, slices, finished, collected>>
wdVars   == <<wdPc, wdSlice, wdThread, wdFrames>>
vars     == <<clock, forks, marker, store, loopVars, wdVars>>

Nobody    == "nobody"
Watchdog  == "watchdog"

ASSUME ThreadsAssumption == {Nobody, Watchdog} \cap Threads = {}

\* Slice ids are clock readings; 0 is the marker for "none".
SliceIds == Nat \ {0}

\* The innermost slice thread t executes, 0 when it executes none.  This is
\* what a stack captured from t shows.
Top(t) == IF slices[t] = <<>> THEN 0 ELSE slices[t][Len(slices[t])]
Pop(t) == SubSeq(slices[t], 1, Len(slices[t]) - 1)

\* The record of a thread that finished no slice yet.
NoSlice == [slice |-> 0, end |-> 0, innermost |-> TRUE, stored |-> 0]

-----------------------------------------------------------------------------
Init ==
  /\ clock = 1
  /\ forks = 0
  /\ currentSliceId = 0
  /\ currentSliceThreadId = Nobody
  /\ samplesLock = Nobody
  /\ samplesSliceId = 0
  /\ samples = <<>>
  /\ pc = [t \in Threads |-> "idle"]
  /\ t0 = [t \in Threads |-> 0]
  /\ slices = [t \in Threads |-> <<>>]
  /\ finished = [t \in Threads |-> NoSlice]
  /\ collected = [t \in Threads |-> <<>>]
  /\ wdPc = "sleep"
  /\ wdSlice = 0
  /\ wdThread = Nobody
  /\ wdFrames = 0

Goto(t, label) == pc' = [pc EXCEPT ![t] = label]

Quiet(t) == pc[t] \in {"idle", "gone"}

\* Samples the lock's data holds for slice s.
StoredFor(s) == IF samplesSliceId = s THEN Len(samples) ELSE 0

-----------------------------------------------------------------------------
(* Faults the properties must catch, each a changed form of one action below. *)

\* A lock that is taken counts as nothing to collect.
NothingStoredOrTaken(t) == samplesSliceId # Top(t) \/ samplesLock # Nobody

\* The sample is filed under the slice that is published by now, not under the
\* one whose age was checked.
WdRecheckAdopts ==
  /\ wdPc = "recheck"
  /\ wdSlice' = currentSliceId
  /\ wdPc' = IF currentSliceId = 0 THEN "sleep" ELSE "lock"
  /\ UNCHANGED <<clock, forks, marker, store, loopVars, wdThread, wdFrames>>

\* Each claim empties the store, also of the slice's own samples,
ClaimedAlwaysEmpty == <<>>

\* or none does, and what an earlier slice left is kept.
ClaimedKeepsAll == samples

\* One sample too many.
StoredOffByOne == IF Len(samples) <= MaxSamples THEN Append(samples, wdFrames) ELSE samples

\* A full store is left without giving the lock back.
WdStoreKeepsLock ==
  /\ wdPc = "store"
  /\ samples' = IF Len(samples) < MaxSamples THEN Append(samples, wdFrames) ELSE samples
  /\ samplesLock' = IF Len(samples) < MaxSamples THEN Nobody ELSE Watchdog
  /\ wdPc' = "sleep"
  /\ UNCHANGED <<clock, forks, marker, samplesSliceId, loopVars, wdSlice, wdThread, wdFrames>>

\* The child goes on with the parent's lock.
ReinitKeepsLock ==
  /\ currentSliceId' = 0
  /\ currentSliceThreadId' = Nobody
  /\ samplesSliceId' = 0
  /\ samples' = <<>>
  /\ UNCHANGED samplesLock

-----------------------------------------------------------------------------
(* The loop threads: monitored_wrapper around a callback.                    *)

\* Read the start time, then the first store of _slice_started.  Two readings
\* of the nanosecond clock by wrappers differ.  Between the two nothing is shared,
\* so no other thread can tell the read and the store apart.
StartSlice(t) ==
  /\ \/ pc[t] = "idle"
     \/ pc[t] = "running" /\ Len(slices[t]) < MaxLayers
  /\ Overlap \/ \A u \in Threads \ {t} : Quiet(u)
  /\ clock < MaxStart
  /\ t0' = [t0 EXCEPT ![t] = clock]
  /\ clock' = clock + 1
  /\ currentSliceThreadId' = t
  /\ Goto(t, "publish")
  /\ UNCHANGED <<forks, currentSliceId, store, slices, finished, collected, wdVars>>

\* The second store of _slice_started, then the callback is called.
Publish(t) ==
  /\ pc[t] = "publish"
  /\ currentSliceId' = t0[t]
  /\ slices' = [slices EXCEPT ![t] = Append(@, t0[t])]
  /\ Goto(t, "running")
  /\ UNCHANGED <<clock, forks, currentSliceThreadId, store, t0, finished, collected, wdVars>>

\* The callback returned or raised: _slice_finished withdraws the marker.
\* `finished` records, for the properties, when that was, whether this was the
\* innermost wrapper, and how many samples the slice had by then.
FinishClear(t) ==
  /\ pc[t] \in {"running", "unwinding"}
  /\ currentSliceId' = 0
  /\ finished' = [finished EXCEPT ![t] =
       [slice |-> Top(t), end |-> clock, innermost |-> pc[t] = "running",
        stored |-> StoredFor(Top(t))]]
  /\ collected' = [collected EXCEPT ![t] = <<>>]
  /\ Goto(t, "peek")
  /\ UNCHANGED <<clock, forks, currentSliceThreadId, store, t0, slices, wdVars>>

\* _slice_finished returns.  An inner wrapper runs the slow-task callbacks and
\* returns into the outer one, which has nothing left to run but its own end.
Return(t) ==
  /\ slices' = [slices EXCEPT ![t] = Pop(t)]
  /\ Goto(t, IF Len(slices[t]) > 1 THEN "unwinding" ELSE "idle")

NothingStored(t) == samplesSliceId # Top(t)

\* The unlocked read that skips the lock in the common case.
FinishPeek(t) ==
  /\ pc[t] = "peek"
  /\ IF NothingStored(t)
     THEN Return(t)
     ELSE Goto(t, "lock") /\ UNCHANGED slices
  /\ UNCHANGED <<clock, forks, marker, store, t0, finished, collected, wdVars>>

FinishAcquire(t) ==
  /\ pc[t] = "lock"
  /\ samplesLock = Nobody
  /\ samplesLock' = t
  /\ Goto(t, "collect")
  /\ UNCHANGED <<clock, forks, marker, samplesSliceId, samples, t0, slices, finished, collected, wdVars>>

\* Under the lock: confirm the owner, copy the samples and empty the store.
FinishCollect(t) ==
  /\ pc[t] = "collect"
  /\ IF samplesSliceId = Top(t)
     THEN /\ collected' = [collected EXCEPT ![t] = samples]
          /\ samples' = <<>>
          /\ samplesSliceId' = 0
     ELSE UNCHANGED <<collected, samples, samplesSliceId>>
  /\ samplesLock' = Nobody
  /\ Return(t)
  /\ UNCHANGED <<clock, forks, marker, t0, finished, wdVars>>

\* The loop is closed and its thread ends: its stack can no longer be captured.
LoopEnds(t) ==
  /\ pc[t] = "idle"
  /\ Goto(t, "gone")
  /\ UNCHANGED <<clock, forks, marker, store, t0, slices, finished, collected, wdVars>>

\* _slice_finished once the marker is withdrawn: aiocop's own code.
Epilogue(t) == FinishPeek(t) \/ FinishAcquire(t) \/ FinishCollect(t)

LoopThread(t) ==
  \/ StartSlice(t) \/ Publish(t) \/ FinishClear(t) \/ Epilogue(t) \/ LoopEnds(t)

-----------------------------------------------------------------------------
(* The watchdog: one round of _watchdog_loop.                                *)

\* The sleep is over: read the published slice, back to sleep when there is none.
WdWake ==
  /\ wdPc = "sleep"
  /\ wdSlice' = currentSliceId
  /\ wdPc' = IF currentSliceId = 0 THEN "sleep" ELSE "age"
  /\ UNCHANGED <<clock, forks, marker, store, loopVars, wdThread, wdFrames>>

\* Slices younger than the arming age are left alone.
WdAge ==
  /\ wdPc = "age"
  /\ wdPc' = IF clock - wdSlice < ArmAfter THEN "sleep" ELSE "ident"
  /\ UNCHANGED <<clock, forks, marker, store, loopVars, wdSlice, wdThread, wdFrames>>

WdIdent ==
  /\ wdPc = "ident"
  /\ wdThread' = currentSliceThreadId
  /\ wdPc' = "frames"
  /\ UNCHANGED <<clock, forks, marker, store, loopVars, wdSlice, wdFrames>>

\* sys._current_frames() of that thread; nothing comes back for a dead one.
WdCapture ==
  /\ wdPc = "frames"
  /\ IF pc[wdThread] = "gone"
     THEN wdPc' = "sleep" /\ UNCHANGED wdFrames
     ELSE wdPc' = "recheck" /\ wdFrames' = Top(wdThread)
  /\ UNCHANGED <<clock, forks, marker, store, loopVars, wdSlice, wdThread>>

\* Drop the frames when the slice is no longer the published one.
WdRecheck ==
  /\ wdPc = "recheck"
  /\ wdPc' = IF currentSliceId # wdSlice THEN "sleep" ELSE "lock"
  /\ UNCHANGED <<clock, forks, marker, store, loopVars, wdSlice, wdThread, wdFrames>>

WdAcquire ==
  /\ wdPc = "lock"
  /\ samplesLock = Nobody
  /\ samplesLock' = Watchdog
  /\ wdPc' = "claim"
  /\ UNCHANGED <<clock, forks, marker, samplesSliceId, samples, loopVars, wdSlice, wdThread, wdFrames>>

\* What a claim leaves in the store, and what a sample then makes of it.
Claimed == IF samplesSliceId # wdSlice THEN <<>> ELSE samples
Stored  == IF Len(samples) < MaxSamples THEN Append(samples, wdFrames) ELSE samples

\* The first sample of a slice throws out whatever an earlier slice left.  The
\* owner is stored here and the sample only in WdStore: the unlocked read in
\* FinishPeek may fall in between.
WdClaim ==
  /\ wdPc = "claim"
  /\ samples' = Claimed
  /\ samplesSliceId' = wdSlice
  /\ wdPc' = "store"
  /\ UNCHANGED <<clock, forks, marker, samplesLock, loopVars, wdSlice, wdThread, wdFrames>>

WdStore ==
  /\ wdPc = "store"
  /\ samples' = Stored
  /\ samplesLock' = Nobody
  /\ wdPc' = "sleep"
  /\ UNCHANGED <<clock, forks, marker, samplesSliceId, loopVars, wdSlice, wdThread, wdFrames>>

WatchdogStep ==
  \/ WdWake \/ WdAge \/ WdIdent \/ WdCapture \/ WdRecheck
  \/ WdAcquire \/ WdClaim \/ WdStore

-----------------------------------------------------------------------------
(* User code of thread t forks and the state goes on with the child: no other *)
(* thread survives, and before any code runs _reinit_after_fork replaces the  *)
(* lock, empties marker and store and starts a watchdog.  A callback that     *)
(* forked goes on unpublished.                                                *)

Reinit ==
  /\ samplesLock' = Nobody
  /\ currentSliceId' = 0
  /\ currentSliceThreadId' = Nobody
  /\ samplesSliceId' = 0
  /\ samples' = <<>>

Fork(t) ==
  /\ pc[t] \in {"idle", "running", "unwinding"}
  /\ forks < MaxForks
  /\ forks' = forks + 1
  /\ pc' = [u \in Threads |-> IF u = t THEN pc[t] ELSE "gone"]
  /\ slices' = [u \in Threads |-> IF u = t THEN slices[t] ELSE <<>>]
  /\ finished' = [u \in Threads |-> IF u = t THEN finished[t] ELSE NoSlice]
  /\ collected' = [u \in Threads |-> IF u = t THEN collected[t] ELSE <<>>]
  /\ Reinit
  /\ wdPc' = "sleep" /\ wdSlice' = 0 /\ wdThread' = Nobody /\ wdFrames' = 0
  /\ UNCHANGED <<clock, t0>>

Tick ==
  /\ clock < MaxTime
  /\ clock' = clock + 1
  /\ UNCHANGED <<forks, marker, store, loopVars, wdVars>>

-----------------------------------------------------------------------------
Next ==
  \/ \E t \in Threads : LoopThread(t) \/ Fork(t)
  \/ WatchdogStep
  \/ Tick

Spec == Init /\ [][Next]_vars

\* The operating system schedules the watchdog and threads that are in aiocop's
\* own code, and time passes.  Nothing is assumed of user code: a callback may
\* run forever.
FairSpec ==
  /\ Spec
  /\ WF_vars(WatchdogStep) /\ WF_vars(Tick)
  /\ \A t \in Threads : WF_vars(Epilogue(t))

-----------------------------------------------------------------------------
(* Properties.                                                               *)

\* The types; the store within its cap; the watchdog holds the lock exactly
\* while it is inside its `with _samples_lock` block.
TypeOK ==
  /\ clock \in SliceIds
  /\ forks \in Nat
  /\ currentSliceId \in Nat
  /\ currentSliceThreadId \in Threads \cup {Nobody}
  /\ samplesLock \in Threads \cup {Nobody, Watchdog}
  /\ samplesSliceId \in Nat
  /\ samples \in Seq(Nat) /\ Len(samples) <= MaxSamples
  /\ pc \in [Threads -> {"idle", "gone", "publish", "running", "peek", "lock", "collect",
                         "unwinding"}]
  /\ t0 \in [Threads -> Nat]
  /\ slices \in [Threads -> Seq(SliceIds)]
  /\ finished \in [Threads -> [slice : Nat, end : Nat, innermost : BOOLEAN, stored : Nat]]
  /\ collected \in [Threads -> Seq(Nat)]
  /\ wdPc \in {"sleep", "age", "ident", "frames", "recheck", "lock", "claim", "store"}
  /\ wdSlice \in Nat
  /\ wdThread \in Threads \cup {Nobody}
  /\ wdFrames \in Nat
  /\ wdPc \in {"frames", "recheck"} => wdThread # Nobody
  /\ samplesLock = Watchdog <=> wdPc \in {"claim", "store"}

\* Every stack a slice hands to its SlowTaskEvent was captured while that very
\* slice was executing: never the frames of the slice before or after it, of a
\* wrapper nested in it, or of another thread, although marker, thread id,
\* frames and store are read and written at different moments.
OwnSamples ==
  \A t \in Threads : \A i \in DOMAIN collected[t] : collected[t][i] = finished[t].slice

\* "Slices shorter than this are never sampled" (cpu_sampler.py:90): a slice
\* that got a sample had reached the arming age by its end, whatever happened
\* between the watchdog's look at the clock and its store.
ShortSlicesUnsampled ==
  \A t \in Threads :
    collected[t] # <<>> => finished[t].end - finished[t].slice >= ArmAfter

\* What the watchdog had stored for a slice when its callback ended is handed
\* over once the wrapper is done: the unlocked shortcut of _slice_finished
\* skips only slices that have nothing, and no later claim empties the store
\* under a slice that is about to collect.  (For innermost wrappers: a nested
\* wrapper's claim does throw out the samples of the wrapper around it.)
NoSampleLost ==
  \A t \in Threads :
    Quiet(t) /\ finished[t].innermost => Len(collected[t]) >= finished[t].stored

\* The sampler is an implementation of what SampleAttribution promises: an open
\* slice holds what the store has for it, and nested is a slice whose wrapper is
\* not, or was not when its callback ended, the innermost one.
IsNested(t, i) ==
  \/ i < Len(slices[t])
  \/ pc[t] = "unwinding"
  \/ pc[t] \in {"peek", "lock", "collect"} /\ ~finished[t].innermost

Attribution == INSTANCE SampleAttribution WITH
  Slices <- 1 .. MaxStart,
  open   <- [t \in Threads |-> [i \in DOMAIN slices[t] |->
              [slice |-> slices[t][i], held |-> StoredFor(slices[t][i]), nested |-> IsNested(t, i)]]],
  result <- collected

\* Every step of loop threads, watchdog and fork is a step of that promise or
\* invisible to it (cpu_sampler.py:195-263): a sample of the innermost open
\* slice is never dropped, a late one is never seen, a delivery is exact.
ImplementsAttribution == Attribution!Spec

\* A wrapper that waits for the lock gets it and returns: no holder keeps it,
\* in a child forked while the parent's watchdog held it either.
SliceEndReturns ==
  \A t \in Threads : pc[t] = "peek" ~> pc[t] \notin {"peek", "lock", "collect"}

\* A callback that freezes the loop is caught in the act: a slice that stays
\* published is eventually sampled, even when it never ends, whatever samples
\* of earlier slices or dead threads the watchdog met on its way.
SlowSliceSampled ==
  \A s \in 1 .. MaxStart :
    currentSliceId = s ~> (currentSliceId # s \/ StoredFor(s) > 0)
=============================================================================
