-------------------------- MODULE CpuSamplerProofs --------------------------
(* TypeOK, OwnSamples, ShortSlicesUnsampled and NoSampleLost of CpuSampler   *)
(* for any threads, any bounds and any number of nested wrappers.            *)
EXTENDS CpuSampler, TLAPS

USE DEF SliceIds, Nobody, Watchdog, marker, store

-----------------------------------------------------------------------------
(* Type correctness, also when slices overlap.                               *)

\* A thread id is there before the first slice id, so the watchdog that read a
\* slice id finds a thread id; and a loop thread inside `with _samples_lock`
\* holds the lock.
TypeInv ==
  /\ TypeOK
  /\ \A t \in Threads : pc[t] = "publish" =>
       t0[t] \in SliceIds /\ currentSliceThreadId # Nobody
  /\ currentSliceId # 0 => currentSliceThreadId # Nobody
  /\ wdPc \in {"age", "ident"} => currentSliceThreadId # Nobody
  /\ \A t \in Threads : pc[t] = "collect" => samplesLock = t

\* What a wrapper sees on top of the stack is a slice id or nothing, and the
\* stack below it is a stack.
LEMMA StackTypes ==
  ASSUME NEW S \in Seq(SliceIds)
  PROVE  /\ (IF S = <<>> THEN 0 ELSE S[Len(S)]) \in Nat
         /\ SubSeq(S, 1, Len(S) - 1) \in Seq(SliceIds)
         /\ \A x \in SliceIds : Append(S, x) \in Seq(SliceIds)
OBVIOUS

LEMMA StoreKeepsType ==
  ASSUME NEW S \in Seq(Nat), Len(S) <= MaxSamples, NEW R, R = <<>> \/ R = S
  PROVE  R \in Seq(Nat) /\ Len(R) <= MaxSamples
<1>1. CASE R = <<>>
  <2>1. <<>> \in Seq(Nat) /\ Len(<<>>) = 0
    OBVIOUS
  <2>. QED
    BY <1>1, <2>1, ConstantsAssumption
<1>. QED
  BY <1>1

LEMMA TypeInit == Init => TypeInv
<1>. SUFFICES ASSUME Init PROVE TypeInv
  OBVIOUS
<1>1. TypeOK
  BY ConstantsAssumption, ThreadsAssumption DEF Init, TypeOK, NoSlice
<1>2. QED
  BY <1>1 DEF Init, TypeInv

LEMMA TypeLoop ==
  ASSUME TypeInv, NEW t \in Threads, LoopThread(t)
  PROVE  TypeInv'
<1>. USE DEF TypeInv, TypeOK, Goto, Quiet, loopVars, wdVars
<1>1. CASE StartSlice(t)
  <2>1. clock \in Nat /\ clock + 1 \in SliceIds
    BY DEF TypeInv, TypeOK
  <2>. QED
    BY <1>1, <2>1, ThreadsAssumption DEF StartSlice
<1>2. CASE Publish(t)
  <2>1. Append(slices[t], t0[t]) \in Seq(SliceIds)
    BY <1>2 DEF Publish
  <2>. QED
    BY <1>2, <2>1, ThreadsAssumption DEF Publish
<1>3. CASE FinishClear(t)
  <2>1. Top(t) \in Nat
    BY StackTypes DEF Top
  <2>2. StoredFor(Top(t)) \in Nat
    BY DEF StoredFor
  <2>3. finished' \in [Threads -> [slice : Nat, end : Nat, innermost : BOOLEAN, stored : Nat]]
    BY <1>3, <2>1, <2>2 DEF FinishClear
  <2>4. collected' \in [Threads -> Seq(Nat)]
    BY <1>3 DEF FinishClear
  <2>. QED
    BY <1>3, <2>3, <2>4, ThreadsAssumption DEF FinishClear
<1>. Pop(t) \in Seq(SliceIds)
  BY StackTypes DEF Pop
<1>4. CASE FinishPeek(t)
  BY <1>4, ThreadsAssumption DEF FinishPeek, NothingStored, Return
<1>5. CASE FinishAcquire(t)
  BY <1>5, ThreadsAssumption DEF FinishAcquire
<1>6. CASE FinishCollect(t)
  <2>a. \/ samples' = <<>> /\ samplesSliceId' = 0
        \/ samples' = samples /\ samplesSliceId' = samplesSliceId
    BY <1>6, Zenon DEF FinishCollect
  <2>0. samplesSliceId' \in Nat
    <3>1. samplesSliceId \in Nat /\ 0 \in Nat
      OBVIOUS
    <3>. QED
      BY <3>1, <2>a, Zenon
  <2>1. samples' \in Seq(Nat) /\ Len(samples') <= MaxSamples
    BY <2>a, StoreKeepsType
  <2>2. collected' \in [Threads -> Seq(Nat)]
    BY <1>6 DEF FinishCollect
  <2>3. samplesLock = t /\ samplesLock' = Nobody /\ wdPc \notin {"claim", "store"}
    BY <1>6, ThreadsAssumption DEF FinishCollect
  <2>4. /\ pc' = [pc EXCEPT ![t] = IF Len(slices[t]) > 1 THEN "unwinding" ELSE "idle"]
        /\ slices' = [slices EXCEPT ![t] = Pop(t)]
        /\ UNCHANGED <<clock, forks, currentSliceId, currentSliceThreadId, t0, finished, wdVars>>
    BY <1>6 DEF FinishCollect, Return
  <2>5. \A u \in Threads : pc'[u] = "collect" => u # t /\ pc[u] = "collect"
    BY <2>4
  <2>. QED
    BY <2>0, <2>1, <2>2, <2>3, <2>4, <2>5, ThreadsAssumption
<1>7. CASE LoopEnds(t)
  BY <1>7, ThreadsAssumption DEF LoopEnds
<1>. QED
  BY <1>1, <1>2, <1>3, <1>4, <1>5, <1>6, <1>7 DEF LoopThread, Epilogue

LEMMA TypeWatchdog ==
  ASSUME TypeInv, WatchdogStep
  PROVE  TypeInv'
<1>. USE DEF TypeInv, TypeOK, loopVars
<1>1. CASE WdWake
  BY <1>1 DEF WdWake
<1>2. CASE WdAge
  BY <1>2 DEF WdAge
<1>3. CASE WdIdent
  BY <1>3 DEF WdIdent
<1>4. CASE WdCapture
  <2>1. wdPc = "frames" => Top(wdThread) \in Nat
    BY StackTypes DEF Top
  <2>. QED
    BY <1>4, <2>1 DEF WdCapture
<1>5. CASE WdRecheck
  BY <1>5 DEF WdRecheck
<1>6. CASE WdAcquire
  BY <1>6, ThreadsAssumption DEF WdAcquire
<1>7. CASE WdClaim
  <2>1. <<>> \in Seq(Nat) /\ Len(<<>>) <= MaxSamples
    BY ConstantsAssumption
  <2>. QED
    BY <1>7, <2>1 DEF WdClaim, Claimed
<1>8. CASE WdStore
  <2>1. samples' \in Seq(Nat) /\ Len(samples') <= MaxSamples
    BY <1>8, ConstantsAssumption DEF WdStore, Stored
  <2>. QED
    BY <1>8, <2>1, ThreadsAssumption DEF WdStore, Stored
<1>. QED
  BY <1>1, <1>2, <1>3, <1>4, <1>5, <1>6, <1>7, <1>8 DEF WatchdogStep

LEMMA TypeTick ==
  ASSUME TypeInv, Tick
  PROVE  TypeInv'
<1>1. clock + 1 \in SliceIds
  BY DEF TypeInv, TypeOK
<1>. QED
  BY <1>1 DEF TypeInv, TypeOK, Tick, loopVars, wdVars

\* What a process hands on to its child is well formed, whatever its threads
\* were doing.
LEMMA TypeFork ==
  ASSUME TypeInv, NEW t \in Threads, Fork(t)
  PROVE  TypeInv'
<1>. USE DEF TypeInv, TypeOK
<1>1. samples' = <<>> /\ samples' \in Seq(Nat) /\ Len(samples') <= MaxSamples
  BY ConstantsAssumption DEF Fork, Reinit
<1>2. NoSlice \in [slice : Nat, end : Nat, innermost : BOOLEAN, stored : Nat]
  BY DEF NoSlice
<1>3. /\ finished' \in [Threads -> [slice : Nat, end : Nat, innermost : BOOLEAN, stored : Nat]]
      /\ slices' \in [Threads -> Seq(SliceIds)]
      /\ collected' \in [Threads -> Seq(Nat)]
  BY <1>2 DEF Fork
<1>4. /\ pc' \in [Threads -> {"idle", "gone", "publish", "running", "peek", "lock", "collect",
                             "unwinding"}]
      /\ \A u \in Threads : pc'[u] \notin {"publish", "collect"}
  BY DEF Fork
<1>5. /\ currentSliceId' = 0 /\ currentSliceThreadId' = Nobody
      /\ samplesLock' = Nobody /\ samplesSliceId' = 0
      /\ wdPc' = "sleep" /\ wdSlice' = 0 /\ wdThread' = Nobody /\ wdFrames' = 0
      /\ forks' = forks + 1
      /\ UNCHANGED <<clock, t0>>
  BY DEF Fork, Reinit
<1>6. 0 \in Nat /\ forks' \in Nat
  BY <1>5
<1>. QED
  BY <1>1, <1>3, <1>4, <1>5, <1>6, ThreadsAssumption

\* The state of the sampler is well formed at every step, whatever the number of
\* loop threads, and the watchdog is in its critical section exactly while it
\* owns the lock (cpu_sampler.py:250).
THEOREM TypeCorrect == Spec => []TypeOK
<1>1. TypeInv /\ [Next]_vars => TypeInv'
  <2>. SUFFICES ASSUME TypeInv, [Next]_vars PROVE TypeInv'
    OBVIOUS
  <2>1. CASE UNCHANGED vars
    BY <2>1 DEF TypeInv, TypeOK, vars, loopVars, wdVars
  <2>. QED
    BY <2>1, TypeLoop, TypeFork, TypeWatchdog, TypeTick DEF Next
<1>2. TypeInv => TypeOK
  BY DEF TypeInv
<1>. QED
  BY <1>1, <1>2, TypeInit, PTL DEF Spec

-----------------------------------------------------------------------------
(* The arming age, also when slices overlap: slices are told apart by their  *)
(* ids, and only one that is still published after it reached the age gets a *)
(* sample.                                                                   *)

\* The slices thread t is inside of.
Entered(t) == {slices[t][i] : i \in DOMAIN slices[t]}

\* A slice id is a reading of the clock that no other slice has.
FreshIds ==
  /\ \A t \in Threads :
       /\ t0[t] < clock
       /\ finished[t].slice < clock
       /\ \A s \in Entered(t) : s < clock
  /\ \A t \in Threads : pc[t] = "publish" => \A u \in Threads :
       /\ finished[u].slice # t0[t]
       /\ t0[t] \notin Entered(u)
       /\ u # t /\ pc[u] = "publish" => t0[u] # t0[t]

\* What is published has not finished: the marker is withdrawn first, and an id
\* is published once.
PublishedRuns == currentSliceId # 0 => \A t \in Threads : finished[t].slice # currentSliceId

\* Slice s is of age, and was if it is over.
Armed(s) ==
  /\ clock - s >= ArmAfter
  /\ \A t \in Threads : finished[t].slice = s => finished[t].end - s >= ArmAfter

\* Between the age check and the recheck only the clock is known; from the
\* recheck on, and in the store, the slice itself is.
Ages ==
  /\ wdPc # "sleep" => wdSlice # 0
  /\ wdPc \in {"ident", "frames", "recheck"} => clock - wdSlice >= ArmAfter
  /\ wdPc \in {"lock", "claim", "store"} => Armed(wdSlice)
  /\ wdPc = "store" => samplesSliceId = wdSlice
  /\ samples # <<>> => Armed(samplesSliceId)

\* A thread that is collecting does so for its innermost slice.
Collecting ==
  \A t \in Threads : pc[t] \in {"peek", "lock", "collect"} => finished[t].slice = Top(t)

AgeInv ==
  /\ TypeInv
  /\ FreshIds
  /\ PublishedRuns
  /\ Ages
  /\ Collecting
  /\ ShortSlicesUnsampled

\* The slices that entering and leaving one leaves on the stack.
LEMMA StackEntries ==
  ASSUME NEW S \in Seq(SliceIds), NEW x
  PROVE  /\ \A i \in DOMAIN Append(S, x) :
              \/ i \in DOMAIN S /\ Append(S, x)[i] = S[i]
              \/ i = Len(S) + 1 /\ Append(S, x)[i] = x
         /\ \A i \in DOMAIN SubSeq(S, 1, Len(S) - 1) :
              i \in DOMAIN S /\ SubSeq(S, 1, Len(S) - 1)[i] = S[i]
         /\ S # <<>> => Len(S) \in DOMAIN S /\ S[Len(S)] \in SliceIds
OBVIOUS

LEMMA TopEntered ==
  ASSUME TypeOK, NEW t \in Threads
  PROVE  /\ Top(t) = 0 \/ Top(t) \in Entered(t)
         /\ Top(t) \in Nat
  <1>1. slices[t] \in Seq(SliceIds)
    BY DEF TypeOK
  <1>. QED
    BY <1>1, StackEntries DEF Top, Entered

LEMMA ReadingTypes ==
  ASSUME TypeOK
  PROVE  /\ clock \in Nat
         /\ \A t \in Threads : /\ t0[t] \in Nat
                               /\ finished[t].slice \in Nat /\ finished[t].end \in Nat
                               /\ Entered(t) \subseteq SliceIds
<1>1. \A t \in Threads : Entered(t) \subseteq SliceIds
  <2>. SUFFICES ASSUME NEW t \in Threads, NEW i \in DOMAIN slices[t]
                PROVE  slices[t][i] \in SliceIds
    BY DEF Entered
  <2>1. slices[t] \in Seq(SliceIds)
    BY DEF TypeOK
  <2>. QED
    BY <2>1
<1>2. clock \in Nat /\ \A t \in Threads : t0[t] \in Nat
  BY DEF TypeOK
<1>3. ASSUME NEW t \in Threads
      PROVE  finished[t].slice \in Nat /\ finished[t].end \in Nat
  <2>1. finished[t] \in [slice : Nat, end : Nat, innermost : BOOLEAN, stored : Nat]
    BY DEF TypeOK
  <2>. QED
    BY <2>1
<1>. QED
  BY <1>1, <1>2, <1>3

LEMMA AgeInit == Init => AgeInv
<1>. SUFFICES ASSUME Init PROVE AgeInv
  OBVIOUS
<1>1. TypeInv
  BY TypeInit
<1>2. \A t \in Threads : Entered(t) = {}
  <2>1. DOMAIN <<>> = {}
    OBVIOUS
  <2>. QED
    BY <2>1 DEF Init, Entered
<1>3. FreshIds
  BY <1>2 DEF Init, FreshIds, NoSlice
<1>4. PublishedRuns /\ Ages /\ Collecting /\ ShortSlicesUnsampled
  BY DEF Init, PublishedRuns, Ages, Collecting, ShortSlicesUnsampled
<1>. QED
  BY <1>1, <1>3, <1>4 DEF AgeInv

\* Of age once, of age for good: time passes, and only this slice's own end
\* could say otherwise.
LEMMA ArmedStays ==
  ASSUME TypeOK, TypeOK', clock' >= clock, NEW s \in Nat, Armed(s),
         \A t \in Threads : \/ finished'[t] = finished[t]
                            \/ finished'[t].slice # s
                            \/ finished'[t].end = clock
  PROVE  Armed(s)'
<1>1. clock \in Nat /\ clock' \in Nat /\ ArmAfter \in Nat
  BY ConstantsAssumption DEF TypeOK
<1>2. clock - s >= ArmAfter
  BY DEF Armed
<1>3. clock' - s >= ArmAfter
  BY <1>1, <1>2
<1>4. ASSUME NEW t \in Threads, finished'[t].slice = s
      PROVE  finished'[t].end - s >= ArmAfter
  BY <1>2, <1>4 DEF Armed
<1>. QED
  BY <1>3, <1>4 DEF Armed

LEMMA LaterToo ==
  ASSUME NEW now \in Nat, NEW later \in Nat, later >= now, NEW s \in Nat, now - s >= ArmAfter
  PROVE  later - s >= ArmAfter
BY ConstantsAssumption

LEMMA AgesStay ==
  ASSUME AgeInv, TypeOK', clock' >= clock, UNCHANGED wdVars,
         \/ UNCHANGED <<samples, samplesSliceId>>
         \/ samples' = <<>> /\ wdPc # "store",
         \A t \in Threads : finished'[t] = finished[t] \/ finished'[t].end = clock
  PROVE  Ages'
<1>. TypeOK /\ Ages
  BY DEF AgeInv, TypeInv
<1>1. \A s \in Nat : Armed(s) => Armed(s)'
  BY ArmedStays
<1>2. UNCHANGED <<wdPc, wdSlice>> /\ wdSlice \in Nat /\ samplesSliceId \in Nat
  BY DEF wdVars, TypeOK
<1>3. clock - wdSlice >= ArmAfter => clock' - wdSlice >= ArmAfter
  <2>1. clock \in Nat /\ clock' \in Nat /\ ArmAfter \in Nat
    BY ConstantsAssumption DEF TypeOK
  <2>. QED
    BY <1>2, <2>1, LaterToo
<1>4. wdPc \in {"lock", "claim", "store"} => Armed(wdSlice)'
  BY <1>1, <1>2 DEF Ages, Armed
<1>5. samples' # <<>> => Armed(samplesSliceId)'
  BY <1>1, <1>2 DEF Ages, Armed
<1>. QED
  BY <1>2, <1>3, <1>4, <1>5 DEF Ages, Armed

LEMMA AgeLoop ==
  ASSUME AgeInv, NEW t \in Threads, LoopThread(t)
  PROVE  AgeInv'
<1>. TypeInv /\ TypeInv'
  BY TypeLoop DEF AgeInv
<1>. TypeOK /\ TypeOK'
  BY DEF TypeInv
<1>. FreshIds /\ PublishedRuns /\ Ages /\ Collecting /\ ShortSlicesUnsampled
  BY DEF AgeInv
<1>. USE DEF Goto, loopVars
<1>1. CASE StartSlice(t)
  <2>1. /\ clock' = clock + 1 /\ t0' = [t0 EXCEPT ![t] = clock]
        /\ pc' = [pc EXCEPT ![t] = "publish"]
        /\ UNCHANGED <<currentSliceId, samples, samplesSliceId, slices, finished, collected, wdVars>>
    BY <1>1 DEF StartSlice
  <2>2. /\ t0'[t] = clock /\ pc'[t] = "publish"
        /\ \A u \in Threads : u # t => t0'[u] = t0[u] /\ pc'[u] = pc[u]
    BY <2>1 DEF TypeOK
  <2>3. \A u \in Threads : Entered(u)' = Entered(u) /\ Top(u)' = Top(u)
    BY <2>1 DEF Entered, Top
  <2>4. FreshIds'
    BY <2>1, <2>2, <2>3, ReadingTypes DEF FreshIds
  <2>5. Ages'
    BY <2>1, ReadingTypes, AgesStay
  <2>6. PublishedRuns' /\ Collecting' /\ ShortSlicesUnsampled'
    BY <2>1, <2>2, <2>3 DEF PublishedRuns, Collecting, ShortSlicesUnsampled
  <2>. QED
    BY <2>4, <2>5, <2>6 DEF AgeInv
<1>2. CASE Publish(t)
  <2>1. /\ pc[t] = "publish" /\ pc' = [pc EXCEPT ![t] = "running"]
        /\ currentSliceId' = t0[t] /\ slices' = [slices EXCEPT ![t] = Append(@, t0[t])]
        /\ UNCHANGED <<clock, samples, samplesSliceId, t0, finished, collected, wdVars>>
    BY <1>2 DEF Publish
  <2>2. t0[t] \in SliceIds /\ slices \in [Threads -> Seq(SliceIds)] /\ clock \in Nat
    BY <2>1 DEF TypeInv, TypeOK
  <2>3. /\ \A u \in Threads : u # t => Entered(u)' = Entered(u) /\ Top(u)' = Top(u)
        /\ \A s \in Entered(t)' : s \in Entered(t) \/ s = t0[t]
    BY <2>1, <2>2, StackEntries DEF Entered, Top
  <2>4. FreshIds'
    <3>1. \A u \in Threads : pc'[u] = "publish" => u # t /\ pc[u] = "publish"
      BY <2>1 DEF TypeOK
    <3>. QED
      BY <3>1, <2>1, <2>3 DEF FreshIds
  <2>5. Ages'
    BY <2>1, <2>2, AgesStay
  <2>6. PublishedRuns' /\ Collecting' /\ ShortSlicesUnsampled'
    BY <2>1, <2>3 DEF FreshIds, PublishedRuns, Collecting, ShortSlicesUnsampled, TypeOK
  <2>. QED
    BY <2>4, <2>5, <2>6 DEF AgeInv
<1>3. CASE FinishClear(t)
  <2>1. /\ pc' = [pc EXCEPT ![t] = "peek"] /\ currentSliceId' = 0
        /\ collected' = [collected EXCEPT ![t] = <<>>]
        /\ UNCHANGED <<clock, samples, samplesSliceId, slices, t0, wdVars>>
    BY <1>3 DEF FinishClear
  <2>2. /\ finished'[t].slice = Top(t) /\ finished'[t].end = clock
        /\ \A u \in Threads : u # t => finished'[u] = finished[u]
    BY <1>3 DEF FinishClear, TypeOK
  <2>3. \A u \in Threads : Entered(u)' = Entered(u) /\ Top(u)' = Top(u)
    BY <2>1 DEF Entered, Top
  <2>4. FreshIds'
    <3>1. Top(t) < clock
      <4>1. 0 < clock
        BY DEF TypeOK
      <4>. QED
        BY <4>1, TopEntered DEF FreshIds
    <3>a. \A u \in Threads : pc'[u] = "publish" => u # t /\ pc[u] = "publish"
      BY <2>1 DEF TypeOK
    <3>2. \A u \in Threads : pc[u] = "publish" => Top(t) # t0[u]
      BY TopEntered DEF FreshIds, TypeInv
    <3>. QED
      BY <3>1, <3>2, <3>a, <2>1, <2>2, <2>3 DEF FreshIds
  <2>5. Ages'
    BY <2>1, <2>2, AgesStay DEF TypeOK
  <2>6. PublishedRuns' /\ Collecting' /\ ShortSlicesUnsampled'
    <3>1. /\ collected'[t] = <<>> /\ \A u \in Threads : u # t => collected'[u] = collected[u]
          /\ \A u \in Threads : u # t => pc'[u] = pc[u]
      BY <2>1 DEF TypeOK
    <3>. QED
      BY <3>1, <2>1, <2>2, <2>3 DEF PublishedRuns, Collecting, ShortSlicesUnsampled
  <2>. QED
    BY <2>4, <2>5, <2>6 DEF AgeInv
<1>4. CASE FinishPeek(t) \/ FinishCollect(t)
  <2>1. /\ pc[t] \in {"peek", "collect"}
        /\ pc'[t] \in {"lock", "idle", "unwinding"} /\ \A u \in Threads : u # t => pc'[u] = pc[u]
        /\ pc'[t] = "lock" => slices' = slices
        /\ UNCHANGED <<clock, currentSliceId, t0, finished, wdVars>>
    BY <1>4 DEF FinishPeek, FinishCollect, NothingStored, Return, TypeOK
  <2>2. slices' = slices \/ slices' = [slices EXCEPT ![t] = Pop(t)]
    BY <1>4 DEF FinishPeek, FinishCollect, NothingStored, Return
  <2>3. /\ \A u \in Threads : Entered(u)' \subseteq Entered(u)
        /\ \A u \in Threads : u # t => Top(u)' = Top(u)
        /\ pc'[t] = "lock" => Top(t)' = Top(t)
    <3>1. slices \in [Threads -> Seq(SliceIds)]
      BY DEF TypeOK
    <3>2. CASE slices' = slices
      BY <3>2 DEF Entered, Top
    <3>3. CASE slices' = [slices EXCEPT ![t] = Pop(t)] /\ pc'[t] # "lock"
      <4>1. Entered(t)' \subseteq Entered(t)
        BY <3>1, <3>3, StackEntries DEF Entered, Pop
      <4>2. \A u \in Threads : u # t => slices'[u] = slices[u]
        BY <3>1, <3>3
      <4>. QED
        BY <3>3, <4>1, <4>2 DEF Entered, Top
    <3>. QED
      BY <2>1, <2>2, <3>2, <3>3
  <2>4. FreshIds' /\ PublishedRuns' /\ Collecting'
    BY <2>1, <2>3 DEF FreshIds, PublishedRuns, Collecting
  <2>5. /\ \/ UNCHANGED <<samples, samplesSliceId>>
           \/ samples' = <<>> /\ pc[t] = "collect"
        /\ \A u \in Threads : \/ collected'[u] = collected[u]
                              \/ u = t /\ collected'[u] = samples /\ samplesSliceId = Top(t)
    BY <1>4 DEF FinishPeek, FinishCollect, NothingStored, TypeOK
  <2>6. pc[t] = "collect" => wdPc # "store"
    BY ThreadsAssumption DEF TypeInv, TypeOK
  <2>7. Ages'
    BY <2>1, <2>5, <2>6, ReadingTypes, AgesStay
  <2>8. ShortSlicesUnsampled'
    BY <2>1, <2>5 DEF Ages, Armed, Collecting, ShortSlicesUnsampled
  <2>. QED
    BY <2>4, <2>7, <2>8 DEF AgeInv
<1>5. CASE FinishAcquire(t) \/ LoopEnds(t)
  <2>1. /\ pc[t] = "lock" \/ pc'[t] = "gone"
        /\ pc'[t] # "publish" /\ \A u \in Threads : u # t => pc'[u] = pc[u]
        /\ UNCHANGED <<clock, currentSliceId, samples, samplesSliceId, slices, t0, finished,
                       collected, wdVars>>
    BY <1>5 DEF FinishAcquire, LoopEnds, TypeOK
  <2>2. \A u \in Threads : Entered(u)' = Entered(u) /\ Top(u)' = Top(u)
    BY <2>1 DEF Entered, Top
  <2>3. FreshIds' /\ PublishedRuns' /\ Collecting' /\ ShortSlicesUnsampled'
    BY <2>1, <2>2 DEF FreshIds, PublishedRuns, Collecting, ShortSlicesUnsampled
  <2>4. Ages'
    BY <2>1, AgesStay DEF TypeOK
  <2>. QED
    BY <2>3, <2>4 DEF AgeInv
<1>. QED
  BY <1>1, <1>2, <1>3, <1>4, <1>5 DEF LoopThread, Epilogue

\* Only the recheck may promote "the clock is far enough" to "the slice is of
\* age": the slice is published and so has not finished.
LEMMA AgeWatchdog ==
  ASSUME AgeInv, WatchdogStep
  PROVE  AgeInv'
<1>. TypeInv /\ TypeInv'
  BY TypeWatchdog DEF AgeInv
<1>. TypeOK /\ Ages
  BY DEF AgeInv, TypeInv
<1>1. UNCHANGED <<clock, currentSliceId, pc, t0, slices, finished, collected>>
  BY DEF WatchdogStep, WdWake, WdAge, WdIdent, WdCapture, WdRecheck, WdAcquire, WdClaim, WdStore,
     marker, loopVars
<1>2. FreshIds' /\ PublishedRuns' /\ Collecting' /\ ShortSlicesUnsampled'
  BY <1>1 DEF AgeInv, FreshIds, PublishedRuns, Collecting, ShortSlicesUnsampled, Entered, Top
<1>3. \A s : Armed(s)' <=> Armed(s)
  BY <1>1 DEF Armed
<1>4. Ages'
  <2>1. CASE WdWake
    BY <2>1, <1>3 DEF WdWake, Ages
  <2>2. CASE WdAge
    <3>1. ~(clock - wdSlice < ArmAfter) => clock - wdSlice >= ArmAfter
      BY ConstantsAssumption DEF TypeOK
    <3>. QED
      BY <2>2, <3>1, <1>1, <1>3 DEF WdAge, Ages
  <2>3. CASE WdIdent \/ WdCapture
    BY <2>3, <1>1, <1>3 DEF WdIdent, WdCapture, Ages
  <2>4. CASE WdRecheck
    <3>1. currentSliceId = wdSlice => Armed(wdSlice)
      BY <2>4 DEF WdRecheck, AgeInv, Ages, Armed, PublishedRuns
    <3>. QED
      BY <2>4, <3>1, <1>1, <1>3 DEF WdRecheck, Ages
  <2>5. CASE WdAcquire
    BY <2>5, <1>3 DEF WdAcquire, Ages
  <2>6. CASE WdClaim
    BY <2>6, <1>3 DEF WdClaim, Claimed, Ages
  <2>7. CASE WdStore
    BY <2>7, <1>3 DEF WdStore, Ages
  <2>. QED
    BY <2>1, <2>2, <2>3, <2>4, <2>5, <2>6, <2>7 DEF WatchdogStep
<1>. QED
  BY <1>2, <1>4 DEF AgeInv

LEMMA AgeFork ==
  ASSUME AgeInv, NEW t \in Threads, Fork(t)
  PROVE  AgeInv'
<1>. TypeInv /\ TypeInv'
  BY TypeFork DEF AgeInv
<1>. TypeOK
  BY DEF TypeInv
<1>1. /\ currentSliceId' = 0 /\ wdPc' = "sleep" /\ samples' = <<>>
      /\ UNCHANGED <<clock, t0>>
  BY DEF Fork, Reinit
<1>2. \A u \in Threads : pc'[u] \in {"gone", "idle", "running", "unwinding"}
  BY DEF Fork
<1>3. /\ slices'[t] = slices[t] /\ finished'[t] = finished[t] /\ collected'[t] = collected[t]
      /\ \A u \in Threads : u # t => slices'[u] = <<>> /\ finished'[u] = NoSlice
                                     /\ collected'[u] = <<>>
  BY DEF Fork
<1>4. \A u \in Threads : u # t => Entered(u)' = {}
  <2>1. DOMAIN <<>> = {}
    OBVIOUS
  <2>. QED
    BY <1>3, <2>1 DEF Entered
<1>5. FreshIds'
  <2>1. 0 < clock
    BY DEF TypeOK
  <2>. QED
    BY <2>1, <1>1, <1>2, <1>3, <1>4 DEF AgeInv, FreshIds, Entered, NoSlice
<1>6. PublishedRuns' /\ Ages' /\ Collecting'
  BY <1>1, <1>2 DEF PublishedRuns, Ages, Collecting
<1>7. ShortSlicesUnsampled'
  BY <1>3 DEF AgeInv, ShortSlicesUnsampled
<1>. QED
  BY <1>5, <1>6, <1>7 DEF AgeInv

LEMMA AgeTick ==
  ASSUME AgeInv, Tick
  PROVE  AgeInv'
<1>. TypeInv /\ TypeInv'
  BY TypeTick DEF AgeInv
<1>. TypeOK /\ TypeOK'
  BY DEF TypeInv
<1>1. /\ clock' = clock + 1
      /\ UNCHANGED <<currentSliceId, samples, samplesSliceId, pc, t0, slices, finished, collected,
                     wdVars>>
  BY DEF Tick, loopVars
<1>2. \A t \in Threads : Entered(t)' = Entered(t) /\ Top(t)' = Top(t)
  BY <1>1 DEF Entered, Top
<1>3. FreshIds'
  BY <1>1, <1>2, ReadingTypes DEF AgeInv, FreshIds
<1>4. Ages'
  BY <1>1, ReadingTypes, AgesStay
<1>5. PublishedRuns' /\ Collecting' /\ ShortSlicesUnsampled'
  BY <1>1, <1>2 DEF AgeInv, PublishedRuns, Collecting, ShortSlicesUnsampled
<1>. QED
  BY <1>3, <1>4, <1>5 DEF AgeInv

LEMMA AgeInvariant == Spec => []AgeInv
<1>1. AgeInv /\ [Next]_vars => AgeInv'
  <2>. SUFFICES ASSUME AgeInv, [Next]_vars PROVE AgeInv'
    OBVIOUS
  <2>1. CASE UNCHANGED vars
    <3>1. TypeInv'
      BY <2>1 DEF AgeInv, TypeInv, TypeOK, vars, loopVars, wdVars
    <3>2. UNCHANGED <<clock, currentSliceId, samplesSliceId, samples, pc, t0, slices, finished,
                      collected, wdPc, wdSlice>>
      BY <2>1 DEF vars, loopVars, wdVars
    <3>3. Ages'
      BY <3>2 DEF AgeInv, Ages, Armed
    <3>. QED
      BY <3>1, <3>2, <3>3 DEF AgeInv, FreshIds, PublishedRuns, Collecting, ShortSlicesUnsampled,
         Entered, Top
  <2>. QED
    BY <2>1, AgeLoop, AgeFork, AgeWatchdog, AgeTick DEF Next
<1>. QED
  BY <1>1, AgeInit, PTL DEF Spec

\* No slice that ended before the arming age has a sample (cpu_sampler.py:90):
\* for any number of threads, whose slices may overlap, and however long the
\* watchdog is held up between its look at the clock and its store.
THEOREM ShortSlicesNeverSampled == Spec => []ShortSlicesUnsampled
<1>1. AgeInv => ShortSlicesUnsampled
  BY DEF AgeInv
<1>. QED
  BY <1>1, AgeInvariant, PTL

-----------------------------------------------------------------------------
(* Slices of different threads one at a time: a sample belongs to its slice. *)

\* Ids are clock readings of the past.
Past ==
  /\ currentSliceId < clock
  /\ wdSlice < clock
  /\ \A t \in Threads : t0[t] < clock

\* One thread at a time is inside a wrapper.
Alone == \A t, u \in Threads : t # u => Quiet(t) \/ Quiet(u)

\* The marker and the thread id agree: the slice that is published is the
\* innermost one of the published thread; and a thread about to publish has
\* already stored its id, for a slice the watchdog cannot have seen.
Published ==
  /\ currentSliceId # 0 =>
       /\ currentSliceThreadId \in Threads
       /\ pc[currentSliceThreadId] \in {"publish", "running"}
       /\ Top(currentSliceThreadId) = currentSliceId
  /\ \A t \in Threads : pc[t] = "publish" =>
       /\ currentSliceThreadId = t
       /\ currentSliceId < t0[t]
       /\ wdSlice < t0[t]

\* While the watchdog's slice is still the published one, what it read since
\* belongs to that slice; past the recheck it does for good.
WatchdogReads ==
  /\ wdPc # "sleep" => wdSlice # 0
  /\ wdPc = "frames" /\ currentSliceId = wdSlice => Top(wdThread) = wdSlice
  /\ wdPc = "recheck" /\ currentSliceId = wdSlice => wdFrames = wdSlice
  /\ wdPc \in {"lock", "claim", "store"} => wdFrames = wdSlice
  /\ wdPc = "store" => samplesSliceId = wdSlice

\* The store holds stacks of its owner only.
StoreOwned == \A i \in DOMAIN samples : samples[i] = samplesSliceId

SerialInv ==
  /\ TypeInv
  /\ Past
  /\ Alone
  /\ Published
  /\ WatchdogReads
  /\ StoreOwned
  /\ Collecting
  /\ OwnSamples

LEMMA SerialInit == Init => SerialInv
<1>. SUFFICES ASSUME Init PROVE SerialInv
  OBVIOUS
<1>1. TypeInv
  BY TypeInit
<1>2. Past /\ Alone /\ Published /\ WatchdogReads /\ Collecting
  BY DEF Init, Past, Alone, Published, WatchdogReads, Collecting, Quiet
<1>3. StoreOwned /\ OwnSamples
  BY DEF Init, StoreOwned, OwnSamples
<1>. QED
  BY <1>1, <1>2, <1>3 DEF SerialInv

\* When any other thread is inside a wrapper, thread t is not; so while t is
\* inside one, a published slice is t's.
LEMMA MineAlone ==
  ASSUME SerialInv, NEW t \in Threads, ~Quiet(t)
  PROVE  /\ \A u \in Threads : u # t => Quiet(u)
         /\ currentSliceId # 0 => currentSliceThreadId = t
         /\ pc[t] \notin {"publish", "running"} => currentSliceId = 0
BY DEF SerialInv, Alone, Published, Quiet

LEMMA SerialLoop ==
  ASSUME ~Overlap, SerialInv, NEW t \in Threads, LoopThread(t)
  PROVE  SerialInv'
<1>. TypeInv /\ TypeInv'
  BY TypeLoop DEF SerialInv
<1>. TypeOK /\ TypeOK'
  BY DEF TypeInv
<1>. USE DEF Goto, loopVars, wdVars
<1>1. CASE StartSlice(t)
  <2>1. /\ \A u \in Threads : u # t => Quiet(u)
        /\ currentSliceId # 0 => currentSliceThreadId = t
    BY <1>1 DEF StartSlice, SerialInv, Published, Quiet
  <2>2. Past'
    <3>1. /\ t0' = [t0 EXCEPT ![t] = clock] /\ clock' = clock + 1
          /\ UNCHANGED <<currentSliceId, wdSlice>>
      BY <1>1 DEF StartSlice
    <3>2. /\ clock \in Nat /\ currentSliceId \in Nat /\ wdSlice \in Nat
          /\ t0 \in [Threads -> Nat]
      BY DEF TypeOK
    <3>. QED
      BY <3>1, <3>2 DEF SerialInv, Past
  <2>3. Alone'
    BY <1>1, <2>1 DEF StartSlice, Alone, Quiet, TypeOK
  <2>4. Published'
    BY <1>1, <2>1 DEF StartSlice, SerialInv, Past, Published, Top, TypeOK, Quiet
  <2>5. WatchdogReads' /\ StoreOwned' /\ OwnSamples'
    BY <1>1 DEF StartSlice, SerialInv, WatchdogReads, StoreOwned, OwnSamples, Top
  <2>6. Collecting'
    BY <1>1 DEF StartSlice, SerialInv, Collecting, Top, TypeOK
  <2>. QED
    BY <2>2, <2>3, <2>4, <2>5, <2>6 DEF SerialInv
<1>2. CASE Publish(t)
  <2>. /\ pc[t] = "publish" /\ ~Quiet(t) /\ currentSliceThreadId = t
       /\ wdSlice < t0[t]
    BY <1>2 DEF Publish, SerialInv, Published, Quiet
  <2>1. \A u \in Threads : u # t => Quiet(u)
    BY MineAlone
  <2>2. t0[t] \in SliceIds /\ slices[t] \in Seq(SliceIds)
    BY DEF TypeInv, TypeOK
  <2>3. /\ slices'[t] = Append(slices[t], t0[t])
        /\ \A u \in Threads : u # t => slices'[u] = slices[u]
    BY <1>2 DEF Publish, TypeOK
  <2>4. Top(t)' = t0[t] /\ \A u \in Threads : u # t => Top(u)' = Top(u)
    <3>1. Append(slices[t], t0[t]) # <<>> /\ Len(Append(slices[t], t0[t])) = Len(slices[t]) + 1
      BY <2>2
    <3>2. Append(slices[t], t0[t])[Len(slices[t]) + 1] = t0[t]
      BY <2>2
    <3>. QED
      BY <3>1, <3>2, <2>3 DEF Top
  <2>5. Past'
    BY <1>2 DEF Publish, SerialInv, Past
  <2>6. Alone'
    BY <1>2, <2>1 DEF Publish, Alone, Quiet, TypeOK
  <2>7. Published'
    BY <1>2, <2>1, <2>4 DEF Publish, Published, Quiet, TypeOK
  <2>8. WatchdogReads'
    BY <1>2, <2>2 DEF Publish, SerialInv, WatchdogReads, TypeOK
  <2>9. StoreOwned' /\ OwnSamples'
    BY <1>2 DEF Publish, SerialInv, StoreOwned, OwnSamples
  <2>10. Collecting'
    BY <1>2, <2>4 DEF Publish, SerialInv, Collecting, TypeOK
  <2>. QED
    BY <2>5, <2>6, <2>7, <2>8, <2>9, <2>10 DEF SerialInv
<1>3. CASE FinishClear(t)
  <2>. pc[t] \in {"running", "unwinding"} /\ ~Quiet(t)
    BY <1>3 DEF FinishClear, Quiet
  <2>1. \A u \in Threads : u # t => Quiet(u)
    BY MineAlone
  <2>2. \A u \in Threads : Top(u)' = Top(u)
    BY <1>3 DEF FinishClear, Top
  <2>3. Past' /\ StoreOwned'
    BY <1>3 DEF FinishClear, SerialInv, Past, StoreOwned, TypeOK
  <2>4. Alone'
    BY <1>3, <2>1 DEF FinishClear, Alone, Quiet, TypeOK
  <2>5. Published'
    BY <1>3, <2>1 DEF FinishClear, Published, Quiet, TypeOK
  <2>6. WatchdogReads'
    BY <1>3 DEF FinishClear, SerialInv, WatchdogReads
  <2>7. Collecting'
    BY <1>3, <2>2 DEF FinishClear, SerialInv, Collecting, TypeOK
  <2>8. OwnSamples'
    <3>1. collected'[t] = <<>>
      BY <1>3 DEF FinishClear, TypeOK
    <3>2. \A u \in Threads : u # t => /\ collected'[u] = collected[u]
                                     /\ finished'[u] = finished[u]
      BY <1>3 DEF FinishClear, TypeOK
    <3>. QED
      BY <3>1, <3>2 DEF SerialInv, OwnSamples
  <2>. QED
    BY <2>3, <2>4, <2>5, <2>6, <2>7, <2>8 DEF SerialInv
<1>4. CASE FinishPeek(t)
  <2>. pc[t] = "peek" /\ ~Quiet(t)
    BY <1>4 DEF FinishPeek, NothingStored, Quiet
  <2>1. (\A u \in Threads : u # t => Quiet(u)) /\ currentSliceId = 0
    BY MineAlone
  <2>2. pc'[t] \in {"idle", "unwinding", "lock"} /\ (\A u \in Threads : u # t => pc'[u] = pc[u])
    BY <1>4 DEF FinishPeek, NothingStored, Return, TypeOK
  <2>3. /\ \A u \in Threads : u # t => Top(u)' = Top(u)
        /\ pc'[t] = "lock" => Top(t)' = Top(t)
    BY <1>4 DEF FinishPeek, NothingStored, Return, TypeOK, Top
  <2>4. UNCHANGED <<clock, currentSliceId, currentSliceThreadId, samplesLock, samplesSliceId,
                    samples, t0, finished, collected, wdVars>>
    BY <1>4 DEF FinishPeek, NothingStored
  <2>. QED
    BY <2>1, <2>2, <2>3, <2>4 DEF SerialInv, Past, Alone, Published, WatchdogReads,
       StoreOwned, Collecting, OwnSamples, Quiet
<1>5. CASE FinishAcquire(t)
  <2>1. \A u \in Threads : Top(u)' = Top(u)
    BY <1>5 DEF FinishAcquire, Top
  <2>2. pc[t] = "lock" /\ pc'[t] = "collect" /\ (\A u \in Threads : u # t => pc'[u] = pc[u])
    BY <1>5 DEF FinishAcquire, TypeOK
  <2>3. UNCHANGED <<clock, currentSliceId, currentSliceThreadId, samplesSliceId, samples, t0,
                    slices, finished, collected, wdVars>>
    BY <1>5 DEF FinishAcquire
  <2>. QED
    BY <2>1, <2>2, <2>3 DEF SerialInv, Past, Alone, Published, WatchdogReads, StoreOwned,
       Collecting, OwnSamples, Quiet
<1>6. CASE FinishCollect(t)
  <2>. pc[t] = "collect" /\ ~Quiet(t)
    BY <1>6 DEF FinishCollect, Quiet
  <2>1. (\A u \in Threads : u # t => Quiet(u)) /\ currentSliceId = 0
    BY MineAlone
  <2>2. pc'[t] \in {"idle", "unwinding"} /\ (\A u \in Threads : u # t => pc'[u] = pc[u])
    BY <1>6 DEF FinishCollect, Return, TypeOK
  <2>3. \A u \in Threads : u # t => Top(u)' = Top(u)
    BY <1>6 DEF FinishCollect, Return, TypeOK, Top
  <2>4. UNCHANGED <<clock, currentSliceId, currentSliceThreadId, t0, finished, wdVars>>
    BY <1>6 DEF FinishCollect
  <2>5. Past' /\ Alone' /\ Published' /\ Collecting'
    BY <2>1, <2>2, <2>3, <2>4 DEF SerialInv, Past, Alone, Published, Collecting, Quiet
  <2>6. wdPc # "store"
    BY ThreadsAssumption DEF TypeInv, TypeOK
  <2>7. WatchdogReads'
    BY <2>1, <2>4, <2>6 DEF SerialInv, WatchdogReads
  <2>8. CASE samplesSliceId = Top(t)
    <3>1. samples' = <<>> /\ collected' = [collected EXCEPT ![t] = samples]
      BY <1>6, <2>8 DEF FinishCollect
    <3>2. \A i \in DOMAIN samples : samples[i] = finished[t].slice
      BY <2>8 DEF SerialInv, StoreOwned, Collecting
    <3>3. OwnSamples'
      BY <3>1, <3>2, <2>4 DEF SerialInv, OwnSamples, TypeOK
    <3>4. StoreOwned'
      BY <3>1 DEF StoreOwned
    <3>. QED
      BY <2>5, <2>7, <3>3, <3>4 DEF SerialInv
  <2>9. CASE samplesSliceId # Top(t)
    <3>1. UNCHANGED <<collected, samples, samplesSliceId>>
      BY <1>6, <2>9 DEF FinishCollect
    <3>. QED
      BY <2>4, <2>5, <2>7, <3>1 DEF SerialInv, StoreOwned, OwnSamples
  <2>. QED
    BY <2>8, <2>9
<1>7. CASE LoopEnds(t)
  <2>1. \A u \in Threads : Top(u)' = Top(u)
    BY <1>7 DEF LoopEnds, Top
  <2>2. pc[t] = "idle" /\ pc'[t] = "gone" /\ (\A u \in Threads : u # t => pc'[u] = pc[u])
    BY <1>7 DEF LoopEnds, TypeOK
  <2>3. UNCHANGED <<clock, currentSliceId, currentSliceThreadId, samplesSliceId, samples, t0,
                    finished, collected, wdVars>>
    BY <1>7 DEF LoopEnds
  <2>4. Alone'
    BY <2>2 DEF SerialInv, Alone, Quiet
  <2>5. Published'
    BY <2>1, <2>2, <2>3 DEF SerialInv, Published
  <2>6. WatchdogReads' /\ Past'
    BY <2>1, <2>3 DEF SerialInv, WatchdogReads, Past, TypeOK
  <2>7. StoreOwned' /\ Collecting' /\ OwnSamples'
    BY <2>1, <2>2, <2>3 DEF SerialInv, StoreOwned, Collecting, OwnSamples
  <2>. QED
    BY <2>4, <2>5, <2>6, <2>7 DEF SerialInv
<1>. QED
  BY <1>1, <1>2, <1>3, <1>4, <1>5, <1>6, <1>7 DEF LoopThread, Epilogue

LEMMA AppendEntries ==
  ASSUME NEW S \in Seq(Nat), NEW x \in Nat
  PROVE  \A i \in DOMAIN Append(S, x) :
           \/ i \in DOMAIN S /\ Append(S, x)[i] = S[i]
           \/ Append(S, x)[i] = x
OBVIOUS

LEMMA SerialWatchdog ==
  ASSUME SerialInv, WatchdogStep
  PROVE  SerialInv'
<1>. TypeInv /\ TypeInv'
  BY TypeWatchdog DEF SerialInv
<1>. TypeOK
  BY DEF TypeInv
<1>1. \A u \in Threads : Top(u)' = Top(u)
  BY DEF WatchdogStep, WdWake, WdAge, WdIdent, WdCapture, WdRecheck, WdAcquire, WdClaim,
     WdStore, loopVars, Top
<1>2. UNCHANGED <<clock, currentSliceId, currentSliceThreadId, loopVars>>
  BY DEF WatchdogStep, WdWake, WdAge, WdIdent, WdCapture, WdRecheck, WdAcquire, WdClaim, WdStore
<1>3. wdSlice' \in {wdSlice, currentSliceId}
  BY DEF WatchdogStep, WdWake, WdAge, WdIdent, WdCapture, WdRecheck, WdAcquire, WdClaim, WdStore
<1>4. Past' /\ Alone' /\ Published' /\ Collecting' /\ OwnSamples'
  BY <1>1, <1>2, <1>3 DEF SerialInv, Past, Alone, Published, Collecting, OwnSamples, Quiet,
     loopVars
<1>5. WatchdogReads' /\ StoreOwned'
  <2>1. CASE WdWake \/ WdAge
    BY <2>1 DEF WdWake, WdAge, SerialInv, WatchdogReads, StoreOwned
  <2>2. CASE WdIdent
    BY <2>2, <1>1 DEF WdIdent, SerialInv, Published, WatchdogReads, StoreOwned
  <2>3. CASE WdCapture
    BY <2>3 DEF WdCapture, SerialInv, WatchdogReads, StoreOwned
  <2>4. CASE WdRecheck \/ WdAcquire
    BY <2>4 DEF WdRecheck, WdAcquire, SerialInv, WatchdogReads, StoreOwned
  <2>5. CASE WdClaim
    BY <2>5 DEF WdClaim, Claimed, SerialInv, WatchdogReads, StoreOwned
  <2>6. CASE WdStore
    <3>1. WatchdogReads' /\ wdFrames = samplesSliceId /\ samplesSliceId' = samplesSliceId
      BY <2>6 DEF WdStore, Stored, SerialInv, WatchdogReads
    <3>2. samples' \in {samples, Append(samples, wdFrames)}
      BY <2>6 DEF WdStore, Stored
    <3>3. \A i \in DOMAIN Append(samples, wdFrames) :
            \/ i \in DOMAIN samples /\ Append(samples, wdFrames)[i] = samples[i]
            \/ Append(samples, wdFrames)[i] = wdFrames
      BY AppendEntries DEF TypeOK
    <3>4. StoreOwned'
      BY <3>1, <3>2, <3>3 DEF SerialInv, StoreOwned
    <3>. QED
      BY <3>1, <3>4
  <2>. QED
    BY <2>1, <2>2, <2>3, <2>4, <2>5, <2>6 DEF WatchdogStep
<1>. QED
  BY <1>4, <1>5 DEF SerialInv

\* The child starts with nothing published and nothing stored; a callback that
\* forked runs on unpublished.
LEMMA SerialFork ==
  ASSUME SerialInv, NEW t \in Threads, Fork(t)
  PROVE  SerialInv'
<1>. TypeInv /\ TypeInv'
  BY TypeFork DEF SerialInv
<1>1. /\ currentSliceId' = 0 /\ wdPc' = "sleep" /\ wdSlice' = 0 /\ samples' = <<>>
      /\ UNCHANGED <<clock, t0>>
  BY DEF Fork, Reinit
<1>2. \A u \in Threads : pc'[u] \in {"gone", "idle", "running", "unwinding"}
                          /\ (u # t => pc'[u] = "gone")
  BY DEF Fork
<1>3. /\ collected'[t] = collected[t] /\ finished'[t] = finished[t]
      /\ \A u \in Threads : u # t => collected'[u] = <<>>
  BY DEF Fork
<1>4. clock \in SliceIds
  BY DEF TypeInv, TypeOK
<1>5. Past'
  BY <1>1, <1>4 DEF SerialInv, Past
<1>6. Alone' /\ Published' /\ Collecting'
  BY <1>1, <1>2 DEF Alone, Published, Collecting, Quiet
<1>7. WatchdogReads' /\ StoreOwned'
  BY <1>1 DEF WatchdogReads, StoreOwned
<1>8. OwnSamples'
  BY <1>3 DEF SerialInv, OwnSamples
<1>. QED
  BY <1>5, <1>6, <1>7, <1>8 DEF SerialInv

LEMMA SerialInvariant == ASSUME ~Overlap PROVE Spec => []SerialInv
<1>1. SerialInv /\ [Next]_vars => SerialInv'
  <2>. SUFFICES ASSUME SerialInv, [Next]_vars PROVE SerialInv'
    OBVIOUS
  <2>1. CASE Tick
    <3>1. TypeInv'
      BY <2>1, TypeTick DEF SerialInv
    <3>2. \A u \in Threads : Top(u)' = Top(u)
      BY <2>1 DEF Tick, loopVars, Top
    <3>3. Past'
      <4>1. /\ clock' = clock + 1
            /\ UNCHANGED <<currentSliceId, wdSlice, t0>>
        BY <2>1 DEF Tick, loopVars, wdVars
      <4>2. /\ clock \in Nat /\ currentSliceId \in Nat /\ wdSlice \in Nat
            /\ t0 \in [Threads -> Nat]
        BY DEF SerialInv, TypeInv, TypeOK
      <4>. QED
        BY <4>1, <4>2 DEF SerialInv, Past
    <3>5. UNCHANGED <<currentSliceId, currentSliceThreadId, samples, samplesSliceId, pc, t0,
                      collected, finished, wdPc, wdSlice, wdThread, wdFrames>>
      BY <2>1 DEF Tick, loopVars, wdVars
    <3>4. Alone' /\ Published' /\ Collecting'
      BY <3>2, <3>5 DEF SerialInv, Alone, Published, Collecting, Quiet
    <3>7. WatchdogReads'
      BY <2>1, <3>5 DEF Tick, loopVars, SerialInv, WatchdogReads, Top
    <3>6. StoreOwned' /\ OwnSamples'
      BY <3>5 DEF SerialInv, StoreOwned, OwnSamples
    <3>. QED
      BY <3>1, <3>3, <3>4, <3>6, <3>7 DEF SerialInv
  <2>2. CASE UNCHANGED vars
    BY <2>2 DEF SerialInv, TypeInv, TypeOK, Past, Alone, Published, WatchdogReads, StoreOwned,
       Collecting, OwnSamples, Quiet, Top, vars, loopVars, wdVars
  <2>. QED
    BY <2>1, <2>2, SerialLoop, SerialFork, SerialWatchdog DEF Next
<1>. QED
  BY <1>1, SerialInit, PTL DEF Spec

\* Where slices run one at a time (one event loop at any moment, on whatever
\* thread), no slice is ever handed a stack captured outside of it, for any
\* number of threads, nested wrappers, samples and any arming age.
THEOREM SamplesAreOwn == ASSUME ~Overlap PROVE Spec => []OwnSamples
<1>1. SerialInv => OwnSamples
  BY DEF SerialInv
<1>. QED
  BY <1>1, SerialInvariant, PTL

-----------------------------------------------------------------------------
(* Slices one at a time: what is stored for a slice is handed over.          *)

Ending(t) == pc[t] \in {"peek", "lock", "collect"}

\* A thread that runs no wrapper is inside no slice, any other one is.
StackShape ==
  \A t \in Threads :
    /\ Quiet(t) => slices[t] = <<>>
    /\ ~Quiet(t) /\ pc[t] # "publish" => slices[t] # <<>>

\* The slice on top of t's stack is the last one that t began.
OnLatest(t) ==
  \/ pc[t] = "running"
  \/ pc[t] = "publish" /\ slices[t] # <<>>
  \/ Ending(t) /\ finished[t].innermost

\* The watchdog never goes back to an older slice than the store's, nor has it
\* seen a younger one than the last that began.
Latest ==
  /\ samplesSliceId < clock
  /\ currentSliceId # 0 => samplesSliceId <= currentSliceId /\ wdSlice <= currentSliceId
  /\ wdPc # "sleep" => samplesSliceId <= wdSlice
  /\ \A t \in Threads : pc[t] = "publish" => samplesSliceId < t0[t]
  /\ \A t \in Threads : OnLatest(t) => wdSlice <= Top(t)

\* So no claim empties the store under a slice that is about to collect.
Kept ==
  \A t \in Threads :
    Ending(t) /\ finished[t].innermost => StoredFor(finished[t].slice) >= finished[t].stored

LossInv == StackShape /\ Latest /\ Kept /\ NoSampleLost

LEMMA LossInit == Init => LossInv
<1>. SUFFICES ASSUME Init PROVE LossInv
  OBVIOUS
<1>1. \A t \in Threads : finished[t].stored = 0 /\ collected[t] = <<>>
  BY DEF Init, NoSlice
<1>2. Len(<<>>) >= 0
  OBVIOUS
<1>3. NoSampleLost
  BY <1>1, <1>2 DEF NoSampleLost
<1>4. StackShape /\ Latest /\ Kept
  BY DEF Init, StackShape, Latest, Kept, Quiet, OnLatest, Ending
<1>. QED
  BY <1>3, <1>4 DEF LossInv

LEMMA StoredTypes ==
  ASSUME TypeOK
  PROVE  /\ \A s : StoredFor(s) \in Nat
         /\ \A t \in Threads : finished[t].stored \in Nat /\ finished[t].innermost \in BOOLEAN
         /\ \A t \in Threads : Len(collected[t]) \in Nat
<1>1. \A s : StoredFor(s) \in Nat
  BY DEF TypeOK, StoredFor
<1>2. ASSUME NEW t \in Threads
      PROVE  finished[t].stored \in Nat /\ finished[t].innermost \in BOOLEAN
  <2>1. finished[t] \in [slice : Nat, end : Nat, innermost : BOOLEAN, stored : Nat]
    BY DEF TypeOK
  <2>. QED
    BY <2>1
<1>3. \A t \in Threads : collected[t] \in Seq(Nat)
  BY DEF TypeOK
<1>. QED
  BY <1>1, <1>2, <1>3

\* What a wrapper leaves behind when it returns.
LEMMA PopShape ==
  ASSUME TypeOK, NEW t \in Threads
  PROVE  /\ Len(slices[t]) > 1 => Pop(t) # <<>>
         /\ ~(Len(slices[t]) > 1) => Pop(t) = <<>>
<1>1. slices[t] \in Seq(SliceIds) /\ Len(slices[t]) \in Nat
  BY DEF TypeOK
<1>2. Pop(t) \in Seq(SliceIds) /\ (Len(slices[t]) > 1 => Len(Pop(t)) = Len(slices[t]) - 1)
  BY <1>1 DEF Pop
<1>3. ~(Len(slices[t]) > 1) => Len(Pop(t)) = 0
  BY <1>1 DEF Pop
<1>4. Len(slices[t]) > 1 => Len(Pop(t)) # 0
  BY <1>1, <1>2
<1>5. Len(<<>>) = 0 /\ (Len(Pop(t)) = 0 => Pop(t) = <<>>)
  BY <1>2
<1>. QED
  BY <1>3, <1>4, <1>5

LEMMA LossLoop ==
  ASSUME ~Overlap, SerialInv, SerialInv', LossInv, NEW t \in Threads, LoopThread(t)
  PROVE  LossInv'
<1>. /\ TypeOK /\ TypeOK' /\ Past /\ Published /\ Collecting
     /\ StackShape /\ Latest /\ Kept /\ NoSampleLost
  BY DEF SerialInv, TypeInv, LossInv
<1>a. ASSUME ~Quiet(t) PROVE \A u \in Threads : u # t => Quiet(u) /\ ~Ending(u)
  BY <1>a, MineAlone DEF Ending, Quiet
<1>. USE DEF Goto, loopVars, wdVars
<1>1. CASE StartSlice(t)
  <2>1. /\ pc[t] = "running" \/ Quiet(t)
        /\ pc'[t] = "publish" /\ t0'[t] = clock /\ clock' = clock + 1
        /\ \A u \in Threads : u # t => pc'[u] = pc[u] /\ t0'[u] = t0[u]
        /\ UNCHANGED <<currentSliceId, samples, samplesSliceId, slices, finished, collected,
                       wdPc, wdSlice>>
    BY <1>1 DEF StartSlice, TypeOK, Quiet
  <2>2. \A u \in Threads : Top(u)' = Top(u)
    BY <2>1 DEF Top
  <2>3. \A u \in Threads : OnLatest(u)' => OnLatest(u)
    BY <2>1 DEF StackShape, OnLatest, Ending
  <2>4. StackShape' /\ Kept' /\ NoSampleLost'
    BY <2>1 DEF StackShape, Kept, NoSampleLost, Quiet, Ending, StoredFor
  <2>5. Latest'
    <3>1. clock \in Nat /\ samplesSliceId \in Nat
      BY DEF TypeOK
    <3>. QED
      BY <2>1, <2>2, <2>3, <3>1 DEF Latest
  <2>. QED
    BY <2>4, <2>5 DEF LossInv
<1>2. CASE Publish(t)
  <2>1. /\ pc[t] = "publish" /\ pc'[t] = "running" /\ \A u \in Threads : u # t => pc'[u] = pc[u]
        /\ currentSliceId' = t0[t]
        /\ slices'[t] = Append(slices[t], t0[t])
        /\ \A u \in Threads : u # t => slices'[u] = slices[u]
        /\ UNCHANGED <<clock, samples, samplesSliceId, t0, finished, collected, wdPc, wdSlice>>
    BY <1>2 DEF Publish, TypeOK
  <2>2. \A u \in Threads : u # t => Quiet(u) /\ ~Ending(u) /\ pc[u] # "publish" /\ ~OnLatest(u)'
    BY <1>a, <2>1 DEF Quiet, OnLatest, Ending
  <2>3. slices'[t] # <<>> /\ Top(t)' = t0[t]
    <3>1. slices[t] \in Seq(SliceIds) /\ t0[t] \in Nat
      BY DEF TypeOK
    <3>2. Append(slices[t], t0[t]) # <<>> /\ Len(Append(slices[t], t0[t])) = Len(slices[t]) + 1
      BY <3>1
    <3>3. Append(slices[t], t0[t])[Len(slices[t]) + 1] = t0[t]
      BY <3>1
    <3>. QED
      BY <2>1, <3>2, <3>3 DEF Top
  <2>4. StackShape' /\ Kept' /\ NoSampleLost'
    BY <2>1, <2>2, <2>3 DEF StackShape, Kept, NoSampleLost, Quiet, Ending, StoredFor
  <2>5. Latest'
    <3>1. wdSlice < t0[t] /\ samplesSliceId < t0[t]
      BY <2>1 DEF Published, Latest
    <3>2. wdSlice \in Nat /\ samplesSliceId \in Nat /\ t0[t] \in Nat
      BY DEF TypeOK
    <3>3. wdSlice <= t0[t] /\ samplesSliceId <= t0[t]
      BY <3>1, <3>2
    <3>. QED
      BY <2>1, <2>2, <2>3, <3>3 DEF Latest
  <2>. QED
    BY <2>4, <2>5 DEF LossInv
<1>3. CASE FinishClear(t)
  <2>1. /\ pc[t] \in {"running", "unwinding"} /\ pc'[t] = "peek"
        /\ \A u \in Threads : u # t => pc'[u] = pc[u]
        /\ currentSliceId' = 0
        /\ UNCHANGED <<clock, samples, samplesSliceId, slices, t0, wdPc, wdSlice>>
    BY <1>3 DEF FinishClear, TypeOK
  <2>2. \A u \in Threads : u # t => finished'[u] = finished[u] /\ collected'[u] = collected[u]
    BY <1>3 DEF FinishClear, TypeOK
  <2>3. /\ finished'[t].innermost => pc[t] = "running"
        /\ finished'[t].slice = Top(t) /\ finished'[t].stored = StoredFor(Top(t))
    BY <1>3 DEF FinishClear, TypeOK
  <2>4. \A u \in Threads : u # t => Quiet(u) /\ ~Ending(u) /\ ~OnLatest(u)'
    BY <1>a, <2>1 DEF Quiet, OnLatest, Ending
  <2>5. StackShape' /\ NoSampleLost'
    BY <2>1, <2>2 DEF StackShape, NoSampleLost, Quiet
  <2>6. Latest'
    BY <2>1, <2>3, <2>4 DEF Latest, OnLatest, Top
  <2>7. Kept'
    <3>1. StoredFor(Top(t))' >= finished'[t].stored
      BY <2>1, <2>3, StoredTypes DEF StoredFor, Top
    <3>. QED
      BY <2>1, <2>3, <2>4, <3>1 DEF Kept, Ending, StoredFor, Top
  <2>. QED
    BY <2>5, <2>6, <2>7 DEF LossInv
<1>4. CASE (FinishPeek(t) /\ ~NothingStored(t)) \/ FinishAcquire(t)
  <2>1. /\ pc[t] \in {"peek", "lock"} /\ pc'[t] \in {"lock", "collect"}
        /\ \A u \in Threads : u # t => pc'[u] = pc[u]
        /\ UNCHANGED <<clock, currentSliceId, samples, samplesSliceId, slices, t0, finished,
                       collected, wdPc, wdSlice>>
    BY <1>4 DEF FinishPeek, FinishAcquire, TypeOK
  <2>2. \A u \in Threads : OnLatest(u)' => OnLatest(u)
    BY <2>1 DEF OnLatest, Ending
  <2>. QED
    BY <2>1, <2>2 DEF LossInv, StackShape, Latest, Kept, NoSampleLost, Quiet, Ending, StoredFor, Top
<1>5. CASE (FinishPeek(t) /\ NothingStored(t)) \/ FinishCollect(t)
  <2>1. /\ pc[t] \in {"peek", "collect"}
        /\ pc'[t] = IF Len(slices[t]) > 1 THEN "unwinding" ELSE "idle"
        /\ \A u \in Threads : u # t => pc'[u] = pc[u]
        /\ slices'[t] = Pop(t) /\ \A u \in Threads : u # t => slices'[u] = slices[u]
        /\ UNCHANGED <<clock, currentSliceId, t0, finished, wdPc, wdSlice>>
    BY <1>5 DEF FinishPeek, FinishCollect, Return, TypeOK
  <2>2. \/ samplesSliceId = Top(t) /\ collected'[t] = samples /\ samplesSliceId' = 0
        \/ samplesSliceId # Top(t) /\ UNCHANGED <<collected, samplesSliceId>>
    BY <1>5 DEF FinishPeek, FinishCollect, NothingStored, TypeOK
  <2>3. \A u \in Threads : u # t => collected'[u] = collected[u]
    BY <1>5 DEF FinishPeek, FinishCollect, NothingStored, TypeOK
  <2>4. \A u \in Threads : ~Ending(u)' /\ ~OnLatest(u)' /\ pc'[u] # "publish"
    BY <1>a, <2>1 DEF Quiet, OnLatest, Ending
  <2>5. StackShape'
    BY <2>1, PopShape DEF StackShape, Quiet
  <2>6. Latest'
    <3>1. 0 < clock /\ samplesSliceId' \in {0, samplesSliceId}
      BY <2>2 DEF TypeOK
    <3>2. currentSliceId' \in Nat /\ wdSlice' \in Nat
      BY DEF TypeOK
    <3>. QED
      BY <2>1, <2>4, <3>1, <3>2 DEF Latest
  <2>7. Kept'
    BY <2>4 DEF Kept
  <2>8. NoSampleLost'
    <3>1. finished[t].innermost => StoredFor(Top(t)) >= finished[t].stored
      BY <2>1 DEF Kept, Ending, Collecting
    <3>2. finished[t].innermost => Len(collected'[t]) >= finished[t].stored
      <4>1. CASE samplesSliceId = Top(t)
        BY <4>1, <2>2, <3>1 DEF StoredFor
      <4>2. CASE samplesSliceId # Top(t)
        <5>1. StoredFor(Top(t)) = 0 /\ Len(collected'[t]) \in Nat
          BY <4>2, <2>2, StoredTypes DEF StoredFor
        <5>. QED
          BY <3>1, <5>1, StoredTypes
      <4>. QED
        BY <4>1, <4>2
    <3>. QED
      BY <2>1, <2>3, <3>2 DEF NoSampleLost, Quiet
  <2>. QED
    BY <2>5, <2>6, <2>7, <2>8 DEF LossInv
<1>6. CASE LoopEnds(t)
  <2>1. /\ pc[t] = "idle" /\ pc'[t] = "gone" /\ \A u \in Threads : u # t => pc'[u] = pc[u]
        /\ UNCHANGED <<clock, currentSliceId, samples, samplesSliceId, slices, t0, finished,
                       collected, wdPc, wdSlice>>
    BY <1>6 DEF LoopEnds, TypeOK
  <2>2. \A u \in Threads : OnLatest(u)' => OnLatest(u)
    BY <2>1 DEF OnLatest, Ending
  <2>. QED
    BY <2>1, <2>2 DEF LossInv, StackShape, Latest, Kept, NoSampleLost, Quiet, Ending, StoredFor, Top
<1>. QED
  BY <1>1, <1>2, <1>3, <1>4, <1>5, <1>6 DEF LoopThread, Epilogue

\* The watchdog goes on to the published slice, which is the one on top of the
\* thread that runs; and it claims for the store's slice or a later one.
LEMMA LossWatchdog ==
  ASSUME ~Overlap, SerialInv, SerialInv', LossInv, WatchdogStep
  PROVE  LossInv'
<1>. /\ TypeOK /\ TypeOK' /\ Past /\ Published /\ Collecting /\ WatchdogReads
     /\ StackShape /\ Latest /\ Kept /\ NoSampleLost
  BY DEF SerialInv, TypeInv, LossInv
<1>1. UNCHANGED <<clock, currentSliceId, pc, t0, slices, finished, collected>>
  BY DEF WatchdogStep, WdWake, WdAge, WdIdent, WdCapture, WdRecheck, WdAcquire, WdClaim, WdStore,
     marker, loopVars
<1>2. /\ \A t \in Threads : Top(t)' = Top(t) /\ (OnLatest(t)' <=> OnLatest(t))
      /\ StackShape' /\ NoSampleLost'
  BY <1>1 DEF Top, OnLatest, StackShape, NoSampleLost, Quiet, Ending
<1>3. CASE WdWake
  <2>1. UNCHANGED <<samples, samplesSliceId>> /\ wdSlice' = currentSliceId
        /\ (currentSliceId = 0 => wdPc' = "sleep")
    BY <1>3 DEF WdWake, store
  <2>2. ASSUME NEW t \in Threads, OnLatest(t) PROVE currentSliceId <= Top(t)
    <3>1. ~Quiet(t)
      BY <2>2 DEF OnLatest, Quiet, Ending
    <3>2. currentSliceId # 0 => Top(t) = currentSliceId
      BY <3>1, MineAlone DEF Published
    <3>3. Top(t) \in Nat /\ currentSliceId \in Nat
      BY TopEntered DEF TypeOK
    <3>. QED
      BY <3>2, <3>3
  <2>3. Latest'
    <3>1. currentSliceId <= currentSliceId
      BY DEF TypeOK
    <3>. QED
      BY <1>1, <1>2, <2>1, <2>2, <3>1 DEF Latest
  <2>4. Kept'
    BY <1>1, <2>1 DEF Kept, Ending, StoredFor
  <2>. QED
    BY <1>2, <2>3, <2>4 DEF LossInv
<1>4. CASE WdAge \/ WdIdent \/ WdCapture \/ WdRecheck \/ WdAcquire
  <2>1. UNCHANGED <<samples, samplesSliceId, wdSlice>> /\ wdPc # "sleep"
    BY <1>4 DEF WdAge, WdIdent, WdCapture, WdRecheck, WdAcquire, store
  <2>. QED
    BY <1>1, <1>2, <2>1 DEF LossInv, Latest, Kept, Ending, StoredFor
<1>5. CASE WdClaim
  <2>1. /\ wdPc = "claim" /\ samplesSliceId' = wdSlice /\ UNCHANGED wdSlice
        /\ samples' = IF samplesSliceId # wdSlice THEN <<>> ELSE samples
    BY <1>5 DEF WdClaim, Claimed
  <2>2. Latest'
    <3>1. wdSlice <= wdSlice /\ wdSlice < clock
      BY DEF TypeOK, Past
    <3>2. \A t \in Threads : pc[t] = "publish" => wdSlice < t0[t]
      BY DEF Published
    <3>. QED
      BY <1>1, <1>2, <2>1, <3>1, <3>2 DEF Latest
  <2>3. ASSUME NEW t \in Threads, Ending(t), finished[t].innermost
        PROVE  StoredFor(finished[t].slice)' >= finished[t].stored
    <3>1. finished[t].stored \in Nat
      BY StoredTypes
    <3>2. CASE samplesSliceId = finished[t].slice
      <4>1. wdSlice <= finished[t].slice /\ samplesSliceId <= wdSlice
        BY <2>1, <2>3 DEF Latest, OnLatest, Collecting, Ending
      <4>2. samplesSliceId = wdSlice
        <5>1. samplesSliceId \in Nat /\ wdSlice \in Nat
          BY DEF TypeOK
        <5>2. wdSlice <= samplesSliceId
          BY <3>2, <4>1
        <5>. QED
          BY <4>1, <5>1, <5>2
      <4>. QED
        BY <1>1, <2>1, <2>3, <4>2 DEF Kept, StoredFor
    <3>3. CASE samplesSliceId # finished[t].slice
      <4>1. finished[t].stored = 0
        BY <2>3, <3>1, <3>3 DEF Kept, StoredFor
      <4>2. StoredFor(finished[t].slice)' \in Nat
        BY StoredTypes, <1>1 DEF StoredFor, TypeOK
      <4>. QED
        BY <4>1, <4>2
    <3>. QED
      BY <3>2, <3>3
  <2>4. Kept'
    BY <1>1, <2>3 DEF Kept, Ending, StoredFor
  <2>. QED
    BY <1>2, <2>2, <2>4 DEF LossInv
<1>6. CASE WdStore
  <2>1. /\ wdPc' = "sleep" /\ UNCHANGED <<samplesSliceId, wdSlice>>
        /\ samples' \in {samples, Append(samples, wdFrames)}
    BY <1>6 DEF WdStore, Stored
  <2>2. Latest'
    BY <1>1, <1>2, <2>1 DEF Latest
  <2>3. Len(samples) \in Nat /\ Len(samples') \in Nat /\ Len(samples') >= Len(samples)
    <3>1. samples \in Seq(Nat) /\ wdFrames \in Nat
      BY DEF TypeOK
    <3>. QED
      BY <2>1, <3>1
  <2>4. \A s : StoredFor(s)' >= StoredFor(s)
    BY <2>1, <2>3 DEF StoredFor
  <2>5. ASSUME NEW t \in Threads, Ending(t), finished[t].innermost
        PROVE  StoredFor(finished[t].slice)' >= finished[t].stored
    <3>1. /\ StoredFor(finished[t].slice) \in Nat /\ finished[t].stored \in Nat
          /\ StoredFor(finished[t].slice)' \in Nat
      BY <1>1, <2>1, <2>3, StoredTypes DEF StoredFor
    <3>2. StoredFor(finished[t].slice)' >= StoredFor(finished[t].slice)
      BY <1>1, <2>1, <2>3 DEF StoredFor
    <3>3. StoredFor(finished[t].slice) >= finished[t].stored
      BY <2>5 DEF Kept
    <3>. QED
      BY <3>1, <3>2, <3>3
  <2>6. Kept'
    BY <1>1, <2>5 DEF Kept, Ending, StoredFor
  <2>. QED
    BY <1>2, <2>2, <2>6 DEF LossInv
<1>. QED
  BY <1>3, <1>4, <1>5, <1>6 DEF WatchdogStep

LEMMA LossFork ==
  ASSUME SerialInv, SerialInv', LossInv, NEW t \in Threads, Fork(t)
  PROVE  LossInv'
<1>. TypeOK /\ TypeOK' /\ StackShape /\ NoSampleLost
  BY DEF SerialInv, TypeInv, LossInv
<1>1. /\ currentSliceId' = 0 /\ samplesSliceId' = 0 /\ wdPc' = "sleep" /\ wdSlice' = 0
      /\ UNCHANGED clock
  BY DEF Fork, Reinit
<1>2. /\ pc[t] \in {"idle", "running", "unwinding"} /\ pc'[t] = pc[t] /\ slices'[t] = slices[t]
      /\ finished'[t] = finished[t] /\ collected'[t] = collected[t]
      /\ \A u \in Threads : u # t => pc'[u] = "gone" /\ slices'[u] = <<>>
                                     /\ finished'[u] = NoSlice /\ collected'[u] = <<>>
  BY DEF Fork
<1>3. StackShape' /\ Kept'
  BY <1>2 DEF StackShape, Kept, Quiet, Ending
<1>4. Latest'
  <2>1. \A u \in Threads : Top(u)' \in Nat
    <3>1. \A u \in Threads : slices'[u] \in Seq(SliceIds)
      BY DEF TypeOK
    <3>. QED
      BY <3>1, StackTypes DEF Top
  <2>2. 0 < clock /\ \A u \in Threads : 0 <= Top(u)'
    BY <2>1 DEF TypeOK
  <2>. QED
    BY <1>1, <1>2, <2>2 DEF Latest
<1>5. NoSampleLost'
  <2>1. \A u \in Threads : u # t => Len(collected'[u]) >= finished'[u].stored
    <3>1. Len(<<>>) >= 0
      OBVIOUS
    <3>. QED
      BY <1>2, <3>1 DEF NoSlice
  <2>. QED
    BY <1>2, <2>1 DEF NoSampleLost, Quiet
<1>. QED
  BY <1>3, <1>4, <1>5 DEF LossInv

LEMMA LossTick ==
  ASSUME SerialInv, LossInv, Tick \/ UNCHANGED vars
  PROVE  LossInv'
<1>. TypeOK
  BY DEF SerialInv, TypeInv
<1>1. /\ clock' \in {clock, clock + 1}
      /\ UNCHANGED <<currentSliceId, samples, samplesSliceId, pc, t0, slices, finished, collected,
                     wdPc, wdSlice>>
  BY DEF Tick, vars, loopVars, wdVars
<1>2. samplesSliceId' < clock'
  <2>1. samplesSliceId \in Nat /\ clock \in Nat /\ samplesSliceId < clock
    BY DEF TypeOK, LossInv, Latest
  <2>. QED
    BY <1>1, <2>1
<1>3. Latest'
  BY <1>1, <1>2 DEF LossInv, Latest, OnLatest, Ending, Top
<1>. QED
  BY <1>1, <1>3 DEF LossInv, StackShape, Kept, NoSampleLost, Quiet, Ending, StoredFor

LEMMA LossInvariant == ASSUME ~Overlap PROVE Spec => []LossInv
<1>1. SerialInv /\ SerialInv' /\ LossInv /\ [Next]_vars => LossInv'
  BY LossLoop, LossFork, LossWatchdog, LossTick DEF Next
<1>. QED
  BY <1>1, LossInit, SerialInvariant, PTL DEF Spec

\* Where slices run one at a time, what the watchdog stored for the innermost
\* wrapper by the end of its callback is in the event (cpu_sampler.py:206-216):
\* the unlocked look at the owner never skips it and no claim empties it.
THEOREM StoredIsDelivered == ASSUME ~Overlap PROVE Spec => []NoSampleLost
<1>1. LossInv => NoSampleLost
  BY DEF LossInv
<1>. QED
  BY <1>1, LossInvariant, PTL
=============================================================================
