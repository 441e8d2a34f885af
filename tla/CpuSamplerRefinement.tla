------------------------ MODULE CpuSamplerRefinement ------------------------
(* Where slices run one at a time, CpuSampler implements SampleAttribution:  *)
(* its initial states are initial states of the promise, and each step of a  *)
(* loop thread, of the watchdog, of a fork and of the clock is a step of the *)
(* promise or invisible to it.                                               *)
EXTENDS CpuSamplerProofs, SequenceTheorems

USE DEF SliceIds, Nobody, Watchdog, marker, store

-----------------------------------------------------------------------------
(* What the mapping needs to know besides AgeInv, SerialInv and LossInv.     *)

\* No slice is open twice.
OpenOnce ==
  \A t, u \in Threads : \A i \in DOMAIN slices[t], j \in DOMAIN slices[u] :
    slices[t][i] = slices[u][j] => t = u /\ i = j

\* A wrapper that is ending holds nothing of the slice before.
EmptyHanded == \A t \in Threads : Ending(t) => collected[t] = <<>>

\* A slice about to begin is one of those the promise is about.
InRange == \A t \in Threads : pc[t] = "publish" => t0[t] \in 1 .. MaxStart

MapInv == OpenOnce /\ EmptyHanded /\ InRange

LEMMA MapInit == Init => MapInv
<1>. DOMAIN <<>> = {}
  OBVIOUS
<1>. QED
  BY DEF Init, MapInv, OpenOnce, EmptyHanded, InRange, Ending

LEMMA OpenOnceStays ==
  ASSUME OpenOnce, \A t \in Threads : \A i \in DOMAIN slices'[t] :
                     i \in DOMAIN slices[t] /\ slices'[t][i] = slices[t][i]
  PROVE  OpenOnce'
BY DEF OpenOnce

LEMMA MapLoop ==
  ASSUME AgeInv, MapInv, NEW t \in Threads, LoopThread(t)
  PROVE  MapInv'
<1>. TypeOK /\ OpenOnce /\ EmptyHanded /\ InRange /\ FreshIds
  BY DEF AgeInv, TypeInv, MapInv
<1>. USE DEF Goto, loopVars
<1>0. slices \in [Threads -> Seq(SliceIds)] /\ clock \in Nat \ {0}
  BY DEF TypeOK
<1>1. CASE StartSlice(t)
  <2>1. /\ pc'[t] = "publish" /\ t0'[t] = clock /\ clock < MaxStart
        /\ \A u \in Threads : u # t => pc'[u] = pc[u] /\ t0'[u] = t0[u]
        /\ UNCHANGED <<slices, collected>>
    BY <1>1 DEF StartSlice, TypeOK
  <2>2. clock \in 1 .. MaxStart
    BY <1>0, <2>1, ConstantsAssumption
  <2>. QED
    BY <2>1, <2>2 DEF MapInv, OpenOnce, EmptyHanded, InRange, Ending
<1>2. CASE Publish(t)
  <2>1. /\ pc[t] = "publish" /\ pc'[t] = "running" /\ \A u \in Threads : u # t => pc'[u] = pc[u]
        /\ slices'[t] = Append(slices[t], t0[t])
        /\ \A u \in Threads : u # t => slices'[u] = slices[u]
        /\ UNCHANGED <<t0, collected>>
    BY <1>2 DEF Publish, TypeOK
  <2>2. \A u \in Threads : \A i \in DOMAIN slices'[u] :
          \/ i \in DOMAIN slices[u] /\ slices'[u][i] = slices[u][i]
          \/ u = t /\ i = Len(slices[t]) + 1 /\ slices'[u][i] = t0[t]
    <3>1. slices[t] \in Seq(SliceIds)
      BY <1>0
    <3>2. \A i \in DOMAIN slices'[t] :
             \/ i \in DOMAIN slices[t] /\ slices'[t][i] = slices[t][i]
             \/ i = Len(slices[t]) + 1 /\ slices'[t][i] = t0[t]
      BY <2>1, <3>1, StackEntries
    <3>. QED
      BY <2>1, <3>2
  <2>3. \A u \in Threads : \A i \in DOMAIN slices[u] : slices[u][i] # t0[t]
    BY <2>1 DEF FreshIds, Entered
  <2>4. OpenOnce'
    BY <2>2, <2>3 DEF OpenOnce
  <2>. QED
    BY <2>1, <2>4 DEF MapInv, EmptyHanded, InRange, Ending
<1>3. CASE FinishClear(t)
  <2>1. /\ collected'[t] = <<>> /\ \A u \in Threads : u # t => collected'[u] = collected[u]
        /\ pc'[t] = "peek" /\ \A u \in Threads : u # t => pc'[u] = pc[u]
        /\ UNCHANGED <<t0, slices>>
    BY <1>3 DEF FinishClear, TypeOK
  <2>. QED
    BY <2>1 DEF MapInv, OpenOnce, EmptyHanded, InRange, Ending
<1>4. CASE FinishPeek(t) \/ FinishCollect(t)
  <2>1. /\ \/ pc[t] = "peek" /\ pc'[t] = "lock" /\ UNCHANGED <<slices, collected>>
           \/ pc'[t] \in {"idle", "unwinding"} /\ slices'[t] = Pop(t)
        /\ \A u \in Threads : u # t => /\ pc'[u] = pc[u] /\ slices'[u] = slices[u]
                                       /\ collected'[u] = collected[u]
        /\ UNCHANGED t0
    BY <1>4 DEF FinishPeek, FinishCollect, NothingStored, Return, TypeOK
  <2>2. \A u \in Threads : \A i \in DOMAIN slices'[u] :
          i \in DOMAIN slices[u] /\ slices'[u][i] = slices[u][i]
    <3>1. slices[t] \in Seq(SliceIds)
      BY <1>0
    <3>2. slices'[t] = Pop(t) =>
            \A i \in DOMAIN slices'[t] : i \in DOMAIN slices[t] /\ slices'[t][i] = slices[t][i]
      BY <3>1, StackEntries DEF Pop
    <3>. QED
      BY <2>1, <3>2
  <2>3. OpenOnce'
    BY <2>2, OpenOnceStays
  <2>. QED
    BY <2>1, <2>3 DEF MapInv, EmptyHanded, InRange, Ending
<1>5. CASE FinishAcquire(t) \/ LoopEnds(t)
  <2>1. /\ (pc[t] = "lock" /\ pc'[t] = "collect") \/ pc'[t] = "gone"
        /\ \A u \in Threads : u # t => pc'[u] = pc[u]
        /\ UNCHANGED <<t0, slices, collected>>
    BY <1>5 DEF FinishAcquire, LoopEnds, TypeOK
  <2>. QED
    BY <2>1 DEF MapInv, OpenOnce, EmptyHanded, InRange, Ending
<1>. QED
  BY <1>1, <1>2, <1>3, <1>4, <1>5 DEF LoopThread, Epilogue

LEMMA MapInvariant == Spec => []MapInv
<1>1. AgeInv /\ MapInv /\ [Next]_vars => MapInv'
  <2>. SUFFICES ASSUME AgeInv, MapInv, [Next]_vars PROVE MapInv'
    OBVIOUS
  <2>1. ASSUME NEW t \in Threads, Fork(t) PROVE MapInv'
    <3>1. /\ slices'[t] = slices[t] /\ pc'[t] = pc[t] /\ pc[t] \in {"idle", "running", "unwinding"}
          /\ \A u \in Threads : u # t => pc'[u] = "gone" /\ slices'[u] = <<>>
      BY <2>1 DEF Fork
    <3>2. DOMAIN <<>> = {}
      OBVIOUS
    <3>3. OpenOnce'
      BY <3>1, <3>2, OpenOnceStays DEF MapInv
    <3>. QED
      BY <3>1, <3>3 DEF MapInv, EmptyHanded, InRange, Ending
  <2>2. CASE WatchdogStep \/ Tick \/ UNCHANGED vars
    <3>1. UNCHANGED <<pc, t0, slices, collected>>
      BY <2>2 DEF WatchdogStep, WdWake, WdAge, WdIdent, WdCapture, WdRecheck, WdAcquire, WdClaim,
         WdStore, Tick, vars, loopVars
    <3>. QED
      BY <3>1 DEF MapInv, OpenOnce, EmptyHanded, InRange, Ending
  <2>. QED
    BY <2>1, <2>2, MapLoop DEF Next
<1>. QED
  BY <1>1, MapInit, AgeInvariant, PTL DEF Spec

-----------------------------------------------------------------------------
(* The mapping, and when a step changes nothing in it.                       *)

Held(t, i)  == StoredFor(slices[t][i])
Entry(t, i) == [slice |-> slices[t][i], held |-> Held(t, i), nested |-> IsNested(t, i)]
OpenOf(t)   == [i \in DOMAIN slices[t] |-> Entry(t, i)]
Opened      == [t \in Threads |-> OpenOf(t)]

Entries == [slice : Nat, held : Nat, nested : BOOLEAN]

LEMMA MappedIs ==
  /\ Attribution!vars = <<Opened, collected>>
  /\ Attribution!vars' = <<Opened', collected'>>
BY DEF Attribution!vars, Opened, OpenOf, Entry, Held

\* A record of the mapped state is its fields.
LEMMA NestedEntry ==
  ASSUME NEW e \in Entries
  PROVE  Attribution!AsNested(e) = [slice |-> e.slice, held |-> e.held, nested |-> TRUE]
<1>. DEFINE r == [e EXCEPT !.nested = TRUE]
            q == [slice |-> e.slice, held |-> e.held, nested |-> TRUE]
<1>1. r \in Entries /\ q \in Entries
  BY DEF Entries
<1>2. r.slice = e.slice /\ r.held = e.held
  BY DEF Entries
<1>3. r.nested = TRUE
  BY DEF Entries
<1>4. q.slice = e.slice /\ q.held = e.held /\ q.nested = TRUE
  OBVIOUS
<1>5. \A a, b \in Entries : a.slice = b.slice /\ a.held = b.held /\ a.nested = b.nested => a = b
  BY DEF Entries
<1>. HIDE DEF r, q
<1>6. r = q
  BY <1>1, <1>2, <1>3, <1>4, <1>5
<1>. QED
  BY <1>6 DEF Attribution!AsNested, r, q

LEMMA EntryKept ==
  ASSUME NEW t \in Threads, NEW i, slices'[t][i] = slices[t][i], Held(t, i)' = Held(t, i),
         IsNested(t, i)' <=> IsNested(t, i)
  PROVE  Entry(t, i)' = Entry(t, i)
<1>1. IsNested(t, i)' = IsNested(t, i)
  BY DEF IsNested
<1>. QED
  BY <1>1 DEF Entry

LEMMA EntryTypes ==
  ASSUME TypeOK, NEW t \in Threads
  PROVE  /\ Len(slices[t]) \in Nat /\ DOMAIN slices[t] = 1 .. Len(slices[t])
         /\ DOMAIN OpenOf(t) = 1 .. Len(slices[t])
         /\ \A i \in DOMAIN slices[t] : slices[t][i] \in SliceIds /\ Entry(t, i) \in Entries
         /\ OpenOf(t) \in [1 .. Len(slices[t]) -> Entries]
<1>1. slices[t] \in Seq(SliceIds)
  BY DEF TypeOK
<1>2. Len(slices[t]) \in Nat /\ DOMAIN slices[t] = 1 .. Len(slices[t])
  BY <1>1
<1>3. \A i \in DOMAIN slices[t] : slices[t][i] \in SliceIds
  BY <1>1
<1>4. \A i : Held(t, i) \in Nat
  BY StoredTypes DEF Held
<1>5. \A i : IsNested(t, i) \in BOOLEAN
  BY DEF IsNested
<1>6. \A i \in DOMAIN slices[t] : Entry(t, i) \in Entries
  BY <1>3, <1>4, <1>5 DEF Entry, Entries
<1>. QED
  BY <1>2, <1>3, <1>6 DEF OpenOf

LEMMA OpenKept ==
  ASSUME NEW t \in Threads, slices'[t] = slices[t],
         \A i \in DOMAIN slices[t] : /\ Held(t, i)' = Held(t, i)
                                     /\ IsNested(t, i)' <=> IsNested(t, i)
  PROVE  OpenOf(t)' = OpenOf(t)
<1>1. \A i \in DOMAIN slices[t] : Entry(t, i)' = Entry(t, i)
  BY EntryKept
<1>. QED
  BY <1>1 DEF OpenOf

LEMMA Invisible ==
  ASSUME \A t \in Threads : OpenOf(t)' = OpenOf(t), collected' = collected
  PROVE  UNCHANGED Attribution!vars
BY MappedIs DEF Opened

\* In a step that leaves the store alone, a thread whose place and slices do
\* not change is seen unchanged.
LEMMA ThreadKept ==
  ASSUME NEW t \in Threads, pc'[t] = pc[t], slices'[t] = slices[t], finished'[t] = finished[t],
         UNCHANGED <<samples, samplesSliceId>>
  PROVE  OpenOf(t)' = OpenOf(t)
<1>1. \A i : Held(t, i)' = Held(t, i) /\ (IsNested(t, i)' <=> IsNested(t, i))
  BY DEF Held, StoredFor, IsNested
<1>. QED
  BY <1>1, OpenKept

-----------------------------------------------------------------------------
(* Steps of the promise, from what a step does to the mapped state.          *)

LEMMA IsBegin ==
  ASSUME NEW t \in Threads, NEW s \in 1 .. MaxStart,
         \A u \in Threads : \A i \in DOMAIN slices[u] : slices[u][i] # s,
         OpenOf(t)' = Append(Attribution!Outer(OpenOf(t)), Attribution!Fresh(s)),
         \A u \in Threads : u # t => OpenOf(u)' = OpenOf(u),
         collected' = collected
  PROVE  Attribution!Next
<1>1. \A u \in Threads : \A i \in DOMAIN OpenOf(u) : OpenOf(u)[i].slice # s
  BY DEF OpenOf, Entry
<1>2. Opened' = [Opened EXCEPT ![t] = Append(Attribution!Outer(@), Attribution!Fresh(s))]
  BY DEF Opened
<1>3. Attribution!Begin(t, s)
  BY <1>1, <1>2 DEF Attribution!Begin, Opened, OpenOf, Entry, Held
<1>. QED
  BY <1>3 DEF Attribution!Next

LEMMA IsDeliver ==
  ASSUME NEW t \in Threads, TypeOK, slices[t] # <<>>,
         OpenOf(t)' = [i \in 1 .. Len(slices[t]) - 1 |-> OpenOf(t)[i]],
         \A u \in Threads : u # t => OpenOf(u)' = OpenOf(u),
         collected' = [collected EXCEPT ![t] = [k \in 1 .. StoredFor(Top(t)) |-> Top(t)]]
  PROVE  Attribution!Next
<1>. DEFINE n == Len(slices[t])
<1>1. n \in Nat /\ OpenOf(t) \in [1 .. n -> Entries]
  BY EntryTypes
<1>2. n > 0
  BY <1>1 DEF TypeOK
<1>3. OpenOf(t) \in Seq(Entries) /\ Len(OpenOf(t)) = n /\ OpenOf(t) # <<>>
  BY <1>1, <1>2
<1>4. Attribution!Last(OpenOf(t)) = Entry(t, n)
  BY <1>1, <1>2, <1>3 DEF Attribution!Last, OpenOf
<1>5. Attribution!Front(OpenOf(t)) = OpenOf(t)'
  <2>1. Attribution!Front(OpenOf(t)) = SubSeq(OpenOf(t), 1, n - 1)
    BY <1>3 DEF Attribution!Front
  <2>2. SubSeq(OpenOf(t), 1, n - 1) = [i \in 1 .. n - 1 |-> OpenOf(t)[i]]
    BY <1>1, <1>2, <1>3
  <2>. QED
    BY <2>1, <2>2
<1>6. Opened' = [Opened EXCEPT ![t] = Attribution!Front(@)]
  BY <1>5 DEF Opened
<1>7. Attribution!Last(OpenOf(t)).held = StoredFor(Top(t)) /\ Attribution!Last(OpenOf(t)).slice = Top(t)
  BY <1>4 DEF Entry, Held, Top
<1>8. Opened[t] = OpenOf(t)
  BY DEF Opened
<1>9. Attribution!Deliver(t)
  BY <1>3, <1>6, <1>7, <1>8 DEF Attribution!Deliver, Opened, OpenOf, Entry, Held
<1>. QED
  BY <1>9 DEF Attribution!Next

LEMMA IsFinish ==
  ASSUME NEW t \in Threads, TypeOK, slices[t] # <<>>,
         \A u \in Threads : OpenOf(u)' = OpenOf(u),
         collected' = [collected EXCEPT ![t] = <<>>]
  PROVE  Attribution!Next
<1>1. Len(slices[t]) > 0 /\ OpenOf(t) \in [1 .. Len(slices[t]) -> Entries]
  BY EntryTypes DEF TypeOK
<1>2. OpenOf(t) # <<>>
  BY <1>1
<1>3. Opened[t] = OpenOf(t) /\ Opened' = Opened
  BY DEF Opened
<1>4. Attribution!Finish(t)
  BY <1>2, <1>3 DEF Attribution!Finish, Opened, OpenOf, Entry, Held
<1>. QED
  BY <1>4 DEF Attribution!Next

\* Only the samples of one open slice change: by one more,
LEMMA IsObserve ==
  ASSUME NEW t \in Threads, NEW i \in DOMAIN slices[t], Held(t, i) < MaxSamples,
         OpenOf(t)' = [OpenOf(t) EXCEPT ![i] = [Entry(t, i) EXCEPT !.held = @ + 1]],
         \A u \in Threads : u # t => OpenOf(u)' = OpenOf(u),
         collected' = collected
  PROVE  Attribution!Next
<1>1. Opened[t] = OpenOf(t) /\ OpenOf(t)[i] = Entry(t, i) /\ i \in DOMAIN OpenOf(t)
  BY DEF Opened, OpenOf
<1>2. Opened' = [Opened EXCEPT ![t][i].held = @ + 1]
  BY <1>1 DEF Opened
<1>3. Opened[t][i].held < MaxSamples
  BY <1>1 DEF Entry
<1>4. Attribution!Observe(t, i)
  BY <1>2, <1>3 DEF Attribution!Observe, Opened, OpenOf, Entry, Held
<1>. QED
  BY <1>1, <1>4 DEF Attribution!Next, Opened, OpenOf, Entry, Held

\* or to none, which only a nested slice may suffer.
LEMMA IsForget ==
  ASSUME NEW t \in Threads, NEW i \in DOMAIN slices[t], IsNested(t, i),
         OpenOf(t)' = [OpenOf(t) EXCEPT ![i] = [Entry(t, i) EXCEPT !.held = 0]],
         \A u \in Threads : u # t => OpenOf(u)' = OpenOf(u),
         collected' = collected
  PROVE  Attribution!Next
<1>1. Opened[t] = OpenOf(t) /\ OpenOf(t)[i] = Entry(t, i) /\ i \in DOMAIN OpenOf(t)
  BY DEF Opened, OpenOf
<1>2. Opened' = [Opened EXCEPT ![t][i].held = 0]
  BY <1>1 DEF Opened
<1>3. Opened[t][i].nested
  BY <1>1 DEF Entry
<1>4. Attribution!Forget(t, i)
  BY <1>2, <1>3 DEF Attribution!Forget, Opened, OpenOf, Entry, Held
<1>. QED
  BY <1>1, <1>4 DEF Attribution!Next, Opened, OpenOf, Entry, Held

LEMMA IsFork ==
  ASSUME NEW t \in Threads,
         OpenOf(t)' = [i \in DOMAIN slices[t] |-> [Entry(t, i) EXCEPT !.held = 0]],
         \A u \in Threads : u # t => OpenOf(u)' = <<>>,
         collected' = [u \in Threads |-> IF u = t THEN collected[t] ELSE <<>>]
  PROVE  Attribution!Next
<1>1. Opened[t] = OpenOf(t) /\ DOMAIN OpenOf(t) = DOMAIN slices[t]
      /\ \A i \in DOMAIN slices[t] : OpenOf(t)[i] = Entry(t, i)
  BY DEF Opened, OpenOf
<1>2. OpenOf(t)' = [i \in DOMAIN Opened[t] |-> [Opened[t][i] EXCEPT !.held = 0]]
  BY <1>1
<1>3. Opened' = [u \in Threads |->
        IF u = t THEN [i \in DOMAIN Opened[t] |-> [Opened[t][i] EXCEPT !.held = 0]] ELSE <<>>]
  BY <1>2 DEF Opened
<1>4. Attribution!Fork(t)
  BY <1>3 DEF Attribution!Fork, Opened, OpenOf, Entry, Held
<1>. QED
  BY <1>4 DEF Attribution!Next

-----------------------------------------------------------------------------
(* The steps of CpuSampler.                                                  *)

RefinementInv == AgeInv /\ SerialInv /\ LossInv /\ MapInv

LEMMA AppendIs ==
  ASSUME NEW n \in Nat, NEW R \in [1 .. n -> Entries], NEW e \in Entries,
         NEW F \in [1 .. n + 1 -> Entries],
         \A i \in 1 .. n : F[i] = R[i],
         F[n + 1] = e
  PROVE  F = Append(R, e)
<1>1. R \in Seq(Entries) /\ Len(R) = n
  OBVIOUS
<1>2. Append(R, e) \in [1 .. n + 1 -> Entries]
  <2>1. Append(R, e) \in Seq(Entries) /\ Len(Append(R, e)) = n + 1
    BY <1>1
  <2>. QED
    BY <2>1, LenProperties
<1>3. \A i \in 1 .. n : Append(R, e)[i] = R[i]
  BY <1>1
<1>4. Append(R, e)[n + 1] = e
  BY <1>1
<1>. QED
  BY <1>2, <1>3, <1>4

\* The wrappers around the one that begins are nested from now on.
LEMMA PublishBegins ==
  ASSUME RefinementInv, TypeOK', NEW t \in Threads, Publish(t)
  PROVE  Attribution!Next
<1>. TypeOK /\ FreshIds /\ InRange /\ Latest
  BY DEF RefinementInv, AgeInv, TypeInv, MapInv, LossInv
<1>0. PICK n \in Nat, s \in Nat : n = Len(slices[t]) /\ s = t0[t]
  BY EntryTypes DEF TypeOK
<1>1. /\ pc[t] = "publish" /\ pc'[t] = "running" /\ \A u \in Threads : u # t => pc'[u] = pc[u]
      /\ slices'[t] = Append(slices[t], s)
      /\ \A u \in Threads : u # t => slices'[u] = slices[u]
      /\ UNCHANGED <<samples, samplesSliceId, finished, collected>>
  BY <1>0 DEF Publish, TypeOK, Goto, store
<1>2. s \in 1 .. MaxStart /\ s \in SliceIds
  BY <1>0, <1>1, ConstantsAssumption DEF InRange
<1>3. \A u \in Threads : \A i \in DOMAIN slices[u] : slices[u][i] # s
  BY <1>0, <1>1 DEF FreshIds, Entered
<1>4. slices[t] \in Seq(SliceIds) /\ Len(slices[t]) = n /\ DOMAIN slices[t] = 1 .. n
  BY <1>0 DEF TypeOK
<1>5. /\ Len(slices'[t]) = n + 1 /\ slices'[t][n + 1] = s
      /\ \A i \in 1 .. n : slices'[t][i] = slices[t][i]
  BY <1>1, <1>2, <1>4
<1>6. \A u \in Threads : u # t => OpenOf(u)' = OpenOf(u)
  BY <1>1, ThreadKept
<1>7. OpenOf(t)' \in [1 .. n + 1 -> Entries]
  <2>1. /\ slices'[t] \in Seq(SliceIds) /\ DOMAIN slices'[t] = 1 .. n + 1
        /\ \A i \in DOMAIN slices'[t] : slices'[t][i] \in SliceIds
    <3>1. slices'[t] \in Seq(SliceIds)
      BY DEF TypeOK
    <3>. QED
      BY <1>5, <3>1
  <2>2. \A i : Held(t, i)' \in Nat
    BY DEF TypeOK, Held, StoredFor
  <2>3. \A i : IsNested(t, i)' \in BOOLEAN
    BY DEF IsNested
  <2>4. \A i \in DOMAIN slices'[t] : Entry(t, i)' \in Entries
    BY <2>1, <2>2, <2>3 DEF Entry, Entries
  <2>. QED
    BY <2>1, <2>4 DEF OpenOf
<1>8. \A i \in 1 .. n : OpenOf(t)'[i] = Attribution!AsNested(OpenOf(t)[i])
  <2>. SUFFICES ASSUME NEW i \in 1 .. n
                PROVE  OpenOf(t)'[i] = Attribution!AsNested(OpenOf(t)[i])
    OBVIOUS
  <2>1. i \in DOMAIN slices[t] /\ i \in DOMAIN slices'[t] /\ i < n + 1
    BY <1>4, <1>5, <1>7 DEF OpenOf
  <2>2. OpenOf(t)[i] = Entry(t, i) /\ OpenOf(t)'[i] = Entry(t, i)'
    BY <2>1 DEF OpenOf
  <2>3. IsNested(t, i)' = TRUE
    BY <1>5, <2>1 DEF IsNested
  <2>4. slices'[t][i] = slices[t][i] /\ Held(t, i)' = Held(t, i)
    BY <1>1, <1>5 DEF Held, StoredFor
  <2>5. Entry(t, i)' = [slice |-> slices[t][i], held |-> Held(t, i), nested |-> TRUE]
    BY <2>3, <2>4 DEF Entry
  <2>6. Attribution!AsNested(Entry(t, i)) =
          [slice |-> slices[t][i], held |-> Held(t, i), nested |-> TRUE]
    <3>1. Entry(t, i) \in Entries /\ slices[t][i] \in Nat /\ Held(t, i) \in Nat
      BY <2>1, EntryTypes, StoredTypes DEF Held
    <3>2. Entry(t, i).slice = slices[t][i] /\ Entry(t, i).held = Held(t, i)
      BY DEF Entry
    <3>. QED
      BY <3>1, <3>2, NestedEntry
  <2>. QED
    BY <2>2, <2>5, <2>6
<1>9. OpenOf(t)'[n + 1] = Attribution!Fresh(s)
  <2>1. OpenOf(t)'[n + 1] = Entry(t, n + 1)'
    <3>1. n + 1 \in 1 .. n + 1 /\ 1 .. n + 1 = DOMAIN OpenOf(t)'
      BY <1>4, <1>7
    <3>. QED
      BY <3>1 DEF OpenOf
  <2>2. IsNested(t, n + 1)' = FALSE
    <3>1. ~(n + 1 < Len(slices'[t]))
      BY <1>4, <1>5
    <3>. QED
      BY <1>1, <3>1 DEF IsNested
  <2>3. samplesSliceId # s
    BY <1>0, <1>1, <1>2 DEF Latest, TypeOK
  <2>4. Held(t, n + 1)' = 0
    BY <1>1, <1>5, <2>3 DEF Held, StoredFor
  <2>5. Entry(t, n + 1)' = [slice |-> s, held |-> 0, nested |-> FALSE]
    BY <1>5, <2>2, <2>4 DEF Entry
  <2>. QED
    BY <2>1, <2>5 DEF Attribution!Fresh
<1>10. Attribution!Outer(OpenOf(t)) = [i \in 1 .. n |-> Attribution!AsNested(OpenOf(t)[i])]
  BY <1>4, EntryTypes DEF Attribution!Outer
<1>11. Attribution!Outer(OpenOf(t)) \in [1 .. n -> Entries]
  <2>0. \A e \in Entries : Attribution!AsNested(e) \in Entries
    BY DEF Attribution!AsNested, Entries
  <2>1. \A i \in 1 .. n : Attribution!AsNested(OpenOf(t)[i]) \in Entries
    BY <2>0, <1>4, EntryTypes
  <2>. QED
    BY <1>10, <2>1
<1>12. Attribution!Fresh(s) \in Entries
  BY <1>2 DEF Attribution!Fresh, Entries
<1>13. OpenOf(t)' = Append(Attribution!Outer(OpenOf(t)), Attribution!Fresh(s))
  <2>1. \A i \in 1 .. n : OpenOf(t)'[i] = Attribution!Outer(OpenOf(t))[i]
    BY <1>8, <1>10
  <2>. QED
    BY <1>7, <1>9, <1>11, <1>12, <2>1, AppendIs
<1>. QED
  BY <1>1, <1>2, <1>3, <1>6, <1>13, IsBegin

\* The marker is withdrawn: whether the slice is nested is what `finished` says
\* from now on.
LEMMA ClearFinishes ==
  ASSUME RefinementInv, NEW t \in Threads, FinishClear(t)
  PROVE  Attribution!Next
<1>. TypeOK /\ StackShape
  BY DEF RefinementInv, AgeInv, TypeInv, LossInv
<1>1. /\ pc[t] \in {"running", "unwinding"} /\ pc'[t] = "peek"
      /\ \A u \in Threads : u # t => pc'[u] = pc[u] /\ finished'[u] = finished[u]
      /\ finished'[t].innermost <=> pc[t] = "running"
      /\ collected' = [collected EXCEPT ![t] = <<>>]
      /\ UNCHANGED <<samples, samplesSliceId, slices>>
  BY DEF FinishClear, TypeOK, Goto, store
<1>2. slices[t] # <<>>
  BY <1>1 DEF StackShape, Quiet
<1>3. \A i : Held(t, i)' = Held(t, i) /\ (IsNested(t, i)' <=> IsNested(t, i))
  BY <1>1 DEF Held, StoredFor, IsNested
<1>4. \A u \in Threads : OpenOf(u)' = OpenOf(u)
  BY <1>1, <1>3, OpenKept, ThreadKept
<1>. QED
  BY <1>1, <1>2, <1>4, IsFinish

\* A wrapper returns: it is handed what the store has for it, nothing when the
\* store is another slice's; and the one around it is still nested.
LEMMA ReturnDelivers ==
  ASSUME RefinementInv, NEW t \in Threads,
         (FinishPeek(t) /\ NothingStored(t)) \/ FinishCollect(t)
  PROVE  Attribution!Next
<1>. /\ TypeOK /\ StackShape /\ OpenOnce /\ EmptyHanded /\ StoreOwned
  BY DEF RefinementInv, AgeInv, TypeInv, LossInv, MapInv, SerialInv
<1>. DEFINE n == Len(slices[t])
<1>1. /\ pc[t] \in {"peek", "collect"}
      /\ pc'[t] = IF Len(slices[t]) > 1 THEN "unwinding" ELSE "idle"
      /\ \A u \in Threads : u # t => pc'[u] = pc[u]
      /\ slices'[t] = Pop(t) /\ \A u \in Threads : u # t => slices'[u] = slices[u]
      /\ UNCHANGED finished
  BY DEF FinishPeek, FinishCollect, Return, Goto, TypeOK
<1>2. \/ /\ samplesSliceId = Top(t) /\ collected' = [collected EXCEPT ![t] = samples]
         /\ samples' = <<>> /\ samplesSliceId' = 0
      \/ samplesSliceId # Top(t) /\ UNCHANGED <<collected, samples, samplesSliceId>>
  BY DEF FinishPeek, FinishCollect, NothingStored, store
<1>3. slices[t] # <<>> /\ slices[t] \in Seq(SliceIds) /\ n \in Nat /\ n > 0
  <2>1. slices[t] # <<>> /\ slices[t] \in Seq(SliceIds)
    BY <1>1 DEF StackShape, Quiet, TypeOK
  <2>. QED
    BY <2>1
<1>4. Top(t) = slices[t][n] /\ n \in DOMAIN slices[t]
  BY <1>3 DEF Top
<1>5. ASSUME NEW s \in SliceIds, s # Top(t)
      PROVE  StoredFor(s)' = StoredFor(s)
  BY <1>2, <1>5 DEF StoredFor
<1>6. \A u \in Threads : u # t => OpenOf(u)' = OpenOf(u)
  <2>. SUFFICES ASSUME NEW u \in Threads, u # t, NEW i \in DOMAIN slices[u]
                PROVE  Held(u, i)' = Held(u, i) /\ (IsNested(u, i)' <=> IsNested(u, i))
    BY <1>1, OpenKept
  <2>1. slices[u][i] \in SliceIds /\ slices[u][i] # Top(t)
    BY <1>4, EntryTypes DEF OpenOnce
  <2>2. StoredFor(slices[u][i])' = StoredFor(slices[u][i])
    BY <1>1, <1>5, <2>1 DEF StoredFor
  <2>. QED
    BY <1>1, <2>2 DEF Held, IsNested
<1>7. OpenOf(t)' = [i \in 1 .. n - 1 |-> OpenOf(t)[i]]
  <2>1. DOMAIN slices'[t] = 1 .. n - 1 /\ \A i \in 1 .. n - 1 : slices'[t][i] = slices[t][i]
    BY <1>1, <1>3 DEF Pop
  <2>2. ASSUME NEW i \in 1 .. n - 1
        PROVE  Entry(t, i)' = Entry(t, i) /\ i \in DOMAIN slices[t]
    <3>1. i \in DOMAIN slices[t] /\ i # n /\ i < n /\ Len(slices[t]) > 1
      BY <1>3
    <3>2. slices[t][i] \in SliceIds /\ slices[t][i] # Top(t)
      BY <1>4, <3>1, EntryTypes DEF OpenOnce
    <3>3. Held(t, i)' = Held(t, i)
      BY <1>5, <2>1, <2>2, <3>2 DEF Held, StoredFor
    <3>4. IsNested(t, i) /\ IsNested(t, i)'
      BY <1>1, <3>1 DEF IsNested
    <3>. QED
      BY <2>1, <2>2, <3>1, <3>3, <3>4, EntryKept
  <2>. QED
    BY <2>1, <2>2 DEF OpenOf
<1>8. collected' = [collected EXCEPT ![t] = [k \in 1 .. StoredFor(Top(t)) |-> Top(t)]]
  <2>1. CASE samplesSliceId = Top(t)
    <3>1. samples \in Seq(Nat) /\ \A i \in DOMAIN samples : samples[i] = Top(t)
      BY <2>1 DEF StoreOwned, TypeOK
    <3>2. samples = [k \in 1 .. Len(samples) |-> Top(t)]
      BY <3>1
    <3>. QED
      BY <1>2, <2>1, <3>2 DEF StoredFor
  <2>2. CASE samplesSliceId # Top(t)
    <3>1. StoredFor(Top(t)) = 0 /\ collected' = collected
      BY <1>2, <2>2 DEF StoredFor
    <3>2. [k \in 1 .. 0 |-> Top(t)] = <<>>
      OBVIOUS
    <3>3. collected[t] = <<>> /\ collected \in [Threads -> Seq(Nat)]
      BY <1>1 DEF EmptyHanded, Ending, TypeOK
    <3>. QED
      BY <3>1, <3>2, <3>3
  <2>. QED
    BY <2>1, <2>2
<1>. QED
  BY <1>3, <1>6, <1>7, <1>8, IsDeliver

LEMMA EntryHeld ==
  ASSUME TypeOK, TypeOK', NEW t \in Threads, NEW i \in DOMAIN slices[t], slices'[t] = slices[t],
         IsNested(t, i)' <=> IsNested(t, i), NEW h \in Nat, Held(t, i)' = h
  PROVE  Entry(t, i)' = [Entry(t, i) EXCEPT !.held = h]
<1>. DEFINE e == Entry(t, i)
            q == [e EXCEPT !.held = h]
            r == [slice |-> slices[t][i], held |-> h, nested |-> IsNested(t, i)]
<1>1. e \in Entries /\ slices[t][i] \in Nat /\ IsNested(t, i) \in BOOLEAN
  BY EntryTypes DEF IsNested
<1>2. e.slice = slices[t][i] /\ e.nested = IsNested(t, i)
  BY DEF Entry
<1>. HIDE DEF e
<1>3. q \in Entries /\ r \in Entries
  BY <1>1 DEF Entries
<1>4. q.slice = e.slice /\ q.held = h /\ q.nested = e.nested
  BY <1>1 DEF Entries
<1>5. r.slice = slices[t][i] /\ r.held = h /\ r.nested = IsNested(t, i)
  OBVIOUS
<1>6. \A a, b \in Entries : a.slice = b.slice /\ a.held = b.held /\ a.nested = b.nested => a = b
  BY DEF Entries
<1>. HIDE DEF q, r
<1>7. r = q
  BY <1>2, <1>3, <1>4, <1>5, <1>6
<1>8. IsNested(t, i)' = IsNested(t, i)
  BY DEF IsNested
<1>9. Entry(t, i)' = r
  BY <1>8 DEF Entry, r
<1>. QED
  BY <1>7, <1>9 DEF e, q

\* A step of the watchdog on the store is seen at the one open slice that owns
\* the samples, if there is one.
LEMMA OneHeld ==
  ASSUME TypeOK, TypeOK', OpenOnce, UNCHANGED <<pc, slices, finished>>,
         NEW o, \A s \in SliceIds : s # o => StoredFor(s)' = StoredFor(s),
         NEW h \in Nat, StoredFor(o)' = h,
         NEW t \in Threads, NEW i \in DOMAIN slices[t], slices[t][i] = o
  PROVE  /\ OpenOf(t)' = [OpenOf(t) EXCEPT ![i] = [Entry(t, i) EXCEPT !.held = h]]
         /\ \A u \in Threads : u # t => OpenOf(u)' = OpenOf(u)
<1>1. \A u \in Threads : \A j : IsNested(u, j)' <=> IsNested(u, j)
  BY DEF IsNested
<1>2. \A u \in Threads : \A j \in DOMAIN slices[u] :
        u # t \/ j # i => Held(u, j)' = Held(u, j)
  <2>. SUFFICES ASSUME NEW u \in Threads, NEW j \in DOMAIN slices[u], u # t \/ j # i
                PROVE  Held(u, j)' = Held(u, j)
    OBVIOUS
  <2>1. slices[u][j] # o /\ slices[u][j] \in SliceIds
    BY EntryTypes DEF OpenOnce
  <2>. QED
    BY <2>1 DEF Held, StoredFor
<1>3. Held(t, i)' = h
  BY DEF Held, StoredFor
<1>4. Entry(t, i)' = [Entry(t, i) EXCEPT !.held = h]
  BY <1>1, <1>3, EntryHeld
<1>5. \A j \in DOMAIN slices[t] : j # i => Entry(t, j)' = Entry(t, j)
  BY <1>1, <1>2, EntryKept
<1>6. OpenOf(t)' = [OpenOf(t) EXCEPT ![i] = [Entry(t, i) EXCEPT !.held = h]]
  BY <1>4, <1>5 DEF OpenOf
<1>7. \A u \in Threads : u # t => OpenOf(u)' = OpenOf(u)
  BY <1>1, <1>2, OpenKept
<1>. QED
  BY <1>6, <1>7

LEMMA NoneHeld ==
  ASSUME TypeOK, UNCHANGED <<pc, slices, finished>>,
         NEW o, \A s \in SliceIds : s # o => StoredFor(s)' = StoredFor(s),
         \A t \in Threads : \A i \in DOMAIN slices[t] : slices[t][i] # o
  PROVE  \A t \in Threads : OpenOf(t)' = OpenOf(t)
<1>. SUFFICES ASSUME NEW t \in Threads, NEW i \in DOMAIN slices[t]
              PROVE  Held(t, i)' = Held(t, i) /\ (IsNested(t, i)' <=> IsNested(t, i))
  BY OpenKept
<1>1. slices[t][i] \in SliceIds /\ slices[t][i] # o
  BY EntryTypes
<1>. QED
  BY <1>1 DEF Held, StoredFor, IsNested

\* A claim for another slice costs the owner its samples: the watchdog's slice
\* is younger than the owner, so a slice began in the owner if that is open.
LEMMA ClaimForgets ==
  ASSUME RefinementInv, TypeOK', WdClaim
  PROVE  Attribution!Next \/ UNCHANGED Attribution!vars
<1>. TypeOK /\ OpenOnce /\ StackShape /\ Latest
  BY DEF RefinementInv, AgeInv, TypeInv, MapInv, LossInv
<1>1. /\ wdPc = "claim" /\ UNCHANGED <<pc, slices, finished, collected, wdSlice>>
      /\ samplesSliceId' = wdSlice
      /\ samples' = IF samplesSliceId # wdSlice THEN <<>> ELSE samples
  BY DEF WdClaim, Claimed, loopVars
<1>2. CASE samplesSliceId = wdSlice
  <2>1. \A t \in Threads : OpenOf(t)' = OpenOf(t)
    BY <1>1, <1>2, ThreadKept
  <2>. QED
    BY <1>1, <2>1, Invisible
<1>3. CASE samplesSliceId # wdSlice
  <2>0. PICK o \in Nat : o = samplesSliceId
    BY DEF TypeOK
  <2>1. \A s : StoredFor(s)' = 0 /\ (s # o => StoredFor(s) = 0)
    <3>1. Len(<<>>) = 0
      OBVIOUS
    <3>. QED
      BY <1>1, <1>3, <2>0, <3>1 DEF StoredFor
  <2>2. CASE \A t \in Threads : \A i \in DOMAIN slices[t] : slices[t][i] # o
    <3>1. \A t \in Threads : OpenOf(t)' = OpenOf(t)
      BY <1>1, <2>1, <2>2, NoneHeld
    <3>. QED
      BY <1>1, <3>1, Invisible
  <2>3. ASSUME NEW t \in Threads, NEW i \in DOMAIN slices[t], slices[t][i] = o
        PROVE  Attribution!Next
    <3>1. o < wdSlice /\ wdSlice \in Nat
      BY <1>1, <1>3, <2>0 DEF Latest, TypeOK
    <3>2. IsNested(t, i)
      <4>. SUFFICES ASSUME ~IsNested(t, i) PROVE FALSE
        OBVIOUS
      <4>1. i = Len(slices[t]) /\ slices[t] # <<>>
        BY EntryTypes DEF IsNested
      <4>2. Top(t) = o
        BY <2>3, <4>1 DEF Top
      <4>3. OnLatest(t)
        BY <4>1 DEF IsNested, OnLatest, Ending, StackShape, Quiet, TypeOK
      <4>. QED
        BY <2>0, <3>1, <4>2, <4>3 DEF Latest
    <3>3. /\ OpenOf(t)' = [OpenOf(t) EXCEPT ![i] = [Entry(t, i) EXCEPT !.held = 0]]
          /\ \A u \in Threads : u # t => OpenOf(u)' = OpenOf(u)
      BY <1>1, <2>1, <2>3, OneHeld
    <3>. QED
      BY <1>1, <3>2, <3>3, IsForget
  <2>. QED
    BY <2>2, <2>3
<1>. QED
  BY <1>2, <1>3

LEMMA StoreObserves ==
  ASSUME RefinementInv, TypeOK', WdStore
  PROVE  Attribution!Next \/ UNCHANGED Attribution!vars
<1>. TypeOK /\ OpenOnce
  BY DEF RefinementInv, AgeInv, TypeInv, MapInv
<1>1. UNCHANGED <<pc, slices, finished, collected, samplesSliceId>>
  BY DEF WdStore, loopVars
<1>2. CASE Len(samples) < MaxSamples
  <2>0. PICK o \in Nat, h \in Nat : o = samplesSliceId /\ h = Len(samples) + 1
    <3>1. samplesSliceId \in Nat /\ Len(samples) + 1 \in Nat
      BY DEF TypeOK
    <3>. QED
      BY <3>1
  <2>1. StoredFor(o)' = h /\ StoredFor(o) = Len(samples)
    <3>1. samples' = Append(samples, wdFrames)
      BY <1>2 DEF WdStore, Stored
    <3>2. Len(samples') = Len(samples) + 1
      BY <3>1 DEF TypeOK
    <3>. QED
      BY <1>1, <2>0, <3>2 DEF StoredFor
  <2>2. \A s : s # o => StoredFor(s)' = StoredFor(s)
    BY <1>1, <2>0 DEF StoredFor
  <2>3. CASE \A t \in Threads : \A i \in DOMAIN slices[t] : slices[t][i] # o
    <3>1. \A t \in Threads : OpenOf(t)' = OpenOf(t)
      BY <1>1, <2>2, <2>3, NoneHeld
    <3>. QED
      BY <1>1, <3>1, Invisible
  <2>4. ASSUME NEW t \in Threads, NEW i \in DOMAIN slices[t], slices[t][i] = o
        PROVE  Attribution!Next
    <3>1. Held(t, i) < MaxSamples /\ Held(t, i) + 1 = h
      BY <1>2, <2>0, <2>1, <2>4 DEF Held
    <3>2. /\ OpenOf(t)' = [OpenOf(t) EXCEPT ![i] = [Entry(t, i) EXCEPT !.held = h]]
          /\ \A u \in Threads : u # t => OpenOf(u)' = OpenOf(u)
      BY <1>1, <2>1, <2>2, <2>4, OneHeld
    <3>3. [Entry(t, i) EXCEPT !.held = h] = [Entry(t, i) EXCEPT !.held = @ + 1]
      BY <3>1 DEF Entry
    <3>. QED
      BY <1>1, <3>1, <3>2, <3>3, IsObserve
  <2>. QED
    BY <2>3, <2>4
<1>3. CASE ~(Len(samples) < MaxSamples)
  <2>1. samples' = samples
    BY <1>3 DEF WdStore, Stored
  <2>2. \A t \in Threads : OpenOf(t)' = OpenOf(t)
    BY <1>1, <2>1, ThreadKept
  <2>. QED
    BY <1>1, <2>2, Invisible
<1>. QED
  BY <1>2, <1>3

LEMMA ForkForks ==
  ASSUME RefinementInv, TypeOK', NEW t \in Threads, Fork(t)
  PROVE  Attribution!Next
<1>. TypeOK
  BY DEF RefinementInv, AgeInv, TypeInv
<1>1. /\ pc'[t] = pc[t] /\ slices'[t] = slices[t] /\ finished'[t] = finished[t]
      /\ \A u \in Threads : u # t => slices'[u] = <<>>
      /\ collected' = [u \in Threads |-> IF u = t THEN collected[t] ELSE <<>>]
      /\ samplesSliceId' = 0
  BY DEF Fork, Reinit
<1>2. ASSUME NEW i \in DOMAIN slices[t]
      PROVE  Entry(t, i)' = [Entry(t, i) EXCEPT !.held = 0]
  <2>1. slices[t][i] # 0
    BY EntryTypes
  <2>2. Held(t, i)' = 0 /\ (IsNested(t, i)' <=> IsNested(t, i))
    BY <1>1, <2>1 DEF Held, StoredFor, IsNested
  <2>. QED
    BY <1>1, <2>2, EntryHeld
<1>3. OpenOf(t)' = [i \in DOMAIN slices[t] |-> [Entry(t, i) EXCEPT !.held = 0]]
  BY <1>1, <1>2 DEF OpenOf
<1>4. \A u \in Threads : u # t => OpenOf(u)' = <<>>
  <2>1. DOMAIN <<>> = {}
    OBVIOUS
  <2>2. \A u \in Threads : u # t => OpenOf(u)' = [i \in {} |-> Entry(u, i)']
    BY <1>1, <2>1 DEF OpenOf
  <2>. QED
    BY <2>2
<1>. QED
  BY <1>1, <1>3, <1>4, IsFork

\* Everything else does not show: a start is not a slice until it is published,
\* and where a thread waits and what the watchdog has read are details.
LEMMA OtherStepsInvisible ==
  ASSUME RefinementInv,
         \/ \E t \in Threads : \/ StartSlice(t) \/ FinishAcquire(t) \/ LoopEnds(t)
                               \/ FinishPeek(t) /\ ~NothingStored(t)
         \/ WdWake \/ WdAge \/ WdIdent \/ WdCapture \/ WdRecheck \/ WdAcquire
         \/ Tick \/ UNCHANGED vars
  PROVE  UNCHANGED Attribution!vars
<1>. TypeOK /\ StackShape
  BY DEF RefinementInv, AgeInv, TypeInv, LossInv
<1>1. UNCHANGED <<samples, samplesSliceId, slices, finished, collected>>
  BY DEF StartSlice, FinishAcquire, LoopEnds, FinishPeek, WdWake, WdAge, WdIdent, WdCapture,
     WdRecheck, WdAcquire, Tick, vars, store, loopVars
<1>2. ASSUME NEW t \in Threads,
             StartSlice(t) \/ FinishAcquire(t) \/ LoopEnds(t) \/ (FinishPeek(t) /\ ~NothingStored(t))
      PROVE  \A u \in Threads : OpenOf(u)' = OpenOf(u)
  <2>1. \A u \in Threads : u # t => pc'[u] = pc[u]
    BY <1>2 DEF StartSlice, FinishAcquire, LoopEnds, FinishPeek, Goto, TypeOK
  <2>2. \/ /\ pc[t] \in {"idle", "gone", "publish", "running"}
           /\ pc'[t] \in {"idle", "gone", "publish", "running"}
        \/ Ending(t) /\ Ending(t)'
    BY <1>2 DEF StartSlice, FinishAcquire, LoopEnds, FinishPeek, Goto, TypeOK, Ending
  <2>3. \A i : Held(t, i)' = Held(t, i) /\ (IsNested(t, i)' <=> IsNested(t, i))
    BY <1>1, <2>2 DEF Held, StoredFor, IsNested, Ending
  <2>. QED
    BY <1>1, <2>1, <2>3, OpenKept, ThreadKept
<1>3. ASSUME WdWake \/ WdAge \/ WdIdent \/ WdCapture \/ WdRecheck \/ WdAcquire \/ Tick
             \/ UNCHANGED vars
      PROVE  \A u \in Threads : OpenOf(u)' = OpenOf(u)
  <2>1. UNCHANGED pc
    BY <1>3 DEF WdWake, WdAge, WdIdent, WdCapture, WdRecheck, WdAcquire, Tick, vars, loopVars
  <2>. QED
    BY <1>1, <2>1, ThreadKept
<1>4. \A u \in Threads : OpenOf(u)' = OpenOf(u)
  BY <1>2, <1>3
<1>. QED
  BY <1>1, <1>4, Invisible

\* Where slices run one at a time the sampler keeps its promise, for any number
\* of threads, of nested wrappers, of samples and of forks (cpu_sampler.py:186-255):
\* a sample of the innermost open slice is never dropped, a late one is never
\* seen, and what is handed over is exactly what was taken.
THEOREM SamplerAttributes == ASSUME ~Overlap PROVE Spec => ImplementsAttribution
<1>1. Init => Attribution!Init
  <2>. SUFFICES ASSUME Init PROVE Attribution!Init
    OBVIOUS
  <2>1. \A t \in Threads : slices[t] = <<>> /\ collected = [u \in Threads |-> <<>>]
    BY DEF Init
  <2>2. DOMAIN <<>> = {}
    OBVIOUS
  <2>3. \A t \in Threads : OpenOf(t) = <<>>
    <3>. SUFFICES ASSUME NEW t \in Threads PROVE OpenOf(t) = <<>>
      OBVIOUS
    <3>1. DOMAIN OpenOf(t) = {} /\ OpenOf(t) = [i \in DOMAIN OpenOf(t) |-> OpenOf(t)[i]]
      BY <2>1, <2>2 DEF OpenOf
    <3>. QED
      BY <3>1
  <2>4. Opened = [t \in Threads |-> <<>>]
    BY <2>3 DEF Opened
  <2>. QED
    BY <2>4 DEF Init, Attribution!Init, Opened, OpenOf, Entry, Held
<1>2. RefinementInv /\ RefinementInv' /\ [Next]_vars => [Attribution!Next]_(Attribution!vars)
  <2>. SUFFICES ASSUME RefinementInv, RefinementInv', [Next]_vars
                PROVE  Attribution!Next \/ UNCHANGED Attribution!vars
    OBVIOUS
  <2>1. TypeOK'
    BY DEF RefinementInv, AgeInv, TypeInv
  <2>2. ASSUME NEW t \in Threads, LoopThread(t)
        PROVE  Attribution!Next \/ UNCHANGED Attribution!vars
    BY <2>1, <2>2, PublishBegins, ClearFinishes, ReturnDelivers, OtherStepsInvisible
       DEF LoopThread, Epilogue
  <2>3. ASSUME NEW t \in Threads, Fork(t)
        PROVE  Attribution!Next
    BY <2>1, <2>3, ForkForks
  <2>4. CASE WatchdogStep \/ Tick \/ UNCHANGED vars
    BY <2>1, <2>4, ClaimForgets, StoreObserves, OtherStepsInvisible DEF WatchdogStep
  <2>. QED
    BY <2>2, <2>3, <2>4 DEF Next
<1>3. AgeInv /\ SerialInv /\ LossInv /\ MapInv => RefinementInv
  BY DEF RefinementInv
<1>. QED
  BY <1>1, <1>2, <1>3, AgeInvariant, SerialInvariant, LossInvariant, MapInvariant, PTL
     DEF Spec, ImplementsAttribution, Attribution!Spec
=============================================================================
