------------------------- MODULE AuditedCallsProofs --------------------------
(* The invariants of AuditedCalls for any table of functions, any threads,   *)
(* any number of forks and of refused hooks.                                 *)
EXTENDS AuditedCalls, SequenceTheorems, TLAPS

-----------------------------------------------------------------------------
(* The inductive invariant.                                                  *)

There == Range(Targets) \ Missing

\* The targets that patch_audit_functions has been at.
Tried(n) == {Targets[i] : i \in {j \in DOMAIN Targets : j < n}}

\* What patched_functions says in the middle of patching, and once it is over: a
\* fork in the middle leaves names wrapped that it does not say, until the child
\* has patched as well.
Listed ==
  /\ \A f \in Functions : wrappers[f] > 0 \/ bound[f] > 0 => f \in There
  /\ patcher # Nobody => Range(patched) = Tried(next) \ Missing
  /\ patchConfigured => Range(patched) = There /\ patcher = Nobody
  /\ patcher # Nobody \/ patchConfigured =>
       InOrder(patched) /\ \A f \in Range(patched) : wrappers[f] > 0

\* As long as no fork hit the patching, what is wrapped is what it was at, once.
WrappedOnce ==
  ~torn => /\ \A f \in Functions : wrappers[f] <= 1 /\ bound[f] <= 1
           /\ patcher # Nobody => \A f \in Functions : wrappers[f] > 0 => f \in Tried(next)
           /\ patcher = Nobody /\ ~patchConfigured => \A f \in Functions : wrappers[f] = 0

\* One hook at most, and it listens to the main thread.
OneHook ==
  /\ hooks \in 0 .. 1 /\ (hooks > 0 => detectConfigured)
  /\ ~orphaned /\ hooks > 0 => mainThreadId = mainThread

AuditInv ==
  /\ TypeOK
  /\ Listed
  /\ WrappedOnce
  /\ OneHook

-----------------------------------------------------------------------------
(* Steps.                                                                    *)

LEMMA TargetFacts ==
  /\ Len(Targets) \in Nat /\ DOMAIN Targets = 1 .. Len(Targets)
  /\ \A i, j \in DOMAIN Targets : Targets[i] = Targets[j] => i = j
  /\ \A i \in DOMAIN Targets : Targets[i] \in Range(Targets)
  /\ There \subseteq Functions
  BY ConstantsAssumption, LenProperties DEF IsInjective, Range, There, Functions

LEMMA AuditInit == Init => AuditInv
<1>. SUFFICES ASSUME Init PROVE AuditInv
  OBVIOUS
<1>1. TypeOK
  BY ConstantsAssumption, TargetFacts DEF Init, TypeOK, NotBound, Nobody
<1>2. Listed /\ WrappedOnce /\ OneHook
  BY DEF Init, Listed, WrappedOnce, OneHook, NotBound
<1>. QED
  BY <1>1, <1>2 DEF AuditInv

LEMMA PatchStep ==
  ASSUME AuditInv, NEW t \in Threads, Patch(t)
  PROVE  AuditInv'
<1>. USE DEF AuditInv, Patch, MayCall, hookVars, processVars
<1>1. Tried(1) = {}
  BY TargetFacts DEF Tried
<1>2. Range(<<>>) = {} /\ InOrder(<<>>)
  BY DEF Range, InOrder
<1>3. TypeOK'
  BY ConstantsAssumption, TargetFacts DEF TypeOK
<1>4. Listed'
  BY <1>1, <1>2, ConstantsAssumption DEF Listed
<1>5. WrappedOnce' /\ OneHook'
  BY ConstantsAssumption DEF WrappedOnce, OneHook
<1>. QED
  BY <1>3, <1>4, <1>5

LEMMA PatchNextStep ==
  ASSUME AuditInv, PatchNext
  PROVE  AuditInv'
<1>. DEFINE f == Targets[next]
<1>1. next \in DOMAIN Targets /\ f \in Range(Targets) /\ next' = next + 1
  BY TargetFacts DEF AuditInv, TypeOK, PatchNext
<1>2. Tried(next') = Tried(next) \cup {f} /\ f \notin Tried(next)
  BY <1>1, TargetFacts DEF Tried
<1>3. /\ UNCHANGED <<patchConfigured, patcher, bound, hookVars, processVars>>
      /\ patcher # Nobody /\ ~patchConfigured
  BY DEF AuditInv, Listed, PatchNext
<1>4. CASE f \in Missing
  <2>1. UNCHANGED <<wrappers, patched>>
    BY <1>4 DEF PatchNext, Found
  <2>2. TypeOK'
    BY <1>1, <1>3, <2>1, TargetFacts DEF AuditInv, TypeOK, hookVars, processVars
  <2>3. Listed' /\ WrappedOnce' /\ OneHook'
    BY <1>2, <1>3, <1>4, <2>1 DEF AuditInv, Listed, WrappedOnce, OneHook, hookVars, processVars
  <2>. QED
    BY <2>2, <2>3 DEF AuditInv
<1>5. CASE f \notin Missing
  <2>1. /\ wrappers' = [wrappers EXCEPT ![f] = @ + 1]
        /\ patched' = Append(patched, f)
    BY <1>5 DEF PatchNext, Found
  <2>2. f \in There /\ f \in Functions
    BY <1>1, <1>5, TargetFacts DEF There
  <2>3. TypeOK'
    BY <1>1, <1>3, <2>1, <2>2, TargetFacts DEF AuditInv, TypeOK, hookVars, processVars
  <2>4. patched \in Seq(Functions) /\ f \notin Range(patched)
    BY <1>2, <1>3 DEF AuditInv, TypeOK, Listed
  <2>5. Range(patched') = Range(patched) \cup {f} /\ (InOrder(patched) => InOrder(patched)')
    <3>1. /\ Len(patched') = Len(patched) + 1 /\ Len(patched) \in Nat
          /\ DOMAIN patched = 1 .. Len(patched)
          /\ DOMAIN patched' = 1 .. Len(patched) + 1
          /\ \A i \in 1 .. Len(patched) : patched'[i] = patched[i]
          /\ patched'[Len(patched) + 1] = f
      BY <2>1, <2>2, <2>4, AppendProperties, LenProperties
    <3>2. Range(patched') = Range(patched) \cup {f}
      BY <3>1 DEF Range
    <3>3. ASSUME InOrder(patched), NEW i \in DOMAIN patched', NEW j \in DOMAIN patched',
                 NEW k \in DOMAIN Targets, NEW l \in DOMAIN Targets,
                 i < j, patched'[i] = Targets[k], patched'[j] = Targets[l]
          PROVE  k < l
      <4>1. CASE j \in DOMAIN patched
        BY <3>1, <3>3, <4>1 DEF InOrder
      <4>2. CASE j = Len(patched) + 1
        <5>1. l = next
          BY <1>1, <3>1, <3>3, <4>2, TargetFacts
        <5>2. patched'[i] \in Tried(next)
          BY <1>3, <3>1, <3>3, <4>2 DEF AuditInv, Listed, Range
        <5>3. PICK m \in DOMAIN Targets : m < next /\ patched'[i] = Targets[m]
          BY <5>2 DEF Tried
        <5>4. k = m
          BY <3>3, <5>3, TargetFacts
        <5>. QED
          BY <5>1, <5>3, <5>4
      <4>. QED
        BY <3>1, <3>3, <4>1, <4>2
    <3>4. InOrder(patched) => InOrder(patched)'
      BY <3>3 DEF InOrder
    <3>. QED
      BY <3>2, <3>4
  <2>6. Listed'
    BY <1>2, <1>3, <1>5, <2>1, <2>2, <2>5 DEF AuditInv, TypeOK, Listed
  <2>7. WrappedOnce'
    BY <1>2, <1>3, <2>1, <2>2 DEF AuditInv, TypeOK, WrappedOnce, processVars
  <2>8. OneHook'
    BY <1>3 DEF AuditInv, OneHook, hookVars, processVars
  <2>. QED
    BY <2>3, <2>6, <2>7, <2>8 DEF AuditInv
<1>. QED
  BY <1>4, <1>5

LEMMA PatchEndsStep ==
  ASSUME AuditInv, PatchEnds
  PROVE  AuditInv'
<1>. USE DEF AuditInv, PatchEnds, hookVars, processVars
<1>1. Tried(next) = Range(Targets)
  BY TargetFacts DEF TypeOK, Tried, Range
<1>2. TypeOK'
  BY TargetFacts DEF TypeOK
<1>3. Listed' /\ WrappedOnce' /\ OneHook'
  BY <1>1 DEF Listed, WrappedOnce, OneHook, There
<1>. QED
  BY <1>2, <1>3

LEMMA StartDetectionStep ==
  ASSUME AuditInv, NEW t \in Threads, NEW outcome \in {"added", "kept_out", "refused"},
         StartDetection(t, outcome)
  PROVE  AuditInv'
<1>. USE DEF AuditInv, StartDetection, MainThreadSeen, patchVars, processVars
<1>1. TypeOK' /\ Listed' /\ WrappedOnce'
  BY DEF TypeOK, Listed, WrappedOnce
<1>2. OneHook'
  <2>1. hooks = 0
    BY DEF OneHook
  <2>2. /\ hooks' = IF outcome = "added" THEN 1 ELSE 0
        /\ mainThreadId' = mainThread' /\ (orphaned' <=> orphaned)
    BY <2>1
  <2>3. outcome = "added" => detectConfigured'
    BY Zenon
  <2>. QED
    BY <2>2, <2>3 DEF OneHook
<1>. QED
  BY <1>1, <1>2

\* What the program does: threads, imports and forks.
LEMMA ProgramStep ==
  ASSUME AuditInv,
         \/ \E t \in Threads : Fork(t) \/ StartThread(t)
         \/ \E f \in Functions : Bind(f)
  PROVE  AuditInv'
<1>. USE ConstantsAssumption DEF AuditInv, patchVars, hookVars, processVars
<1>1. ASSUME NEW t \in Threads, Fork(t) PROVE AuditInv'
  <2>1. /\ alive' = {t} /\ mainThread' = t /\ patcher' = Nobody /\ next' = 0
        /\ UNCHANGED <<wrappers, patched, patchConfigured, bound, hookVars>>
    BY <1>1 DEF Fork
  <2>2. ~torn' => ~torn /\ patcher = Nobody
    BY <1>1, Zenon DEF Fork
  <2>3. ~orphaned' => ~orphaned /\ t = mainThread
    BY <1>1, Zenon DEF Fork
  <2>4. TypeOK'
    BY <2>1, TargetFacts DEF TypeOK
  <2>5. Listed'
    BY <2>1 DEF Listed
  <2>6. WrappedOnce'
    BY <2>1, <2>2 DEF WrappedOnce
  <2>7. OneHook'
    BY <2>1, <2>3 DEF OneHook
  <2>. QED
    BY <2>4, <2>5, <2>6, <2>7
<1>2. ASSUME NEW t \in Threads, StartThread(t) PROVE AuditInv'
  BY <1>2 DEF StartThread, TypeOK, Listed, WrappedOnce, OneHook
<1>3. ASSUME NEW f \in Functions, Bind(f) PROVE AuditInv'
  BY <1>3 DEF Bind, TypeOK, Listed, WrappedOnce, OneHook
<1>. QED
  BY <1>1, <1>2, <1>3

LEMMA AuditInvariant == Spec => []AuditInv
<1>1. AuditInv /\ UNCHANGED vars => AuditInv'
  BY DEF AuditInv, TypeOK, Listed, WrappedOnce, OneHook, vars, patchVars, hookVars, processVars
<1>2. AuditInv /\ [Next]_vars => AuditInv'
  BY <1>1, PatchStep, PatchNextStep, PatchEndsStep, StartDetectionStep, ProgramStep DEF Next
<1>. QED
  BY <1>2, AuditInit, PTL DEF Spec

-----------------------------------------------------------------------------
(* Calls.                                                                    *)

LEMMA CallTypes ==
  ASSUME TypeOK, NEW c \in Calls
  PROVE  /\ c.function \in Functions /\ c.thread \in alive
         /\ Through(c) \in Nat
         /\ Through(c) = wrappers[c.function] \/ Through(c) = bound[c.function]
         /\ \A g \in Inside[c.function] : g \in Functions /\ g \notin Native /\ g # c.function
  BY ConstantsAssumption DEF TypeOK, Calls, Through, Functions, NotBound

\* A function is wrapped, or has an event of its own, never both.
LEMMA RaisedOnce ==
  ASSUME NEW n \in Nat, NEW f, NEW b, n <= 1, f \in Native => n = 0
  PROVE  Raised(n, f, b) \in 0 .. 1
  BY DEF Raised

-----------------------------------------------------------------------------
(* What it says.                                                             *)

\* A second thread never enters patch_audit_functions, the position in the list
\* of targets stays in range, and a hook is registered only where
\* start_blocking_io_detection says so (audit_patcher.py:95-136,
\* blocking_io.py:98-112).
THEOREM AuditTypeCorrect == Spec => []TypeOK
<1>1. AuditInv => TypeOK
  BY DEF AuditInv
<1>. QED
  BY <1>1, AuditInvariant, PTL

\* No call is recorded twice under one name, whatever names, references from
\* before the patching, threads and forks outside of patching: the two flags keep
\* second wrappers and second hooks out, also after a hook was refused
\* (audit_patcher.py:95, blocking_io.py:98).
THEOREM NothingCountedTwice == Spec => []CountedOnce
<1>1. ASSUME AuditInv, ~torn, NEW c \in Calls, NEW g \in Functions
      PROVE  Recorded(c, g) <= 1
  <2>1. \A f \in Functions : /\ wrappers[f] \in Nat /\ wrappers[f] <= 1 /\ bound[f] <= 1
                             /\ f \in Native => wrappers[f] = 0 /\ ~(bound[f] > 0)
    BY <1>1, ConstantsAssumption DEF AuditInv, TypeOK, WrappedOnce, Listed, There
  <2>2. Through(c) \in Nat /\ Through(c) <= 1 /\ (c.function \in Native => Through(c) = 0)
    BY <1>1, <2>1, CallTypes DEF AuditInv
  <2>3. Events(c, g) \in 0 .. 1
    <3>1. CASE g = c.function
      <4>1. Raised(Through(c), g, c.nonBlocking) \in 0 .. 1
        BY <2>2, <3>1, RaisedOnce
      <4>2. g \notin Inside[c.function]
        BY <1>1, <3>1, CallTypes DEF AuditInv
      <4>. QED
        BY <3>1, <4>1, <4>2 DEF Events
    <3>2. CASE g # c.function
      <4>1. Raised(wrappers[g], g, c.nonBlocking) \in 0 .. 1
        BY <2>1, RaisedOnce
      <4>. QED
        BY <3>2, <4>1 DEF Events
    <3>. QED
      BY <3>1, <3>2
  <2>4. hooks = 0 \/ hooks = 1
    BY <1>1 DEF AuditInv, OneHook
  <2>5. \A h, e \in 0 .. 1 : h * e <= 1
    BY \A h \in 0 .. 1 : h = 0 \/ h = 1
  <2>. QED
    BY <2>3, <2>4, <2>5 DEF Recorded
<1>2. AuditInv => CountedOnce
  BY <1>1 DEF CountedOnce
<1>. QED
  BY <1>2, AuditInvariant, PTL

\* In a process whose ancestors were forked by main threads, the main thread's
\* blocking calls are recorded as soon as a hook is registered: _main_thread_id
\* stays the main thread's, whichever thread set aiocop up (blocking_io.py:104).
THEOREM MainThreadHeard == Spec => []BlockingCallsHeard
<1>1. ASSUME AuditInv, hooks > 0, ~orphaned, NEW c \in Calls,
             c.thread = mainThread, ~c.nonBlocking,
             c.function \in Native \/ Through(c) > 0
      PROVE  Recorded(c, c.function) > 0
  <2>1. hooks = 1 /\ c.thread = mainThreadId
    BY <1>1 DEF AuditInv, OneHook
  <2>2. Audits(c.function, c.nonBlocking)
    BY <1>1 DEF Audits
  <2>3. Through(c) \in Nat /\ c.function \notin Inside[c.function]
    BY <1>1, CallTypes DEF AuditInv
  <2>4. Raised(Through(c), c.function, c.nonBlocking) \in Nat \ {0}
    BY <1>1, <2>2, <2>3 DEF Raised
  <2>5. Events(c, c.function) \in Nat \ {0}
    BY <2>3, <2>4 DEF Events
  <2>. QED
    BY <2>1, <2>5 DEF Recorded
<1>2. AuditInv => BlockingCallsHeard
  BY <1>1 DEF BlockingCallsHeard
<1>. QED
  BY <1>2, AuditInvariant, PTL

\* Once patch_audit_functions is through, patched_functions names the functions
\* that have a wrapper, each once and in the order of FUNCTIONS_TO_PATCH: in a
\* child that was forked in the middle of it as well (audit_patcher.py:99-136).
THEOREM PatchedListIsTrue == Spec => []PatchedIsTrue
<1>1. ASSUME AuditInv, patchConfigured
      PROVE  InOrder(patched) /\ Range(patched) = {f \in Functions : wrappers[f] > 0}
  BY <1>1, TargetFacts DEF AuditInv, Listed
<1>2. AuditInv => PatchedIsTrue
  BY <1>1 DEF PatchedIsTrue
<1>. QED
  BY <1>2, AuditInvariant, PTL
=============================================================================
