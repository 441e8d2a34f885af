----------------------------- MODULE SetupProofs -----------------------------
(* The invariants of Setup for any threads and loops, any number of forks,   *)
(* and forks at any moment.                                                  *)
EXTENDS Setup, FiniteSetTheorems, TLAPS

-----------------------------------------------------------------------------
(* The inductive invariant.                                                  *)

\* TypeOK, with "at most one" said without counting.
Types ==
  /\ alive \subseteq Threads /\ alive # {}
  /\ running \in [Threads -> Loops \cup {None}]
  /\ layers \in [Loops -> Nat]
  /\ flagged = {l \in Loops : layers[l] > 0}
  /\ watchdogs \in Nat /\ forkHooks \in Nat
  /\ pc \in [Threads -> {"user", "hooks", "hooks_configured"} \cup SetupLabels]

\* Setup calls do not overlap, and a thread that starts is in none.
OneSetup ==
  /\ \A t, u \in alive : pc[t] \in SetupLabels /\ pc[u] \in SetupLabels => t = u
  /\ \A t \in Threads \ alive : pc[t] = "user"

\* How far detect_slow_tasks got: when a call is over, the flag is set, and the
\* hook is registered as well unless a fork tore the two apart.
DetectProgress ==
  /\ \A t \in alive : /\ pc[t] = "register_hook" => detectConfigured
                      /\ pc[t] \in {"patch", "autostart"} => detectConfigured /\ hookRegistered
                      /\ pc[t] = "hooks_configured" => detectReturned
  /\ chained \/ detectReturned => detectConfigured
  /\ ~tornDetect /\ detectConfigured =>
       hookRegistered \/ \E t \in alive : pc[t] = "register_hook"

\* A detect_slow_tasks that is over leaves no thread between flag and hook.
HookInPlace ==
  ~tornDetect =>
    /\ chained \/ detectReturned => hookRegistered
    /\ activatedIn \subseteq flagged

\* How far start_cpu_sampling got.  A process with the mark has a hook that starts
\* a watchdog in its children, and has one itself unless that failed.
StartProgress ==
  /\ samplerStarted => forkHooks > 0 /\ (~restartFailed => watchdogs > 0)
  /\ \A t \in alive : /\ pc[t] \in {"register_at_fork", "mark"} => watchdogs > 0
                      /\ pc[t] = "mark" => forkHooks > 0

\* As long as no fork fell between hook and mark, the hooks are exactly those of
\* the steps taken, and no more watchdogs than that.
Starting(t) == pc[t] \in {"spawn", "register_at_fork", "mark"}
Counted ==
  ~tornStart =>
    /\ samplerStarted => watchdogs <= 1 /\ forkHooks = 1
    /\ ~samplerStarted /\ (\A t \in alive : pc[t] \notin {"register_at_fork", "mark"})
         => watchdogs = 0 /\ forkHooks = 0
    /\ \A t \in alive :
         /\ Starting(t) => ~samplerStarted
         /\ pc[t] = "register_at_fork" => watchdogs = 1 /\ forkHooks = 0
         /\ pc[t] = "mark" => watchdogs = 1 /\ forkHooks = 1

SetupInv ==
  /\ Types
  /\ OneSetup
  /\ DetectProgress
  /\ StartProgress
  /\ Counted
  /\ HookInPlace
  /\ PatchedOnce

-----------------------------------------------------------------------------
(* Steps.                                                                    *)

LEMMA SetupInit == Init => SetupInv
  BY ConstantsAssumption
  DEF Init, SetupInv, Types, OneSetup, DetectProgress, StartProgress, Counted, PatchedOnce,
      HookInPlace, Starting, SetupLabels

\* The start, the end and the fork of a thread, and its loops.
LEMMA ApplicationStep ==
  ASSUME SetupInv, NEW t \in Threads, Application(t)
  PROVE  SetupInv'
<1>. USE ConstantsAssumption
     DEF SetupInv, Types, OneSetup, DetectProgress, StartProgress, Counted,
         PatchedOnce, HookInPlace, SetupLabels, Starting, At, process, loopVars, flags,
         samplerVars, calls, ghosts, tears
<1>1. CASE StartThread(t)
  BY <1>1 DEF StartThread
<1>2. CASE LeaveLoop(t)
  BY <1>2 DEF LeaveLoop
<1>3. CASE \E l \in Loops : RunLoop(t, l)
  BY <1>3 DEF RunLoop
<1>4. CASE Fork(t)
  <2>1. /\ alive' = {t}
        /\ pc' = [u \in Threads |-> "user"]
        /\ running' = [u \in Threads |-> IF u = t THEN running[t] ELSE None]
        /\ UNCHANGED <<flags, fresh, flagged, layers, samplerStarted, forkHooks, detectReturned,
                       activatedIn>>
    BY <1>4 DEF Fork
  <2>2. ~chained'
    BY <1>4 DEF Fork
  <2>3. PICK n \in 0 .. (IF samplerStarted THEN forkHooks ELSE 0) :
          /\ watchdogs' = n
          /\ restartFailed' = (n < IF samplerStarted THEN forkHooks ELSE 0)
    BY <1>4 DEF Fork, ReinitAfterFork
  <2>4. /\ ~tornStart' => ~tornStart /\ \A u \in alive : pc[u] # "mark"
        /\ ~tornDetect' => ~tornDetect /\ \A u \in alive : pc[u] # "register_hook"
    BY <1>4, Zenon DEF Fork
  <2>5. Types' /\ OneSetup'
    BY <2>1, <2>3
  <2>6. DetectProgress' /\ HookInPlace' /\ PatchedOnce'
    BY <2>1, <2>2, <2>4
  <2>7. StartProgress'
    <3>1. samplerStarted /\ ~restartFailed' => ~(n < forkHooks)
      BY <2>3, Zenon
    <3>2. samplerStarted => n \in 0 .. forkHooks /\ watchdogs' = n
      BY <2>3, Zenon
    <3>3. samplerStarted => forkHooks > 0
      OBVIOUS
    <3>4. samplerStarted /\ ~restartFailed' => watchdogs' > 0
      <4>1. \A a, b \in Int : a \in 0 .. b /\ ~(a < b) /\ b > 0 => a > 0
        OBVIOUS
      <4>2. forkHooks \in Int /\ n \in Int
        OBVIOUS
      <4>. QED
        BY <3>1, <3>2, <3>3, <4>1, <4>2, Zenon
    <3>. QED
      BY <2>1, <3>3, <3>4
  <2>8. ASSUME ~tornStart' PROVE Counted'
    <3>1. ~tornStart /\ \A u \in alive : pc[u] # "mark"
      BY <2>4, <2>8
    <3>2. samplerStarted => forkHooks = 1 /\ watchdogs' <= 1
      BY <2>3, <3>1
    <3>3. ~samplerStarted => forkHooks = 0 /\ watchdogs' = 0
      BY <2>3, <3>1
    <3>. QED
      BY <2>1, <3>2, <3>3
  <2>. QED
    BY <2>5, <2>6, <2>7, <2>8
<1>. QED
  BY <1>1, <1>2, <1>3, <1>4 DEF Application

\* A call of start_cpu_sampling, or of detect_slow_tasks, is over.
LEMMA ReturnStep ==
  ASSUME SetupInv, NEW t \in Threads, Starting(t), t \in alive, SamplingReturns(t),
         UNCHANGED <<loopVars, flags, process, watchdogs, forkHooks>>,
         \/ pc[t] = "spawn" /\ UNCHANGED samplerStarted
         \/ pc[t] = "mark" /\ samplerStarted' = TRUE
  PROVE  SetupInv'
<1>. USE ConstantsAssumption
     DEF SetupInv, Types, OneSetup, SetupLabels, Starting, process, loopVars, flags
<1>1. /\ pc' = [pc EXCEPT ![t] = "user"]
      /\ UNCHANGED <<activatedIn, tears>>
  BY DEF SamplingReturns, Goto
<1>2. ~chained' /\ (detectReturned' <=> detectReturned \/ chained)
  BY Zenon DEF SamplingReturns
<1>3. Types' /\ OneSetup' /\ PatchedOnce'
  BY <1>1 DEF PatchedOnce
<1>4. DetectProgress' /\ HookInPlace'
  <2>1. /\ chained' \/ detectReturned' => detectConfigured'
        /\ ~tornDetect' /\ (chained' \/ detectReturned') => hookRegistered'
    BY <1>1, <1>2, Zenon DEF DetectProgress, HookInPlace, tears
  <2>2. \A u \in alive : pc'[u] = pc[u] \/ pc'[u] = "user"
    BY <1>1
  <2>3. \A u \in alive : pc[u] = "hooks_configured" => detectReturned'
    BY <1>2, Zenon DEF DetectProgress
  <2>4. \A u \in alive : pc[u] = "register_hook" => pc'[u] = "register_hook"
    BY <1>1
  <2>5. DetectProgress'
    BY <1>1, <2>1, <2>2, <2>3, <2>4 DEF DetectProgress, tears
  <2>. QED
    BY <1>1, <2>1, <2>5 DEF HookInPlace, tears
<1>5. StartProgress' /\ Counted'
  BY <1>1 DEF StartProgress, Counted, tears
<1>. QED
  BY <1>3, <1>4, <1>5

\* detect_slow_tasks and start_cpu_sampling.
LEMMA SetupCallStep ==
  ASSUME SetupInv, NEW t \in Threads, SetupCall(t)
  PROVE  SetupInv'
<1>1. CASE SpawnFails(t)
  BY <1>1, ReturnStep DEF SpawnFails, At, Starting, samplerVars
<1>2. CASE MarkStarted(t)
  BY <1>2, ReturnStep DEF MarkStarted, At, Starting
<1>. USE ConstantsAssumption
     DEF SetupInv, Types, OneSetup, DetectProgress, StartProgress, Counted,
         PatchedOnce, HookInPlace, SetupLabels, Starting, At, Goto, process, loopVars, flags,
         samplerVars, ghosts, tears, SetupRunning
<1>3. CASE DetectSlowTasks(t)
  <2>1. CASE detectConfigured
    <3>1. UNCHANGED <<pc, loopVars, samplerVars, flags, process, chained, activatedIn, tears>>
      BY <1>3, <2>1 DEF DetectSlowTasks
    <3>2. detectReturned' /\ (~tornDetect => hookRegistered)
      BY <1>3, <2>1 DEF DetectSlowTasks
    <3>. QED
      BY <2>1, <3>1, <3>2
  <2>2. CASE ~detectConfigured
    BY <1>3, <2>2 DEF DetectSlowTasks
  <2>. QED
    BY <2>1, <2>2
<1>4. CASE Configure(t)
  BY <1>4 DEF Configure
<1>5. CASE RegisterHook(t)
  BY <1>5 DEF RegisterHook
<1>6. CASE PatchNow(t)
  BY <1>6 DEF PatchNow, EnsureLoopPatched, ToPatch, FlaggedWith
<1>7. ASSUME NEW c \in BOOLEAN, Autostart(t, c)
      PROVE  SetupInv'
  BY <1>7 DEF Autostart
<1>8. CASE StartCpuSampling(t)
  BY <1>8 DEF StartCpuSampling
<1>9. CASE Spawn(t)
  BY <1>9 DEF Spawn
<1>10. CASE RegisterAtFork(t)
  BY <1>10 DEF RegisterAtFork
<1>. QED
  BY <1>1, <1>2, <1>3, <1>4, <1>5, <1>6, <1>7, <1>8, <1>9, <1>10 DEF SetupCall

\* activate and deactivate.
LEMMA SwitchingStep ==
  ASSUME SetupInv, NEW t \in Threads, Switching(t)
  PROVE  SetupInv'
<1>. USE ConstantsAssumption
     DEF SetupInv, Types, OneSetup, DetectProgress, StartProgress, Counted,
         PatchedOnce, HookInPlace, SetupLabels, Starting, At, Goto, process, loopVars, flags,
         samplerVars, calls, ghosts, tears
<1>1. CASE Activate(t)
  BY <1>1 DEF Activate
<1>2. CASE RunHooks(t)
  BY <1>2 DEF RunHooks, EnsureLoopPatched, ToPatch, FlaggedWith
<1>3. CASE Deactivate(t)
  BY <1>3 DEF Deactivate
<1>. QED
  BY <1>1, <1>2, <1>3 DEF Switching

LEMMA SetupInvariant == Spec => []SetupInv
<1>1. SetupInv /\ [Next]_vars => SetupInv'
  <2>1. ASSUME SetupInv, NEW t \in Threads, Application(t) \/ SetupCall(t) \/ Switching(t)
        PROVE  SetupInv'
    BY <2>1, ApplicationStep, SetupCallStep, SwitchingStep
  <2>2. ASSUME SetupInv, UNCHANGED vars
        PROVE  SetupInv'
    BY <2>2
    DEF vars, process, loopVars, flags, samplerVars, calls, ghosts, tears, SetupInv, Types, OneSetup,
        DetectProgress, StartProgress, Counted, Starting, PatchedOnce, HookInPlace
  <2>. QED
    BY <2>1, <2>2 DEF Next
<1>. QED
  BY <1>1, SetupInit, PTL DEF Spec

-----------------------------------------------------------------------------
(* What it says.                                                             *)

\* Setup calls stay one at a time (a thread enters detect_slow_tasks or
\* start_cpu_sampling when no other is in one), and a loop carries
\* _aiocop_patched exactly when its methods were replaced (slow_tasks.py).
THEOREM SetupTypeCorrect == Spec => []TypeOK
<1>1. SetupInv => TypeOK
  <2>. SUFFICES ASSUME SetupInv PROVE TypeOK
    OBVIOUS
  <2>. DEFINE S == {t \in alive : pc[t] \in SetupLabels}
  <2>1. Cardinality(S) <= 1
    <3>1. CASE S = {}
      <4>1. Cardinality(S) = 0
        BY <3>1, FS_EmptySet
      <4>. QED
        BY <4>1
    <3>2. CASE S # {}
      <4>1. PICK t \in S : TRUE
        BY <3>2
      <4>2. S = {t}
        BY <4>1 DEF SetupInv, OneSetup
      <4>3. Cardinality(S) = 1
        BY <4>2, FS_Singleton
      <4>. QED
        BY <4>3
    <3>. QED
      BY <3>1, <3>2
  <2>2. {watchdogs, forkHooks} \subseteq Nat
    BY DEF SetupInv, Types
  <2>. QED
    BY <2>1, <2>2 DEF SetupInv, Types, TypeOK
<1>. QED
  BY <1>1, SetupInvariant, PTL

\* Where start_cpu_sampling said it is started, a watchdog runs, unless the restart
\* in this process failed: whichever thread forked and at whichever step of a setup
\* call, because the mark comes after the thread and after the fork hook
\* (cpu_sampler.py:118-127, 163-183).  A failed restart ends with its process: the
\* fork hook tries again in the children.
THEOREM StartedMeansSampled == Spec => []SamplingIsReal
<1>1. SetupInv => SamplingIsReal
  BY DEF SetupInv, StartProgress, SamplingIsReal
<1>. QED
  BY <1>1, SetupInvariant, PTL

\* A process has one watchdog at most, however often setup was called in it or in
\* its ancestors and however many starts and restarts failed, if neither it nor one
\* of its ancestors was forked between register_at_fork and the mark
\* (cpu_sampler.py:125-127).
THEOREM AtMostOneWatchdog == Spec => []OneWatchdog
<1>1. SetupInv => OneWatchdog
  <2>. SUFFICES ASSUME SetupInv, ~tornStart PROVE watchdogs <= 1
    BY DEF OneWatchdog
  <2>1. CASE samplerStarted \/ \E t \in alive : pc[t] \in {"register_at_fork", "mark"}
    BY <2>1 DEF SetupInv, Counted
  <2>2. CASE ~samplerStarted /\ \A t \in alive : pc[t] \notin {"register_at_fork", "mark"}
    BY <2>2 DEF SetupInv, Counted
  <2>. QED
    BY <2>1, <2>2
<1>. QED
  BY <1>1, SetupInvariant, PTL

\* _ensure_loop_patched replaces the methods of a loop once, however many setup
\* calls, activations and forks come by it (slow_tasks.py).
THEOREM LoopsPatchedOnce == Spec => []PatchedOnce
<1>1. SetupInv => PatchedOnce
  BY DEF SetupInv
<1>. QED
  BY <1>1, SetupInvariant, PTL

\* activate() after a detect_slow_tasks call returned, an ignored one included,
\* patches the loop it is called in, if neither this process nor one of its
\* ancestors was forked between the flag and the hook (slow_tasks.py:89-91): the
\* registered hook outlives forks and deactivations (state.py).
THEOREM ActivationPatches == Spec => []ActivatePatches
<1>1. SetupInv => ActivatePatches
  BY DEF SetupInv, HookInPlace, ActivatePatches
<1>. QED
  BY <1>1, SetupInvariant, PTL
=============================================================================
