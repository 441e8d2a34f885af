-------------------------------- MODULE Setup -------------------------------
(* Bringing monitoring up: detect_slow_tasks and the patching of event loops *)
(* (slow_tasks.py), start_cpu_sampling and its restart after fork            *)
(* (cpu_sampler.py), activate and its hooks (state.py).                      *)
(*                                                                           *)
(* The state is one process.  Fork continues with the child: it keeps the    *)
(* globals and the loops, and of the threads only the one that forked.       *)
(* Setup calls do not overlap one another, but loops run, activate() is      *)
(* called and the process forks on other threads between their steps.        *)
EXTENDS Integers, FiniteSets

CONSTANTS
  Threads,     \* user threads
  Loops,       \* event loops the process creates
  MaxForks     \* bound: generations of processes

None == "none"

ASSUME ConstantsAssumption == None \notin Loops /\ MaxForks \in Nat

VARIABLES
  alive,             \* the threads of this process
  running,           \* the loop each thread runs
  fresh,             \* loops not created yet
  flagged,           \* loops that carry _aiocop_patched
  layers,            \* how often the methods of each loop were replaced
  detectConfigured,  \* _detect_slow_tasks_configured
  hookRegistered,    \* _ensure_loop_patched is in _on_activate_hooks
  monitoringActive,  \* _monitoring_active
  samplerStarted,    \* _sampler_started
  watchdogs,         \* watchdog threads in this process
  forkHooks,         \* times _reinit_after_fork is registered with os
  forks,             \* forks so far
  pc,                \* what each thread is in the middle of
  chained,           \* start_cpu_sampling was called by detect_slow_tasks
  detectReturned,    \* for the properties: a detect_slow_tasks call is over,
  activatedIn,       \* the loops activate() then ran in,
  restartFailed,     \* a restart of the watchdog failed in this process,
  tornStart,         \* it or an ancestor was forked between fork hook and mark,
  tornDetect         \* or between the flag and the hook of detect_slow_tasks

process     == <<alive, forks>>
loopVars    == <<running, fresh, flagged, layers>>
flags       == <<detectConfigured, hookRegistered, monitoringActive>>
samplerVars == <<samplerStarted, watchdogs, forkHooks>>
calls       == <<pc, chained>>
tears       == <<restartFailed, tornStart, tornDetect>>
ghosts      == <<detectReturned, activatedIn, tears>>
vars        == <<process, loopVars, flags, samplerVars, calls, ghosts>>

Init ==
  /\ alive \in {{t} : t \in Threads}
  /\ running = [t \in Threads |-> None]
  /\ fresh = Loops
  /\ flagged = {}
  /\ layers = [l \in Loops |-> 0]
  /\ detectConfigured = FALSE
  /\ hookRegistered = FALSE
  /\ monitoringActive = FALSE
  /\ samplerStarted = FALSE
  /\ watchdogs = 0
  /\ forkHooks = 0
  /\ forks = 0
  /\ pc = [t \in Threads |-> "user"]
  /\ chained = FALSE
  /\ detectReturned = FALSE
  /\ activatedIn = {}
  /\ restartFailed = FALSE
  /\ tornStart = FALSE
  /\ tornDetect = FALSE

Goto(t, label) == pc' = [pc EXCEPT ![t] = label]
At(t, label)   == t \in alive /\ pc[t] = label

SetupLabels  == {"configure", "register_hook", "patch", "autostart",
                 "spawn", "register_at_fork", "mark"}
SetupRunning == \E t \in alive : pc[t] \in SetupLabels

-----------------------------------------------------------------------------
(* Faults the properties must catch, each a changed form of a definition     *)
(* below.                                                                    *)

\* The mark on the loop is not set,
FlaggedWithout(l) == flagged

\* or not looked at.
ToPatchAgain(l) == detectConfigured /\ l # None /\ layers[l] < 2

\* detect_slow_tasks leaves the later loops to nobody.
RegisterHookForgets(t) ==
  /\ At(t, "register_hook")
  /\ Goto(t, "patch")
  /\ UNCHANGED <<loopVars, samplerVars, ghosts, flags, process, chained>>

\* Every call starts a watchdog.
StartCpuSamplingAgain(t) ==
  /\ At(t, "user") /\ ~SetupRunning
  /\ Goto(t, "spawn")
  /\ UNCHANGED <<loopVars, samplerVars, ghosts, flags, process, chained>>

\* Started is said before the fork hook is in place.
SpawnMarks(t) ==
  /\ At(t, "spawn")
  /\ watchdogs' = watchdogs + 1
  /\ samplerStarted' = TRUE
  /\ Goto(t, "register_at_fork")
  /\ UNCHANGED <<loopVars, ghosts, flags, process, forkHooks, chained>>

-----------------------------------------------------------------------------
(* Threads and loops of the application.                                     *)

StartThread(t) ==
  /\ t \notin alive /\ alive # {}
  /\ alive' = alive \cup {t}
  /\ UNCHANGED <<loopVars, samplerVars, ghosts, flags, calls, forks>>

\* asyncio.run and its like: a new loop each time.
RunLoop(t, l) ==
  /\ At(t, "user") /\ running[t] = None
  /\ l \in fresh
  /\ fresh' = fresh \ {l}
  /\ running' = [running EXCEPT ![t] = l]
  /\ UNCHANGED <<samplerVars, ghosts, flags, process, calls, flagged, layers>>

LeaveLoop(t) ==
  /\ At(t, "user") /\ running[t] # None
  /\ running' = [running EXCEPT ![t] = None]
  /\ UNCHANGED <<samplerVars, ghosts, flags, process, calls, fresh, flagged, layers>>

-----------------------------------------------------------------------------
(* Patching: only the thread that runs a loop ever patches it.               *)

ToPatch(l) == detectConfigured /\ l # None /\ l \notin flagged

FlaggedWith(l) == flagged \cup {l}

EnsureLoopPatched(t) ==
  LET l == running[t] IN
  IF ToPatch(l)
  THEN /\ layers' = [layers EXCEPT ![l] = @ + 1]
       /\ flagged' = FlaggedWith(l)
  ELSE UNCHANGED <<layers, flagged>>

-----------------------------------------------------------------------------
(* detect_slow_tasks                                                         *)

\* A second call is ignored, and returns: also in a child whose parent was
\* forked before the first was through.
DetectSlowTasks(t) ==
  /\ At(t, "user") /\ ~SetupRunning
  /\ IF detectConfigured
     THEN detectReturned' = TRUE /\ UNCHANGED pc
     ELSE Goto(t, "configure") /\ UNCHANGED detectReturned
  /\ UNCHANGED <<loopVars, samplerVars, flags, process, chained, activatedIn, tears>>

Configure(t) ==
  /\ At(t, "configure")
  /\ detectConfigured' = TRUE
  /\ Goto(t, "register_hook")
  /\ UNCHANGED <<loopVars, samplerVars, ghosts, process, hookRegistered, monitoringActive, chained>>

RegisterHook(t) ==
  /\ At(t, "register_hook")
  /\ hookRegistered' = TRUE
  /\ Goto(t, "patch")
  /\ UNCHANGED <<loopVars, samplerVars, ghosts, process, detectConfigured, monitoringActive,
                 chained>>

PatchNow(t) ==
  /\ At(t, "patch")
  /\ EnsureLoopPatched(t)
  /\ Goto(t, "autostart")
  /\ UNCHANGED <<samplerVars, ghosts, flags, process, running, fresh, chained>>

\* The sampler is started unless it runs already, or cpu_sampling is False.
Autostart(t, cpuSampling) ==
  /\ At(t, "autostart")
  /\ IF cpuSampling /\ ~samplerStarted
     THEN Goto(t, "spawn") /\ chained' = TRUE /\ UNCHANGED detectReturned
     ELSE Goto(t, "user") /\ detectReturned' = TRUE /\ UNCHANGED chained
  /\ UNCHANGED <<loopVars, samplerVars, flags, process, activatedIn, tears>>

-----------------------------------------------------------------------------
(* start_cpu_sampling                                                        *)

\* A second call is ignored and changes nothing.
StartCpuSampling(t) ==
  /\ At(t, "user") /\ ~SetupRunning
  /\ ~samplerStarted
  /\ Goto(t, "spawn")
  /\ UNCHANGED <<loopVars, samplerVars, ghosts, flags, process, chained>>

\* The call is over, and with it the detect_slow_tasks it was part of.
SamplingReturns(t) ==
  /\ Goto(t, "user")
  /\ chained' = FALSE
  /\ detectReturned' = (detectReturned \/ chained)
  /\ UNCHANGED <<activatedIn, tears>>

Spawn(t) ==
  /\ At(t, "spawn")
  /\ watchdogs' = watchdogs + 1
  /\ Goto(t, "register_at_fork")
  /\ UNCHANGED <<loopVars, ghosts, flags, process, samplerStarted, forkHooks, chained>>

\* "can't start new thread": RuntimeError leaves both calls.
SpawnFails(t) ==
  /\ At(t, "spawn")
  /\ SamplingReturns(t)
  /\ UNCHANGED <<loopVars, samplerVars, flags, process>>

RegisterAtFork(t) ==
  /\ At(t, "register_at_fork")
  /\ forkHooks' = forkHooks + 1
  /\ Goto(t, "mark")
  /\ UNCHANGED <<loopVars, ghosts, flags, process, samplerStarted, watchdogs, chained>>

MarkStarted(t) ==
  /\ At(t, "mark")
  /\ samplerStarted' = TRUE
  /\ SamplingReturns(t)
  /\ UNCHANGED <<loopVars, flags, process, watchdogs, forkHooks>>

\* In the child each registered _reinit_after_fork starts a watchdog, if
\* sampling had been started.  A thread may fail to start there as well: the
\* exception of a fork hook is printed and goes no further, so that the mark
\* stays and the next hook is called.
ReinitAfterFork ==
  LET hooks == IF samplerStarted THEN forkHooks ELSE 0 IN
  \E restarted \in 0 .. hooks :
    /\ watchdogs' = restarted
    /\ restartFailed' = (restarted < hooks)

Fork(t) ==
  /\ At(t, "user")
  /\ forks < MaxForks
  /\ forks' = forks + 1
  /\ alive' = {t}
  /\ running' = [u \in Threads |-> IF u = t THEN running[t] ELSE None]
  /\ pc' = [u \in Threads |-> "user"]
  /\ chained' = FALSE
  /\ ReinitAfterFork
  /\ tornStart' = (tornStart \/ \E u \in alive : pc[u] = "mark")
  /\ tornDetect' = (tornDetect \/ \E u \in alive : pc[u] = "register_hook")
  /\ UNCHANGED <<flags, fresh, flagged, layers, samplerStarted, forkHooks, detectReturned,
                 activatedIn>>

-----------------------------------------------------------------------------
(* activate, deactivate                                                      *)

Activate(t) ==
  /\ At(t, "user")
  /\ monitoringActive' = TRUE
  /\ Goto(t, IF detectReturned THEN "hooks_configured" ELSE "hooks")
  /\ UNCHANGED <<loopVars, samplerVars, ghosts, process, detectConfigured, hookRegistered, chained>>

RunHooks(t) ==
  /\ t \in alive /\ pc[t] \in {"hooks", "hooks_configured"}
  /\ IF hookRegistered THEN EnsureLoopPatched(t) ELSE UNCHANGED <<layers, flagged>>
  /\ activatedIn' = IF pc[t] = "hooks_configured" /\ running[t] # None
                    THEN activatedIn \cup {running[t]} ELSE activatedIn
  /\ Goto(t, "user")
  /\ UNCHANGED <<samplerVars, flags, process, running, fresh, chained, detectReturned, tears>>

Deactivate(t) ==
  /\ At(t, "user")
  /\ monitoringActive' = FALSE
  /\ UNCHANGED <<loopVars, samplerVars, ghosts, process, calls, detectConfigured, hookRegistered>>

-----------------------------------------------------------------------------
Application(t) ==
  \/ StartThread(t) \/ LeaveLoop(t) \/ Fork(t)
  \/ \E l \in Loops : RunLoop(t, l)

SetupCall(t) ==
  \/ DetectSlowTasks(t) \/ Configure(t) \/ RegisterHook(t) \/ PatchNow(t)
  \/ \E cpuSampling \in BOOLEAN : Autostart(t, cpuSampling)
  \/ StartCpuSampling(t) \/ Spawn(t) \/ SpawnFails(t) \/ RegisterAtFork(t) \/ MarkStarted(t)

Switching(t) == Activate(t) \/ RunHooks(t) \/ Deactivate(t)

Next == \E t \in Threads : Application(t) \/ SetupCall(t) \/ Switching(t)

Spec == Init /\ [][Next]_vars

-----------------------------------------------------------------------------
(* Properties.                                                               *)

TypeOK ==
  /\ alive \subseteq Threads /\ alive # {}
  /\ running \in [Threads -> Loops \cup {None}]
  /\ layers \in [Loops -> Nat]
  /\ flagged = {l \in Loops : layers[l] > 0}
  /\ {watchdogs, forkHooks} \subseteq Nat
  /\ pc \in [Threads -> {"user", "hooks", "hooks_configured"} \cup SetupLabels]
  /\ Cardinality({t \in alive : pc[t] \in SetupLabels}) <= 1

\* "A child forked after this call (...) would report sampling as started while no
\* watchdog exists, silently producing no samples.  Restart it in the child"
\* (cpu_sampler.py:121-123): a process that says sampling is started has a
\* watchdog, in whichever descendant, forked by whichever thread at whichever
\* moment of the start, after starts that failed, and in the children of a process
\* whose own restart failed.  That process itself is set aside: it is in the very
\* state the comment is about, and nothing gets it out.
SamplingIsReal == samplerStarted /\ ~restartFailed => watchdogs > 0

\* No process runs two watchdogs, which would count every stack twice: not
\* after setup was called again in a child, after a failed start or restart, or
\* after forks at other moments of setup.  A fork between the registration of
\* the fork hook and the mark is set aside for all descendants: the child has the
\* hook without the mark, registers it again when it starts sampling, and hands
\* two watchdogs to its own children, and they to theirs.
OneWatchdog == ~tornStart => watchdogs <= 1

\* The methods of a loop are replaced once, however often setup and activate
\* run in it, in however many processes: each further layer would report every
\* slice again.
PatchedOnce == \A l \in Loops : layers[l] <= 1

\* activate() inside a loop makes that loop a monitored one, once a call of
\* detect_slow_tasks has returned, be it an ignored one: on whatever thread, and
\* in a child as well.  A fork between the flag and the hook of detect_slow_tasks
\* is set aside for all descendants: a call of it in the child is ignored, and
\* activate() patches nothing.
ActivatePatches == ~tornDetect => activatedIn \subseteq flagged

\* "The loop is patched either immediately or when activate() is called"
\* (slow_tasks.py:55), in a process that never forks: configured and activated, a
\* loop that is running is a monitored one.
RunningLoopsMonitored ==
  detectReturned /\ monitoringActive /\ (\A t \in alive : pc[t] = "user") =>
    \A t \in alive : running[t] # None => running[t] \in flagged
=============================================================================
