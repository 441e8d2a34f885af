---------------------------- MODULE AuditedCalls ----------------------------
(* Which blocking calls are recorded, and how often: patch_audit_functions   *)
(* (audit_patcher.py) wraps functions that raise no audit event of their own, *)
(* start_blocking_io_detection (blocking_io.py) registers the audit hook.    *)
(*                                                                           *)
(* The state is one process; Fork goes on with the child.  Setup calls do    *)
(* not overlap, but other threads call, import and fork between their steps. *)
(* Calls change nothing here: Recorded says what one records at this moment.   *)
(* They are made in monitored slices (MonitoredSlice: what the hook does).   *)
EXTENDS Integers, Sequences, SequencesExt, FiniteSets

CONSTANTS
  Targets,      \* FUNCTIONS_TO_PATCH, a sequence
  Missing,      \* those this version of Python does not have
  Native,       \* functions with an audit event of their own
  Sockets,      \* functions whose first argument is a socket
  Inside,       \* which targets the body of a function looks up and calls
  Threads, MainThread,
  MaxForks,     \* bound: generations of processes
  MaxHooks      \* bound: calls of start_blocking_io_detection that are begun

Functions == (Range(Targets) \ Missing) \cup Native
NotBound  == -1
Nobody    == "nobody"

ASSUME ConstantsAssumption ==
  /\ Targets \in Seq(Range(Targets)) /\ IsInjective(Targets)
  /\ Range(Targets) \cap Native = {}
  /\ \A f \in Functions : Inside[f] \subseteq Range(Targets) \ (Missing \cup {f})
  /\ Sockets \subseteq Range(Targets)
  /\ MainThread \in Threads /\ Nobody \notin Threads
  /\ {MaxForks, MaxHooks} \subseteq Nat

VARIABLES
  wrappers,           \* how many wrappers a function's name has around it
  bound,              \* likewise where a module bound it with `from m import f`
  patched,            \* patched_functions
  patchConfigured,    \* _patch_audit_functions_configured
  patcher, next,      \* the thread inside patch_audit_functions, its next target
  hooks,              \* times _audit_hook is registered
  detectConfigured,   \* _start_blocking_io_detection_configured
  mainThreadId,       \* _main_thread_id
  attempts,           \* calls of start_blocking_io_detection begun
  alive, mainThread,  \* the threads of this process and its main one
  forks,
  orphaned,           \* for the properties: a thread other than main forked,
  torn                \* and a fork hit patch_audit_functions of another thread

patchVars   == <<wrappers, patched, patchConfigured, patcher, next>>
hookVars    == <<hooks, detectConfigured, mainThreadId, attempts>>
processVars == <<alive, mainThread, forks, orphaned, torn>>
vars        == <<patchVars, bound, hookVars, processVars>>

Init ==
  /\ wrappers = [f \in Functions |-> 0]
  /\ bound = [f \in Functions |-> NotBound]
  /\ patched = <<>>
  /\ patchConfigured = FALSE
  /\ patcher = Nobody
  /\ next = 0
  /\ hooks = 0
  /\ detectConfigured = FALSE
  /\ mainThreadId = Nobody
  /\ attempts = 0
  /\ alive = Threads
  /\ mainThread = MainThread
  /\ forks = 0
  /\ orphaned = FALSE
  /\ torn = FALSE

MayCall(t) == t \in alive /\ t # patcher

-----------------------------------------------------------------------------
(* Faults the properties must catch, each a changed form of a definition     *)
(* below.                                                                    *)

\* No second look at the flag.
PatchAgain(t) ==
  /\ MayCall(t) /\ patcher = Nobody
  /\ patcher' = t /\ next' = 1 /\ patched' = <<>>
  /\ UNCHANGED <<wrappers, patchConfigured, bound, hookVars, processVars>>

\* The list of an earlier call is not cleared.
PatchUncleared(t) ==
  /\ MayCall(t) /\ patcher = Nobody
  /\ ~patchConfigured
  /\ patcher' = t /\ next' = 1
  /\ UNCHANGED <<wrappers, patched, patchConfigured, bound, hookVars, processVars>>

\* A target that is not there is counted in.
FoundAny(f) == TRUE

\* The thread that sets aiocop up is taken for the main one.
MainThreadIsCaller(t) == t

-----------------------------------------------------------------------------
(* patch_audit_functions                                                     *)

\* A second call is ignored.
Patch(t) ==
  /\ MayCall(t) /\ patcher = Nobody
  /\ ~patchConfigured
  /\ patcher' = t /\ next' = 1 /\ patched' = <<>>
  /\ UNCHANGED <<wrappers, patchConfigured, bound, hookVars, processVars>>

Found(f) == f \notin Missing

\* One target: a new wrapper around whatever the name stands for by now.
PatchNext ==
  /\ patcher # Nobody /\ next <= Len(Targets)
  /\ next' = next + 1
  /\ IF ~Found(Targets[next])
     THEN UNCHANGED <<wrappers, patched>>
     ELSE /\ wrappers' = [wrappers EXCEPT ![Targets[next]] = @ + 1]
          /\ patched' = Append(patched, Targets[next])
  /\ UNCHANGED <<patchConfigured, patcher, bound, hookVars, processVars>>

PatchEnds ==
  /\ patcher # Nobody /\ next > Len(Targets)
  /\ patcher' = Nobody /\ next' = 0 /\ patchConfigured' = TRUE
  /\ UNCHANGED <<wrappers, patched, bound, hookVars, processVars>>

-----------------------------------------------------------------------------
(* start_blocking_io_detection.  Hooks that are there already are asked by   *)
(* sys.addaudithook: one that raises RuntimeError keeps the new one out      *)
(* without a word, any other exception comes out and is logged.              *)

MainThreadSeen(t) == mainThread

StartDetection(t, outcome) ==
  /\ MayCall(t) /\ ~detectConfigured /\ attempts < MaxHooks
  /\ attempts' = attempts + 1
  /\ mainThreadId' = MainThreadSeen(t)
  /\ hooks' = IF outcome = "added" THEN hooks + 1 ELSE hooks
  /\ detectConfigured' = (outcome # "refused")
  /\ UNCHANGED <<patchVars, bound, processVars>>

-----------------------------------------------------------------------------
(* The program.                                                              *)

\* `from m import f` keeps what the name stands for at that moment.
Bind(f) ==
  /\ bound[f] = NotBound
  /\ bound' = [bound EXCEPT ![f] = wrappers[f]]
  /\ UNCHANGED <<patchVars, hookVars, processVars>>

\* A wrapper lets operations on non-blocking sockets pass unaudited.
Audits(f, nonBlocking) == f \in Sockets => ~nonBlocking

\* How often n wrappers around f, and f itself, raise an audit event.
Raised(n, f, nonBlocking) ==
  (IF Audits(f, nonBlocking) THEN n ELSE 0) + (IF f \in Native THEN 1 ELSE 0)

\* A call looks the name up in the module, or uses what was bound.
Calls ==
  {c \in [thread : alive, function : Functions, byName : BOOLEAN, nonBlocking : BOOLEAN] :
     c.byName \/ bound[c.function] # NotBound}

\* The wrappers it goes through.
Through(c) == IF c.byName THEN wrappers[c.function] ELSE bound[c.function]

\* How often call c is recorded under the name g: every registered hook hears
\* every event of the thread that is taken for the main one.
Events(c, g) ==
  (IF g = c.function THEN Raised(Through(c), g, c.nonBlocking) ELSE 0)
    + (IF g \in Inside[c.function] THEN Raised(wrappers[g], g, c.nonBlocking) ELSE 0)
Recorded(c, g) == (IF c.thread = mainThreadId THEN hooks ELSE 0) * Events(c, g)

Fork(t) ==
  /\ MayCall(t) /\ forks < MaxForks
  /\ forks' = forks + 1
  /\ alive' = {t} /\ mainThread' = t
  /\ orphaned' = (orphaned \/ t # mainThread)
  /\ torn' = (torn \/ patcher # Nobody)
  /\ patcher' = Nobody /\ next' = 0
  /\ UNCHANGED <<wrappers, patched, patchConfigured, bound, hookVars>>

StartThread(t) ==
  /\ t \notin alive
  /\ alive' = alive \cup {t}
  /\ UNCHANGED <<patchVars, bound, hookVars, mainThread, forks, orphaned, torn>>

-----------------------------------------------------------------------------
Next ==
  \/ PatchNext \/ PatchEnds
  \/ \E t \in Threads : Patch(t) \/ Fork(t) \/ StartThread(t)
  \/ \E t \in Threads, outcome \in {"added", "kept_out", "refused"} : StartDetection(t, outcome)
  \/ \E f \in Functions : Bind(f)

Spec == Init /\ [][Next]_vars

-----------------------------------------------------------------------------
(* Properties.                                                               *)

TypeOK ==
  /\ wrappers \in [Functions -> Nat] /\ bound \in [Functions -> Nat \cup {NotBound}]
  /\ patcher \in alive \cup {Nobody} /\ next \in 0 .. Len(Targets) + 1
  /\ next = 0 <=> patcher = Nobody
  /\ mainThread \in alive /\ alive \subseteq Threads
  /\ patched \in Seq(Functions)
  /\ hooks > 0 => detectConfigured

\* "Repeat calls now warn and no-op instead of silently double-counting events"
\* (HISTORY.md:19): no call is recorded twice under one name, however often the
\* two setup functions were called, refused and called again, in parents and in
\* children.  A child whose parent was forked in the middle of patching is set
\* aside: it patches the first targets again.
CountedOnce == ~torn => \A c \in Calls, g \in Functions : Recorded(c, g) <= 1

\* The main thread's blocking calls are recorded, of whichever thread set aiocop
\* up, when the function was looked up or imported after it was patched, or has
\* an event of its own: in this process and in what main threads forked.
BlockingCallsHeard ==
  hooks > 0 /\ ~orphaned =>
    \A c \in Calls :
      /\ c.thread = mainThread /\ ~c.nonBlocking
      /\ c.function \in Native \/ Through(c) > 0
      => Recorded(c, c.function) > 0

\* s names targets, each at most once, as FUNCTIONS_TO_PATCH has them.
InOrder(s) ==
  \A i, j \in DOMAIN s, k, l \in DOMAIN Targets :
    i < j /\ s[i] = Targets[k] /\ s[j] = Targets[l] => k < l

\* get_patched_functions names the functions that have a wrapper, each once and in
\* the order of FUNCTIONS_TO_PATCH: in a child as well that was forked in the
\* middle of patching, inherited half a list and some wrappers, and patched anew.
PatchedIsTrue ==
  patchConfigured =>
    /\ InOrder(patched)
    /\ Range(patched) = {f \in Functions : wrappers[f] > 0}
=============================================================================
