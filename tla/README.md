# A TLA+ model of aiocop

aiocop monitors asyncio programs. It wraps the callbacks an event loop runs,
listens to the interpreter's audit events to learn what blocking I/O each
callback does, samples the stack of callbacks that burn CPU from a watchdog
thread, and reports what it found to registered callbacks, raising an exception
where the application asked for it. The code is small (about 1500 lines) and
almost all of its state is module globals: the hard part is who reads and
writes them when. This directory models that part, checks it with TLC and
proves with TLAPS, for every value of the constants, every safety property and
the refinement that the runs check on small instances.

Paths below are relative to `src/`, the root of the repository.

## 1. Inventory

| Component | Source | State | Operations |
|---|---|---|---|
| CPU sampler | `aiocop/core/cpu_sampler.py` | the slice marker (`_current_slice_id`, `_current_slice_thread_id`), the store (`_samples_lock`, `_samples_slice_id`, `_samples`), the configuration, `_sampler_started` | `_slice_started`, `_slice_finished`, the round of `_watchdog_loop`, `start_cpu_sampling`, `_reinit_after_fork`, `_effective_arm_and_idle`, `format_cpu_samples` |
| Monitored wrapper | `aiocop/core/slow_tasks.py:168-265` | its locals; the thread-local event list, context and raise flag | `monitored_wrapper`, `_invoke_callbacks_with_context`, `_check_and_raise_if_needed` |
| Audit hook | `aiocop/core/blocking_io.py` | `_main_thread_id`, the thread-local event list | `_audit_hook`, `start_blocking_io_detection`, `reset_blocking_events`, `format_blocking_event` |
| Shared state | `aiocop/core/state.py` | `_monitoring_active`, `_exception_raised`, the `raise_on_violations` ContextVar, `_on_activate_hooks` | `activate`, `deactivate`, the raise switches and their context manager |
| Callback and provider registry | `aiocop/core/callbacks.py` | `_slow_task_callbacks`, `_context_providers` | register, unregister, clear, dispatch, `_capture_context` |
| Setup and loop patching | `aiocop/core/slow_tasks.py:43-159` | `_detect_slow_tasks_configured`, the threshold, `_aiocop_patched` on each loop | `detect_slow_tasks`, `_ensure_loop_patched`, `_patch_loop` |
| Severity | `aiocop/core/severity.py`, `aiocop/types/severity.py` | none | weight of an event, score of a list, level of a score |
| Audit patcher | `aiocop/core/audit_patcher.py` | `_patched`, the replaced functions | `patch_audit_functions` |
| Event types, public API, exception | `aiocop/types/events.py`, `aiocop/__init__.py`, `aiocop/exceptions.py` | none | data declarations and re-exports |
| Benchmarks | `benchmarks/` | none | overhead measurements, not part of the library |

How they interact:

- the loop calls `monitored_wrapper`, which installs an event list in the
  thread's locals, publishes its slice to the watchdog, calls the user's
  callback, withdraws the slice, collects its samples and dispatches a
  `SlowTaskEvent` to the registry;
- inside the callback the interpreter calls the audit hook, which appends to
  the installed list and sets the raise flag from the ContextVar;
- the watchdog thread reads marker and frames at moments of its own, and shares
  the store with the loop threads under a lock, but for one unlocked read;
- `activate` switches a flag every wrapper looks at and runs the hook that
  patches the running loop; `fork` copies all globals but only one thread;
- user code (callbacks, context providers, slow-task callbacks) runs in the
  middle of all this and may call every operation above.

What is hard, and what would be correct:

- **CPU sampler.** The marker is two globals, written and read in separate
  steps; a slice may end between any two steps of the watchdog. A sample must
  reach the slice it was taken in and no other; a slice shorter than the arming
  age gets none; a stored sample is not lost; a callback that never returns is
  still sampled.
- **Wrapper and hook.** Wrappers nest: asyncio's `call_later` calls `call_at`
  and both are patched. The callback may raise, monitoring may be switched
  while it runs, and user code runs before and after the slice but inside the
  wrapper. A report lists what its slice did, all of it, once; an exception is
  raised exactly when it is due.
- **Watchdog timing.** What a sample, the number of them and their order say
  about a slice depends on sleeps whose length follows the configuration, the
  threshold and whether a slice ran at the last look.
- **Contexts.** A report shows a context captured before the slice, at its first
  blocking operation or after it; `blocking_context` is one variable of the
  thread for all of them, and providers may block themselves.
- **Audited calls.** A call is heard once when it was patched once, looked up
  after that, made on the thread taken for the main one, and the hook got in;
  the list of patched functions names what is wrapped.
- **Registry.** The list is changed while it is walked. Everyone registered is
  told of a slice once, whoever registers them at once.
- **Setup.** The order of setup calls, `activate`, loops and forks is the
  application's, and a thread may fail to start. A process that says it samples
  has exactly one watchdog; a loop is wrapped at most once, and at least once
  when monitoring is on.

`PROJECT.json` lists every hazard at its line, with the properties that cover
it, and for those no property covers yet, why.

## 2. Modules

| Module | Models | Checked as |
|---|---|---|
| `SampleAttribution` | what the sampler promises: slices open, are observed while open, and close with their own samples | the refinement in `CpuSampler` |
| `CpuSampler` | loop threads, watchdog and fork around the slice marker and the sample store | itself |
| `CpuSamplerProofs` | theorems: the invariants of `CpuSampler` | |
| `CpuSamplerRefinement` | theorem: `CpuSampler` implements `SampleAttribution` | |
| `WatchdogTiming` | the lengths of the watchdog's sleeps, the derived settings, the aggregation of samples | itself |
| `MonitoredSlice` | one loop thread: wrapper, audit hook, severity, raise flags | `MCMonitoredSlice` |
| `TaskContexts` | tasks and their contexts: captured context, `raise_on_violations` and its blocks | itself |
| `AuditedCalls` | patching and hook registration, and what a call then records | `MCAuditedCalls` |
| `CallbackRegistry` | the list of slow-task callbacks and its walk | `MCCallbackRegistry` |
| `Setup` | setup calls, loop patching, start of the sampler, fork | `MCSetup` |
| `WatchdogTimingProofs`, `MonitoredSliceProofs`, `TaskContextsProofs`, `AuditedCallsProofs`, `CallbackRegistryProofs`, `SetupProofs` | theorems about the module of that name | |

How they cover the system together: `CpuSampler` and `WatchdogTiming` split the
watchdog into its interleavings (each shared access a step, sleeps of any
length) and its timing (a round takes no time, sleeps have a length).
`MonitoredSlice` and `TaskContexts` both walk through `monitored_wrapper`, the
first with what is recorded, reported and raised, the second with what is
captured from, and kept in, the tasks' contexts. `AuditedCalls` says which
operations reach the hook whose inside is `BlockingIo` of `MonitoredSlice`;
`Setup` is about who is wrapped and watched at all.

Every module of the model but the abstract one has the same layout: constants with their assumptions, state, a
block of *faults* (changed forms of an action or definition, which the properties must
catch), the actions, `Next` and `Spec`, the properties. The
fault operators appear in no behaviour of `Spec`; `PROJECT.json` pairs each
property with one of them.

### CpuSampler

One step is one access to shared state (a global or the lock), with the local
work up to the next one. Under the GIL a load or store of a global is atomic
and nothing larger is, so this is the finest interleaving there is.

| Action | Code |
|---|---|
| `StartSlice`, `Publish` | `t0 = perf_counter_ns()` and the two stores of `_slice_started` |
| `FinishClear`, `FinishPeek`, `FinishAcquire`, `FinishCollect` | `_slice_finished`: clear the marker, the unlocked read, the lock, the copy |
| `WdWake`, `WdAge`, `WdIdent`, `WdCapture`, `WdRecheck`, `WdAcquire`, `WdClaim`, `WdStore` | one round of `_watchdog_loop` |
| `Fork`, `Reinit` | `os.fork` in user code, and `_reinit_after_fork` before the child runs anything else |
| `LoopEnds` | a thread whose frames `sys._current_frames` no longer has |
| `Tick` | time passing |

A stack is the data abstracted most: it is recorded as the innermost slice its
thread was executing when it was captured, 0 for none. That is what attribution
is about; the frames themselves do not matter. `slices[t]` is the nesting of
wrappers on thread `t`; after an inner wrapper ended, its outer one has nothing
left to run but its own end ("unwinding"): the callback of the outer wrapper
*is* the inner wrapper. Two readings of the nanosecond clock by wrappers differ
(slice ids are clock readings and the code relies on this as well). The
variable `finished` is a history variable used by properties only.

`Overlap` says whether slices of different threads may run at once. With
`FALSE` the threads take turns, as when a program runs one loop at a time, on
whichever thread.

A fork may come from a callback in the middle of its slice. The child has one
thread, which goes on where it was, a fresh lock and an empty store; marker and
thread id are cleared, so the slice goes on unpublished.

**The refinement.** `Attribution == INSTANCE SampleAttribution` maps each
wrapper a thread is inside of to an open slice that holds as many samples as
the store has for it (none when the store belongs to another slice), and the
collected samples to the result. `ImplementsAttribution` then says that every
step of loop threads, watchdog and fork is a step of `SampleAttribution` or
invisible to it. That module lets an open slice lose samples only when it is
`nested`, that is, when another wrapper ran inside it: exactly what the code's
claim does to the outer wrapper of a `call_later` handle, and what it must
never do to any other.

### WatchdogTiming

One tick is a millisecond, and time is relative: the age of the running slice
and what is left of the watchdog's sleep. `Arm` and `Idle` are
`_effective_arm_and_idle`, `Wake` is one round of `_watchdog_loop`,
`Aggregated` is `format_cpu_samples` with a stack reduced to the function it was
taken in. A slice calls one function and then another. Intervals, arming ages,
idle intervals and thresholds range over small sets, zeros and "derived"
included, and `detect_slow_tasks` may change the threshold at any moment, as the
code allows once. A sleep may end up to `Late` ticks late.

### MonitoredSlice

One action per path of `monitored_wrapper`: `EnterInactive`, `EnterMonitored`,
`StartSlice`, `CallbackEnds`, `LeaveInactive`, `LeaveRaising` and
`SliceFinished` (the two ways through the `finally`), `Report` (the three
outcomes after it), `Notified` (dispatch done, `_check_and_raise_if_needed`).
User code may run in four places, the providers before and after the slice, the
callback, and the slow-task callbacks, and in each it may do I/O (`BlockingIo`
is the audit hook), burn time, switch raising, reset the recorded events, or
have monitoring switched under it. `stack` holds the locals of the wrappers the
thread is inside of, `lists` the event lists, `owner` which of them is
installed in the thread's locals. An event is the number of the operation and
its weight. Elapsed time is one bit per wrapper: past the threshold or not.
`OtherLoopEnters` is another loop's thread resetting the one flag
`_exception_raised`. A report carries the score's level (`severity.py`), which
the properties compare with the decision to raise.

### TaskContexts

A context is what one key of it holds: a value, `None`, or nothing (the provider
raises `LookupError`, which leaves its key out). `EnterWrapper` captures before
the slice, `BlockingIo` at the first operation (`_audit_hook`), `Leave` after
the slice, choosing the context of the report. With `providersBlock` the
provider does I/O of its own: recorded in the list that is in place, and not
heard while the hook itself asks (`_in_hook`). Tasks have their own value and
their own `raise_on_violations`; `Create` copies both. A block instance keeps
one token, as `raise_on_violations_context` does; `Reset` is
`ContextVar.reset`, which refuses a token of another context or one used
before. Slices of one task alternate with those of others while it is inside a
block. `held` and `reset` in the stack, `before` in a block and `misused` are
history, used by properties only.

### AuditedCalls

The state counts wrappers: how many are around the name of a function in its
module, and around the object some module bound with `from m import f`. Setup
calls are steps (one target of `FUNCTIONS_TO_PATCH` each), between which other
threads import, fork and call. `Recorded(c, g)` is how often call `c` would be
recorded under the name `g` at this moment: `Events(c, g)`, the audit events it
raises in the wrappers it passes and in its inner calls, heard by each registered
hook if its thread is the one the hook listens to.
`StartDetection` has the three outcomes of `sys.addaudithook`: added, kept out
silently by a hook that raises `RuntimeError`, refused with another exception.
A child forked in the middle of patching inherits some wrappers and half of
`patched_functions`, and may start again; `Patch` clears the list.

### CallbackRegistry

A Python `for` over a list keeps an index and looks at the live list each
round; a registration is a membership test and then an append. Both are steps
here, so callbacks and other threads change the list between them, and two
threads may look before either of them appends. Context providers and on-activate hooks are kept and walked the same way.

### Setup

The state is one process; `Fork` goes on with the child, which keeps globals
and loops and only the forking thread. The steps of `detect_slow_tasks` and
`start_cpu_sampling` that publish something are actions of their own, so a fork
of another thread may fall between any two. A second `detect_slow_tasks` is
ignored and returns, also in a child that inherited the flag and nothing else.
Starting the watchdog may fail, in the parent (`SpawnFails`) and in the child:
`ReinitAfterFork` restarts as many watchdogs as hooks succeed, since the exception
of a fork hook is printed and goes no further. Setup calls do not overlap one
another: the API documents them as called once, at startup.

Five variables are history, used by properties only: `detectReturned` and
`activatedIn` for `activate()`, and what the properties set aside, each with an
entry in section 5. `restartFailed` is of
one process; `tornStart` (forked between the registration of the fork hook and
the mark) and `tornDetect` (forked between the flag and the hook of
`detect_slow_tasks`) are inherited by all descendants.

## 3. Runs

Passing runs:

| Run | Properties | Instance | What it shows |
|---|---|---|---|
| `sampler_serial` | `TypeOK`, `OwnSamples`, `ShortSlicesUnsampled`, `NoSampleLost`, `ImplementsAttribution`, `SliceEndReturns`, `SlowSliceSampled` | two threads, one slice at a time, two nested wrappers, two samples, one fork, fair | lock, recheck and owner of the store are enough: samples go to the slice they were taken in, short slices get none, none is lost; a wrapper waiting for the lock returns, and a slice that never ends is sampled, in a forked child as well |
| `timing` | `TypeOK`, `ViolatorsSampled`, `FewSamplesMeanStarvation`, `CountsMeasureTime`, `LongestFirst` | three intervals, arming ages and idle intervals, two thresholds | with derived settings and a threshold of twice the interval no slice over the threshold goes unsampled; counts measure time, and the first entry is where it went |
| `contexts` | `TypeOK`, `OwnContext`, `ContextOfTheFirstIo`, `NoKnownValueLost`, `RaiseRestored` | two tasks, two values, one or two wrappers, two block instances, five operations | a report shows a context of its own slice, with I/O the one active at the first operation unless the slice began with another; a block restores what it found |
| `audited` | `TypeOK`, `CountedOnce`, `BlockingCallsHeard`, `PatchedIsTrue` | three targets (one missing, one inside the other) and a native one, two threads, three generations | each call is heard once, if at all, and the main thread's are heard; the list of patched functions is true, after half a patching as well |
| `slice_safety` | `TypeOK`, `OwnIo`, `ReportedOnce`, `NoIoLost`, `RaiseJustified`, `ViolationRaises` | two handles of one or two wrappers, three operations each, cap of two events, two weights | reports are right and exceptions due, over errors, nesting and monitoring switched meanwhile |
| `registry_safety` | `TypeOK`, `CopiesBounded`, `CompleteWithoutRemoval` | three callbacks, two threads that report slices and change the list | as long as nothing is removed, a dispatch calls the list, in order and to its end; racing registrations leave at most one copy per thread |
| `setup_safety` | `TypeOK`, `SamplingIsReal`, `OneWatchdog`, `PatchedOnce`, `ActivatePatches` | two threads, two loops, three generations of processes | one watchdog, one layer of patches and a patched loop, whatever the order of calls, forks and failed starts, but for the forks set aside |

Runs that find what a line of the documentation says not to hold of the code:

| Run | Property | What TLC finds |
|---|---|---|
| `sampler_overlap` | `OwnSamples` | two loops on two threads overwrite each other's half of the marker, and a slice is handed a stack of the other thread |
| `slice_call_later` | `CpuBlockingMeansNoIo` | the outer wrapper of a slow `call_later` callback reports `cpu_blocking` for time spent in I/O the inner one reports |
| `slice_raise_block` | `RaisesForTheBlockOnly` | heavy I/O outside a `raise_on_violations` block raises because of a light operation inside it |
| `registry_removal` | `AllInvoked` | a callback that unregisters itself makes the walk skip the next one |
| `setup_outside` | `RunningLoopsMonitored` | `activate()` before the loop runs leaves the loop unmonitored |

The bounds, and why they are enough. *Sampler:* with
`MaxStart = 4` there are up to three slices, so that a sample can be captured in
one, be overtaken by a second and be stored during a third; arming age 2
separates "old enough when looked at" from "old enough at the end"; two samples
per slice reach the cap; two threads of one process suffice, as a slice meets at
most one stale thread id; one fork may fall at any step of the watchdog, and the
child has a whole watchdog again. *Timing:* the numbers are the code's
divided by about ten, except the 1ms floors: the 50ms cap of the idle sleep is
`IdleCap = 5`, so that of the intervals 0, 2, 6 one lies above it; thresholds 4
and 8 lie on both sides of twice the interval, lateness included; a slice is
followed to twice the larger threshold; six samples are cut off by the cap for
the short intervals and not for the long one. *Contexts:* two tasks are enough
for one to disturb the other; five operations hold two nested blocks, entered
and left, and a switch, or a value set, an operation, a value changed and an
operation; two instances tell a nested block from one entered twice. *Audited
calls:* a grandchild sees setup begun by its parent and repeated by itself; two
hook registrations show a refused one repeated. *Slice:* the
effects of one handle on the next need two handles; three operations exceed the
cap of two events; a moderate weight (10) stays below `THRESHOLD_HIGH` (50)
and a heavy one reaches it. *Registry:* three callbacks distinguish who is
skipped from who follows; two threads race for a registration, and four changes
are enough for a third copy if looking at the list did not prevent it.
*Setup:* a grandchild is the first process whose parent was itself
restarted by the fork hook.

Deadlock is not checked (`CHECK_DEADLOCK FALSE`) only where the bounded instance
really stops: when its handles, dispatches, changes or setup calls are used up.

**Fairness.** `FairSpec` assumes weak fairness of the watchdog (the operating
system schedules it; its sleeps are finite, `cpu_sampler.py:228`), of time, and
of `Epilogue`, the part of `_slice_finished` after the marker is withdrawn,
which is aiocop's own code and runs to its end. `SliceEndReturns` needs the last:
the lock is free again and again, and weak fairness suffices because the watchdog
cannot claim for a slice whose marker is withdrawn more often than it had
captured before. Nothing is assumed of user code: a callback may run forever,
which is the case `SlowSliceSampled` is about. A C call that never releases the
GIL starves the watchdog; the code names that limitation itself
(`cpu_sampler.py:19-22`) and the assumption excludes it. A thread that fairness
speaks of is one of this process: `Fork` makes the others "gone".

## 4. Proofs

TLC checks a property on the instance of a run; the theorems state it for every
value of the constants: any threads, tasks, loops, callbacks and functions, any
nesting of wrappers, and whatever the bounds are, so that a bound that keeps a
run finite restricts no theorem. They use the named assumptions of the modules
(`ConstantsAssumption`, `ThreadsAssumption`), which say that bounds are natural
numbers and markers such as `Nobody` differ from what they stand beside; those
of `AuditedCalls` also say what the table of patched functions looks like: no
target twice, and a call inside of another one goes to a target that is there
and not the same. The hypotheses a
theorem adds are named below, each with what makes it necessary.

Each proof rests on an inductive invariant that TLC confirmed on an instance
before it was proved.

**`CpuSamplerProofs`**

- `TypeCorrect` (`TypeOK`), overlapping slices included. `TypeOK` is not
  inductive alone: that the watchdog never looks up the frames of "nobody" needs
  that the thread id is stored before the slice id, and that the lock is released
  by its holder needs that a collecting thread holds it. `TypeInv` adds both.
- `ShortSlicesNeverSampled` (`ShortSlicesUnsampled`), overlapping slices included
  as well: `AgeInv`. A slice id is a start time that no other slice has
  (`FreshIds`), so the age of what the watchdog holds can be told from the clock
  until the recheck, and from then on from the slice itself, which was still
  published and so had not finished (`PublishedRuns`, `Ages`).
- `SamplesAreOwn` (`OwnSamples`), if slices do not overlap (`~Overlap`):
  `SerialInv` follows a sample on its way. Ids are readings of the past, so a new
  slice's id is none the watchdog may still hold (`Past`, `Published`); while the
  watchdog's slice is still the published one, the frames it read are that
  slice's (`WatchdogReads`), and the recheck turns this into a fact that remains
  true when the slice ends; the store holds stacks of its owner only
  (`StoreOwned`), because the claim empties it.
- `StoredIsDelivered` (`NoSampleLost`), if slices do not overlap: `LossInv`. Only
  the claim for another slice empties the store; the watchdog never goes back to
  an older slice than the store's (`Latest`), so no such claim falls between the
  end of a slice and its collection (`Kept`).

A fork preserves all of them because the child has one thread and an empty
store. That `~Overlap` is needed is what the run `sampler_overlap` finds.

**`CpuSamplerRefinement`**: `SamplerAttributes` (`ImplementsAttribution`), if
slices do not overlap. The mapping needs, besides the invariants above, that no
slice is open twice and that a wrapper that is ending holds nothing of the slice
before (`MapInv`). `Is...` lemmas say when a change of the mapped state is a step
of `SampleAttribution`; then `Publish` is a `Begin`, `FinishClear` a `Finish`, an
unlocked read that finds nothing and `FinishCollect` are a `Deliver`, `WdStore` is
an `Observe`, `WdClaim` a `Forget` where a nested slice held something, `Fork` a
`Fork`, and all other steps are invisible.

**`WatchdogTimingProofs`**: `TimingTypeCorrect` (`TypeOK`), `SamplesKeepComing`
(`FewSamplesMeanStarvation`), `CountsAreTime` (`CountsMeasureTime`),
`LongestIsFirst` (`LongestFirst`), and `ViolationIsSampled` (`ViolatorsSampled`)
if `MaxSamples > 0`: with a cap of no samples nothing is sampled.
`TimingInv` relates the age of the slice to what is left of the sleep: the
sample after the n-th is due by `FirstSampleBy - Late + n * (Every + Late)`
(`Prompt`), and the n samples that are there, as well as the next, are an
interval apart (`Measured`). The division of the properties is reduced to these
products by a lemma, `Quotient`. For the order of the report, `DividedInv` says
the same of the two stretches of a slice: p samples in f and then q in g, p being
bounded from both sides by the time in f and q by that in g; an idle sleep can
no longer delay the first sample in g when there was one in f (`Awake`). Counts
are cardinalities, and `MoreOften` shows that the sorted list of two functions
begins with the one sampled more often.

**`MonitoredSliceProofs`**: `HandleTypeCorrect` (`TypeOK`), `ReportsOwnIo`
(`OwnIo`), `ReportsAreDisjoint` (`ReportedOnce`), `RaisesAreJustified`
(`RaiseJustified`), `ViolationsRaise` (`ViolationRaises`), and `IoIsReported`
(`NoIoLost`) if `OnMainThread`, since the hook ignores every other thread. They
share `HandleInv`: the wrappers remember the lists they displaced, so that the
one installed is always that of the innermost monitored wrapper whose `finally`
is still to come (`Chain`); hence an operation is recorded in the list of the
wrapper it belongs to (`Recorded`), reports come from the inside out and show
such lists (`Reported`), and an operation is in its list until it is in a report
(`Kept`). For the exceptions: the raise flag was reset since the handle before
(`Flags`), and between the first operation of the innermost wrapper and its
report nothing resets it, nor does anything of this thread set
`_exception_raised` (`Alarm`).

**`TaskContextsProofs`**: `ContextTypeCorrect` (`TypeOK`), `ContextIsOwn`
(`OwnContext`), `FirstIoContext` (`ContextOfTheFirstIo`), `MergeKeepsValues`
(`NoKnownValueLost`), and the action property `BlocksRestore`
(`RaiseRestored`). `SliceInv`: what a wrapper captured, and what the thread's one
`blocking_context` holds while there are events, are values the task had since
each open wrapper was entered (`Captured`), and entering the innermost one forgot
what was taken before (`FirstTaken`), so that its report shows the context of the first
operation listed (`FirstShown`), whatever the slice began with. `Tokens`: a task that never shared an
instance in use has, for each block it is inside of, the token of that entry,
unused, whatever other tasks entered and left.

**`AuditedCallsProofs`**: `AuditTypeCorrect` (`TypeOK`), `NothingCountedTwice`
(`CountedOnce`), `MainThreadHeard` (`BlockingCallsHeard`), `PatchedListIsTrue`
(`PatchedIsTrue`). `AuditInv`: as long
as no fork hit the patching, exactly what it has been at is wrapped, once, and a
name bound earlier has no more wrappers than that (`WrappedOnce`); what
`patched_functions` says is what was there among the targets tried, in their
order (`Listed`);
there is one hook at most, and while the main thread lives it listens to it
(`OneHook`).

**`CallbackRegistryProofs`**: `RegistryTypeCorrect` (`TypeOK`),
`DispatchIsComplete` (`CompleteWithoutRemoval`), and `CopiesAreBounded`
(`CopiesBounded`) if there are finitely many registrars, without which their
number is none. `WalkInv`: without a removal, what a dispatch called is what the
list begins with. `CopiesInv`: the copies of a callback that are in the list and
those that threads have decided to append are together no more than the
registrars, since who looks and decides found no copy. That `list.remove` brings
no callback in, and no copy, is `Removal`; its index is a minimum, and that one
exists is `Smallest`.

**`SetupProofs`**: `SetupTypeCorrect` (`TypeOK`), `StartedMeansSampled`
(`SamplingIsReal`), `AtMostOneWatchdog` (`OneWatchdog`), `LoopsPatchedOnce`
(`PatchedOnce`), `ActivationPatches` (`ActivatePatches`). `SetupInv` says how far
a setup call got at each of its labels (`DetectProgress`, `StartProgress`), that
at most one thread is inside of one (`OneSetup`), where the hook of `activate()` is
in place (`HookInPlace`), and, as long as no fork fell between fork hook and
mark, that watchdogs and fork hooks are exactly those of the steps taken
(`Counted`). The theorems set aside what their properties do: a process whose own
restart failed, and the descendants of the two torn forks.

**Model-checked only.** `SliceEndReturns` and `SlowSliceSampled`: liveness under
fairness is out of this prover's reach, as are statements with `ENABLED`. The
properties of the runs that expect a violation are false. What a recursively
defined function computes for every input would need an induction over data that
the installed provers cannot instantiate: `Score` (`SumFunction` of the weights)
is used in `MonitoredSliceProofs` without its definition, since the report's level
and the decision to raise need only that both come from the same score.

## 5. Not modelled, and observations without a run

- Registering and clearing context providers: the same code as for callbacks, on
  another list (`callbacks.py:32-53`), including its walk by index.
- Failures inside `patch_audit_functions`: the targets are attributes of modules
  and Python classes of the standard library, which can be replaced; what
  interrupts it in the model is a fork.
- Formatting of frames, events and log lines; event types and re-exports, which
  have no behaviour; the benchmarks.
- A `BaseException` out of a context provider before the `try` of the wrapper
  (`slow_tasks.py:191`; `_capture_context` swallows `Exception` only): the list of
  the wrapper stays installed. `MonitoredSlice` has providers that return or whose
  `Exception` is swallowed.
- A provider that blocks only sometimes: `providersBlock` is chosen once per
  behaviour of `TaskContexts`.
- A failed restart of the watchdog in `CpuSampler`, whose child always has one:
  `Setup` models the failure, and `SlowSliceSampled` is about processes whose
  watchdog runs.
- Overlapping calls of the setup functions, in `Setup` and `AuditedCalls`.
- uvloop's internals. The model relies on what `_patch_loop` relies on: methods
  looked up on the loop. The double wrapping of `call_later` is that of
  asyncio's loop.

Reading the code beside its documentation showed more differences, which the
models explain but no run is spent on:

- a callback that *raises* after blocking I/O yields no event (`LeaveRaising`),
  although `docs/guide.md:353` says callbacks are invoked for all tasks with
  blocking I/O;
- `deactivate()` inside a slice does not stop the slice being recorded;
- the exception needs `exceeded_threshold` and is raised after the callback
  returned, so a `try` around `with raise_on_violations()` inside the callback
  (`docs/guide.md:335-340`) never catches it;
- when the inner wrapper of a `call_later` handle ends it clears the marker
  (`cpu_sampler.py:56`: "0 means no active slice") while the outer one is still
  active, and its first sample empties the store of the outer one's;
- a forked child in which the watchdog cannot be restarted (`cpu_sampler.py:183`;
  a thread may fail to start) says that sampling is started and has no watchdog,
  the state that `cpu_sampler.py:121-123` means to exclude, and
  `start_cpu_sampling` ignores every further call there (`restartFailed`);
- a child forked between the flag and the hook of `detect_slow_tasks`
  (`slow_tasks.py:89-91`) ignores its own call of it, and `activate()` in a loop
  patches nothing, although `slow_tasks.py:55` says it does (`tornDetect`);
- two threads that register the same callback at once may both append it, and it
  is told of each slice twice, although `docs/api.md:140` says that duplicate
  registrations are ignored (`CopiesBounded` says how often at most);
- a child forked between the registration of the fork hook and the mark of
  `start_cpu_sampling` registers the hook again when it starts sampling; its own
  children then have two watchdogs, and so have theirs (`tornStart`);
- `_main_thread_id` is looked up once: in a child forked by a worker thread
  (`orphaned` in `AuditedCalls`), or with a loop on another thread
  (`OnMainThread = FALSE` in `MonitoredSlice`), the audit hook ignores
  everything and slow I/O is reported as `cpu_blocking`;
- an audit hook that raises `RuntimeError` keeps aiocop's out without an
  exception: detection is marked as started and hears nothing (`kept_out`);
- a child forked while another thread is inside `patch_audit_functions` wraps
  the first targets twice when it patches (`torn`);
- `SSLSocket.recv` calls the patched `read`: one receive is two events and scores
  twice the weight (`Inside` in `AuditedCalls`; two different events, so
  `CountedOnce` holds);
- with a sampling interval above 50ms the derived idle interval is shorter than
  the sampling interval, although `cpu_sampler.py:98-100` says the watchdog
  never wakes more often when idle; with an arming age below the interval the
  first look may come after the arming age, although 96-97 says it does not;
- the sleep during which `detect_slow_tasks` is called keeps its length
  (`stale` in `WatchdogTiming`), although 47-49 says the order of the calls
  cannot matter;
- beyond `max_samples_per_slice` the earliest samples are kept, so the first
  entry is where a long slice spent its beginning;
- a value that was there when the slice began and is closed before its first
  blocking operation (a span) is missing from a report with I/O, although
  `README.md:299-301`, `docs/guide.md:258`, `docs/api.md:176` and
  `callbacks.py:34` promise what was captured at the start
  (`ContextOfTheFirstIo` sets such slices aside);
- `reset_blocking_events` leaves `blocking_context`: later operations of the
  slice are reported with the context of the erased ones (`reset` in
  `TaskContexts`);
- one `raise_on_violations_context` instance entered again while it is in use
  restores the wrong value, or raises in `__exit__` (`misused`);
- adding to the dictionaries of severity weights and patched functions as
  `docs/guide.md:451-471` shows has no effect once they were used at import or
  setup.

## 6. Plan

Done: `CpuSampler` with its refinement of `SampleAttribution`, `MonitoredSlice`
(with severity), `Setup`, `CallbackRegistry`, `WatchdogTiming`, `TaskContexts`
(captured contexts and raise blocks), `AuditedCalls`.

Left: a composition of one loop thread with hook, sampler and registry, for
properties across components (a report's samples and events describe the same
slice; a switch of monitoring leaves none half-monitored). The two halves are
checked separately today, and share only the wrapper's entry and exit.

Proved: every invariant, the action properties and the refinement of the passing
runs (section 4). Left to prove, with the composition: that its invariants follow
from those of its parts, so that the parts' theorems carry over to it.
