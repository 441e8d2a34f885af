--------------------------- MODULE MonitoredSlice ---------------------------
(* One loop thread running handles through monitored_wrapper                 *)
(* (slow_tasks.py), with the audit hook (blocking_io.py) recording what the  *)
(* handle's code does and the flags of state.py deciding whether a violation *)
(* is raised.  A handle scheduled with call_later goes through the patched   *)
(* call_at as well, so it runs inside two wrappers.                          *)
(*                                                                           *)
(* User code runs in four places of a wrapper: the context providers before  *)
(* the slice, the callback itself, the providers after it, and the slow-task *)
(* callbacks.  In each it may block, burn time, or call aiocop's API.        *)
EXTENDS Integers, Sequences, SequencesExt

CONSTANTS
  OnMainThread,    \* whether the loop runs on the thread the hook listens to
  MaxLayers,       \* wrappers around a handle's callback, at most
  Weights,         \* severity weights of the I/O user code may do
  ThresholdHigh,   \* THRESHOLD_HIGH
  ThresholdMedium, \* THRESHOLD_MEDIUM
  MaxEvents,       \* MAX_EVENTS_PER_TASK
  MaxHandles,      \* bound: handles run
  MaxIo            \* bound: I/O operations of a handle

ASSUME ConstantsAssumption ==
  /\ OnMainThread \in BOOLEAN
  /\ MaxLayers \in Nat \ {0}
  /\ Weights \subseteq Nat
  /\ {ThresholdHigh, ThresholdMedium, MaxEvents, MaxHandles, MaxIo} \subseteq Nat

VARIABLES
  monitoringActive,   \* _monitoring_active
  exceptionRaised,    \* _exception_raised
  raiseEnabled,       \* raise_on_violations in the handle's context
  lists,              \* the event lists in existence
  owner,              \* thread_local.blocking_events: one of them, 0 for None
  shouldRaise,        \* thread_local.should_raise_for_this_handle
  stack,              \* the wrappers the thread is inside of, outermost first
  layers,             \* how many wrappers this handle has
  pc,                 \* what the thread is at
  outcome,            \* how the handle's code ended so far
  handle,             \* handles started
  io,                 \* what I/O this handle did (for the properties)
  reports             \* the SlowTaskEvents of this handle, in order

flags == <<monitoringActive, exceptionRaised, raiseEnabled>>
local == <<lists, owner, shouldRaise>>
frame == <<stack, layers, pc, outcome>>
seen  == <<handle, io, reports>>
vars  == <<flags, local, frame, seen>>

Depth  == Len(stack)
Inner  == stack[Depth]
Events == lists[Inner.list]

\* Where user code runs inside a handle.
UserCode == {"providers_before", "callback", "providers_after", "notify"}

\* calculate_io_severity_score: the sum of the recorded weights.
Score(events) == SumFunction([i \in DOMAIN events |-> events[i].weight])

\* get_severity_level_from_score.
Level(score) ==
  IF score >= ThresholdHigh THEN "high"
  ELSE IF score >= ThresholdMedium THEN "medium" ELSE "low"

Init ==
  /\ monitoringActive \in BOOLEAN
  /\ exceptionRaised = FALSE
  /\ raiseEnabled = FALSE
  /\ lists = <<>>
  /\ owner = 0
  /\ shouldRaise = FALSE
  /\ stack = <<>>
  /\ layers = 0
  /\ pc = "idle"
  /\ outcome = "ok"
  /\ handle = 0
  /\ io = <<>>
  /\ reports = <<>>

\* The locals of a wrapper, as it is entered.
Layer(monitored, list) ==
  [monitored |-> monitored, list |-> list, previous |-> owner, slow |-> FALSE, flag |-> FALSE]

\* The wrapper is left: for the one around it, or for the loop.
Leave ==
  /\ stack' = Front(stack)
  /\ pc' = IF Depth = 1 THEN "idle" ELSE "unwind"

\* A SlowTaskEvent goes out, the raise flag having been read before.
ReportedWith(reason) ==
  /\ reports' = Append(reports,
       [layer |-> Depth, reason |-> reason, events |-> Events, slow |-> Inner.slow,
        level |-> Level(Score(Events))])
  /\ stack' = [stack EXCEPT ![Depth].flag = shouldRaise]
  /\ pc' = "notify"

-----------------------------------------------------------------------------
(* Faults the properties must catch, each a changed form of a definition     *)
(* below.                                                                    *)

\* The flag of the handle before is still there.
ResetFlagsKeepsRaise == exceptionRaised' = FALSE /\ UNCHANGED shouldRaise

\* A wrapper that finds a list in place goes on with it.
InstallSharedList ==
  /\ lists' = IF owner = 0 THEN Append(lists, <<>>) ELSE lists
  /\ owner' = Len(lists')

\* The list stays installed: providers and callbacks that run after the slice
\* are charged to it.
LeaveListInstalled == UNCHANGED owner

\* What was not slow is not worth a report.
ReasonIfSlow == IF Inner.slow THEN IF Events # <<>> THEN "io_blocking" ELSE "cpu_blocking" ELSE "none"

\* The flag follows the last operation instead of remembering any.
FlagAfterLast == raiseEnabled

\* One event too many.
HeardOnceMore == OnMainThread /\ owner # 0 /\ Len(lists[owner]) <= MaxEvents

-----------------------------------------------------------------------------
(* The wrapper.                                                              *)

\* The loop takes a handle, with the value raise_on_violations has in its
\* context: a task that enabled it keeps it over its slices.  Lists nothing
\* refers to are gone.
StartHandle(n, enabled) ==
  /\ pc = "idle"
  /\ handle < MaxHandles
  /\ handle' = handle + 1
  /\ layers' = n
  /\ raiseEnabled' = enabled
  /\ pc' = "enter"
  /\ outcome' = "ok"
  /\ io' = <<>>
  /\ reports' = <<>>
  /\ lists' = IF owner = 0 THEN <<>> ELSE lists
  /\ UNCHANGED <<monitoringActive, exceptionRaised, owner, shouldRaise, stack>>

\* What runs once a wrapper is entered: the next wrapper or the callback.
Below == IF Len(stack') = layers THEN "callback" ELSE "enter"

\* While monitoring is inactive the wrapper only calls through.
EnterInactive ==
  /\ pc = "enter"
  /\ ~monitoringActive
  /\ stack' = Append(stack, Layer(FALSE, 0))
  /\ pc' = Below
  /\ UNCHANGED <<flags, local, seen, layers, outcome>>

InstallList == lists' = Append(lists, <<>>) /\ owner' = Len(lists')

GiveListBack == owner' = Inner.previous

ResetFlags == shouldRaise' = FALSE /\ exceptionRaised' = FALSE

\* Otherwise it installs a fresh event list, remembers the one it displaces and
\* resets the flags; then the context providers run.
EnterMonitored ==
  /\ pc = "enter"
  /\ monitoringActive
  /\ InstallList
  /\ stack' = Append(stack, Layer(TRUE, owner'))
  /\ ResetFlags
  /\ pc' = "providers_before"
  /\ UNCHANGED <<seen, monitoringActive, raiseEnabled, layers, outcome>>

\* The clock is read and the callback called.
StartSlice ==
  /\ pc = "providers_before"
  /\ pc' = IF Depth = layers THEN "callback" ELSE "enter"
  /\ UNCHANGED <<flags, local, seen, stack, layers, outcome>>

CallbackEnds(how) ==
  /\ pc = "callback"
  /\ outcome' = how
  /\ pc' = "unwind"
  /\ UNCHANGED <<flags, local, seen, stack, layers>>

LeaveInactive ==
  /\ pc = "unwind"
  /\ ~Inner.monitored
  /\ Leave
  /\ UNCHANGED <<flags, local, seen, layers, outcome>>

\* The callback raised: the finally block gives the thread its previous list
\* back, and the exception skips the report.
LeaveRaising ==
  /\ pc = "unwind"
  /\ Inner.monitored
  /\ outcome # "ok"
  /\ GiveListBack
  /\ Leave
  /\ UNCHANGED <<flags, seen, shouldRaise, lists, layers, outcome>>

\* The callback returned: the same finally block, then the providers run again.
SliceFinished ==
  /\ pc = "unwind"
  /\ Inner.monitored
  /\ outcome = "ok"
  /\ GiveListBack
  /\ pc' = "providers_after"
  /\ UNCHANGED <<flags, seen, shouldRaise, stack, lists, layers, outcome>>

Reason ==
  IF Events # <<>> THEN "io_blocking" ELSE IF Inner.slow THEN "cpu_blocking" ELSE "none"

\* A slice that recorded I/O is reported, and so is one that was only slow.
Report ==
  /\ pc = "providers_after"
  /\ \/ Reason # "none" /\ ReportedWith(Reason)
     \/ Reason = "none" /\ Leave /\ UNCHANGED reports
  /\ UNCHANGED <<flags, local, layers, outcome, handle, io>>

\* _check_and_raise_if_needed, for the report just delivered.
MustRaise ==
  LET report == Last(reports) IN
  /\ report.reason = "io_blocking" /\ report.slow
  /\ Inner.flag
  /\ ~exceptionRaised
  /\ Score(report.events) >= ThresholdHigh

\* The slow-task callbacks are through.  HighSeverityBlockingIoException leaves
\* the wrapper and passes through those around it; the patched exception handler
\* of the loop raises it again.
Notified ==
  /\ pc = "notify"
  /\ exceptionRaised' = (exceptionRaised \/ MustRaise)
  /\ outcome' = IF MustRaise THEN "high_severity" ELSE outcome
  /\ Leave
  /\ UNCHANGED <<local, seen, monitoringActive, raiseEnabled, layers>>

-----------------------------------------------------------------------------
(* User code, with the audit hook inside an I/O operation.                   *)

\* _audit_hook: events of other threads, and outside a wrapper, are not
\* recorded; beyond the cap not even the flag is set.
Heard == OnMainThread /\ owner # 0 /\ Len(lists[owner]) < MaxEvents

FlagAfter == shouldRaise \/ raiseEnabled

Record(event) ==
  IF Heard
  THEN /\ shouldRaise' = FlagAfter
       /\ lists' = [lists EXCEPT ![owner] = Append(@, event)]
  ELSE UNCHANGED <<shouldRaise, lists>>

\* The wrapper an operation belongs to: the innermost monitored one that has
\* started and whose callback has not ended, 0 when there is none.
Belongs ==
  LET open == {k \in 1 .. (IF pc \in {"providers_after", "notify"} THEN Depth - 1 ELSE Depth) :
                 stack[k].monitored}
  IN  IF open = {} THEN 0 ELSE Max(open)

BlockingIo(w) ==
  /\ pc \in UserCode
  /\ Len(io) < MaxIo
  /\ io' = Append(io, [weight |-> w, enabled |-> raiseEnabled, layer |-> Belongs,
                       watched |-> pc = "callback" /\ Belongs # 0])
  /\ Record([handle |-> handle, nr |-> Len(io'), weight |-> w])
  /\ UNCHANGED <<flags, frame, owner, handle, reports>>

\* Code the loop runs outside of any wrapper blocks as well.
IoOutside(w) ==
  /\ pc = "idle"
  /\ Record([handle |-> 0, nr |-> 0, weight |-> w])
  /\ UNCHANGED <<flags, frame, seen, owner>>

\* Enough time passes to be over the threshold: for each wrapper whose clock is
\* running, which the providers of the slice to come and the callbacks that are
\* told of a finished one are not part of.
Timed == 1 .. (IF pc \in {"providers_before", "notify"} THEN Depth - 1 ELSE Depth)

BurnTime ==
  /\ pc \in UserCode
  /\ \E k \in Timed : stack[k].monitored /\ ~stack[k].slow
  /\ stack' = [k \in DOMAIN stack |-> [stack[k] EXCEPT !.slow = @ \/ k \in Timed]]
  /\ UNCHANGED <<flags, local, seen, layers, pc, outcome>>

\* enable_raise_on_violations, disable_raise_on_violations and both ends of the
\* context manager.
SetRaise ==
  /\ pc \in UserCode
  /\ raiseEnabled' = ~raiseEnabled
  /\ UNCHANGED <<local, frame, seen, monitoringActive, exceptionRaised>>

\* reset_blocking_events: what was recorded so far is no longer wanted.
ResetEvents ==
  /\ pc \in UserCode
  /\ owner # 0
  /\ lists[owner] # <<>>
  /\ lists' = [lists EXCEPT ![owner] = <<>>]
  /\ io' = [n \in DOMAIN io |-> [io[n] EXCEPT !.watched = FALSE]]
  /\ UNCHANGED <<flags, frame, owner, shouldRaise, handle, reports>>

-----------------------------------------------------------------------------
(* Other threads, at any moment.                                             *)

\* activate() and deactivate(), which this thread's code may call as well.
SetMonitoring ==
  /\ monitoringActive' = ~monitoringActive
  /\ UNCHANGED <<local, frame, seen, exceptionRaised, raiseEnabled>>

\* A wrapper on another loop's thread resets the one flag all threads share.
OtherLoopEnters ==
  /\ exceptionRaised
  /\ exceptionRaised' = FALSE
  /\ UNCHANGED <<local, frame, seen, monitoringActive, raiseEnabled>>

-----------------------------------------------------------------------------
Wrapper ==
  \/ \E n \in 1 .. MaxLayers, enabled \in BOOLEAN : StartHandle(n, enabled)
  \/ EnterInactive \/ EnterMonitored \/ StartSlice
  \/ \E how \in {"ok", "user_error"} : CallbackEnds(how)
  \/ LeaveInactive \/ LeaveRaising \/ SliceFinished \/ Report \/ Notified

UserStep ==
  \/ \E w \in Weights : BlockingIo(w) \/ IoOutside(w)
  \/ BurnTime \/ SetRaise \/ ResetEvents

OtherThread == SetMonitoring \/ OtherLoopEnters

Next == Wrapper \/ UserStep \/ OtherThread

Spec == Init /\ [][Next]_vars

-----------------------------------------------------------------------------
(* Properties.                                                               *)

TypeOK ==
  /\ {monitoringActive, exceptionRaised, raiseEnabled, shouldRaise} \subseteq BOOLEAN
  /\ \A l \in DOMAIN lists : Len(lists[l]) <= MaxEvents
  /\ owner \in 0 .. Len(lists)
  /\ layers \in 0 .. MaxLayers /\ Depth <= layers
  /\ pc \in {"idle", "enter", "unwind"} \cup UserCode
  /\ outcome \in {"ok", "user_error", "high_severity"}
  /\ pc = "idle" <=> stack = <<>> /\ pc # "enter"

\* A report lists what its own slice did: nothing of an earlier handle, of code
\* between handles, of the wrapper around it or of the providers and callbacks
\* that run once the slice is over, also after handles that ended in an error.
OwnIo ==
  \A r \in DOMAIN reports : \A e \in Range(reports[r].events) :
    e.handle = handle /\ io[e.nr].layer = reports[r].layer

\* No operation is reported twice, although call_later's two wrappers both
\* watch the same callback.
ReportedOnce ==
  \A r, q \in DOMAIN reports : r # q =>
    Range(reports[r].events) \cap Range(reports[q].events) = {}

\* "Callbacks are invoked for all tasks where blocking I/O is detected"
\* (guide.md:353): when a handle ended well, every operation its callback did
\* under a monitored wrapper is in one of its reports, however many wrappers
\* monitoring was switched on or off for meanwhile.
NoIoLost ==
  pc = "idle" /\ outcome = "ok" /\ Len(io) <= MaxEvents =>
    \A n \in DOMAIN io : io[n].watched =>
      \E r \in DOMAIN reports : \E e \in Range(reports[r].events) : e.nr = n

\* HighSeverityBlockingIoException leaves a handle only when code of this very
\* handle blocked with raise_on_violations enabled and a slow report of it
\* scored high: no flag outlives its handle.
RaiseJustified ==
  outcome = "high_severity" =>
    /\ \E n \in DOMAIN io : io[n].enabled
    /\ \E r \in DOMAIN reports : reports[r].slow /\ reports[r].level = "high"

\* A slow callback whose own I/O scores high, some of it done while raising was
\* enabled, does not get away with it, whatever the callback switched off again
\* and whatever other loops did to the shared flag.  (For the wrapper next to
\* the callback.)
ViolationRaises ==
  \A r \in DOMAIN reports :
    /\ reports[r].layer = layers /\ Depth < layers
    /\ reports[r].slow /\ reports[r].level = "high"
    /\ \E e \in Range(reports[r].events) : io[e.nr].enabled
    => outcome = "high_severity"

\* "No blocking I/O, but task was slow" (guide.md:374) is what a cpu_blocking
\* event says.
CpuBlockingMeansNoIo ==
  \A r \in DOMAIN reports :
    reports[r].reason = "cpu_blocking" => \A n \in DOMAIN io : ~io[n].watched

\* "Only raise within this block [...] Outside the block, no exceptions raised"
\* (guide.md:319-323): what was done while raising was enabled scores high on
\* its own.
RaisesForTheBlockOnly ==
  outcome = "high_severity" => Score(SelectSeq(io, LAMBDA op : op.enabled)) >= ThresholdHigh
=============================================================================
