---------------------------- MODULE TaskContexts ----------------------------
(* Tasks of one loop, their contexts, and what aiocop keeps in them or takes *)
(* from them: the value a context provider reads (callbacks.py), captured    *)
(* before a slice, at its first blocking operation and after it              *)
(* (slow_tasks.py, blocking_io.py), and raise_on_violations (state.py).      *)
(*                                                                           *)
(* A context is one key's: what providers return is merged key by key.       *)
(* Monitoring is active, the loop runs on the main thread and no slice gets  *)
(* to the cap on events.                                                     *)
EXTENDS Integers, Sequences, SequencesExt, FiniteSets

CONSTANTS
  Tasks,        \* asyncio tasks, or call_later callbacks: each has its context
  Values,       \* what the provider's variable may hold, a span for instance,
  None, Unset,  \* or None, or nothing: then the provider raises LookupError
  Instances,    \* the raise_on_violations_context objects of the program
  MaxLayers,    \* wrappers around a callback, at most
  MaxOps,       \* bound: what user code does
  MaxDepth      \* bound: blocks a task is inside of

NoTask   == "no task"
NotTaken == "not taken"      \* blocking_context is None

ASSUME ConstantsAssumption ==
  /\ {None, Unset} \cap Values = {} /\ None # Unset
  /\ NotTaken \notin Values \cup {None, Unset} /\ NoTask \notin Tasks
  /\ MaxLayers \in Nat \ {0}
  /\ {MaxOps, MaxDepth} \subseteq Nat

VARIABLES
  created,           \* the tasks there are
  value,             \* per task, the provider's variable
  raising,           \* per task, raise_on_violations
  token,             \* per instance, _token
  blocks,            \* per task, the blocks it is inside of, with the values before
  misused,           \* tasks that were in a block whose instance was entered again
  current,           \* the task that runs a slice
  layers,            \* the wrappers of that slice
  pc,                \* "enter", "body" or "leave"
  raised,            \* the callback raised
  stack,             \* the wrappers it is inside of, outermost first
  blockingContext,   \* thread_local.blocking_context
  providersBlock,    \* the provider itself does I/O the audit hook hears
  report,            \* the last report of the slice
  ops                \* what user code did so far

taskVars  == <<created, value, raising, token, blocks, misused>>
sliceVars == <<current, layers, pc, raised, stack, blockingContext, report>>
vars      == <<taskVars, sliceVars, providersBlock, ops>>

NoReport == [layer |-> 0]
NoToken  == [task |-> NoTask, old |-> FALSE, used |-> TRUE]

Depth == Len(stack)

Init ==
  /\ created \in {{t} : t \in Tasks}
  /\ value = [t \in Tasks |-> Unset]
  /\ raising = [t \in Tasks |-> FALSE]
  /\ token = [i \in Instances |-> NoToken]
  /\ blocks = [t \in Tasks |-> <<>>]
  /\ misused = {}
  /\ current = NoTask
  /\ layers = 0
  /\ pc = "leave"
  /\ raised = FALSE
  /\ stack = <<>>
  /\ blockingContext = NotTaken
  /\ providersBlock \in BOOLEAN
  /\ report = NoReport
  /\ ops = 0

-----------------------------------------------------------------------------
(* Capturing.                                                                *)

\* _capture_context: a provider that raises leaves its key out.
Capture == value[current]

\* A fault: {**pre, **post}.
MergedUnfiltered(pre, post) == IF post = Unset THEN pre ELSE post

\* {**pre, **{non-None of post}}
Merged(pre, post) == IF post \in {None, Unset} THEN pre ELSE post

\* A fault: each operation takes the context anew.
TakenAtEach(events, taken) == Capture

\* A fault: the test comes after the operation is recorded.
TakenTooLate(events, taken) == IF Len(events) = 1 /\ taken = NotTaken THEN Capture ELSE taken

\* _audit_hook: the first operation of a list takes the context, unless that was
\* done since the last wrapper was entered.  A provider that blocks while it is
\* asked by the hook is not heard (_in_hook).
Taken(events, taken) == IF events = <<>> /\ taken = NotTaken THEN Capture ELSE taken

\* The providers are asked inside the wrappers outer, the last one's list being
\* in place: one that blocks is recorded there.
AskedIn(outer, taken) ==
  IF providersBlock /\ outer # <<>>
  THEN /\ stack' = [outer EXCEPT ![Len(outer)].events = Append(@, Capture)]
       /\ blockingContext' = Taken(Last(outer).events, taken)
  ELSE stack' = outer /\ blockingContext' = taken

-----------------------------------------------------------------------------
(* The wrapper.                                                              *)

\* A slice of t: the loop runs its handle, in t's context.
RunSlice(t, n) ==
  /\ current = NoTask /\ t \in created
  /\ current' = t
  /\ layers' = n
  /\ pc' = "enter"
  /\ raised' = FALSE
  /\ report' = NoReport
  /\ UNCHANGED <<taskVars, stack, blockingContext, providersBlock, ops>>

\* A fault: what an earlier slice took is still there.
AtEntryKept == blockingContext

AtEntry == NotTaken

\* A list and no context yet, then the providers.
EnterWrapper ==
  /\ pc = "enter"
  /\ AskedIn(Append(stack, [pre |-> Capture, events |-> <<>>, reset |-> FALSE,
                            held |-> {Capture}]), AtEntry)
  /\ pc' = IF Depth + 1 = layers THEN "body" ELSE "enter"
  /\ UNCHANGED <<taskVars, current, layers, raised, report, providersBlock, ops>>

\* Blocks are left before an exception gets out.
CallbackEnds(exception) ==
  /\ pc = "body"
  /\ exception => blocks[current] = <<>>
  /\ pc' = "leave"
  /\ raised' = exception
  /\ UNCHANGED <<taskVars, current, layers, stack, blockingContext, report, providersBlock, ops>>

\* The wrapper is left.  Unless the callback raised, the providers are asked
\* again, with the list of the wrapper around this one in place; then a slice
\* with recorded operations is reported with the context of the first one, any
\* other (when it was slow) with the merged one.
Leave ==
  LET inner    == Last(stack)
      captured == Merged(inner.pre, Capture)
      with(c)  == [layer |-> Depth, events |-> inner.events, reset |-> inner.reset,
                   pre |-> inner.pre, post |-> Capture, held |-> inner.held, context |-> c]
  IN
  /\ pc = "leave" /\ stack # <<>>
  /\ IF raised
     THEN stack' = Front(stack) /\ UNCHANGED <<blockingContext, report>>
     ELSE /\ AskedIn(Front(stack), blockingContext)
          /\ report' = with(IF inner.events # <<>> /\ blockingContext' # NotTaken
                            THEN blockingContext' ELSE captured)
  /\ current' = IF Depth = 1 THEN NoTask ELSE current
  /\ UNCHANGED <<taskVars, layers, pc, raised, providersBlock, ops>>

-----------------------------------------------------------------------------
(* User code.                                                                *)

UserOp == pc = "body" /\ ops < MaxOps /\ ops' = ops + 1

SetValue(v) ==
  /\ UserOp
  /\ value' = [value EXCEPT ![current] = v]
  /\ stack' = [k \in DOMAIN stack |-> [stack[k] EXCEPT !.held = @ \cup {v}]]
  /\ UNCHANGED <<created, raising, token, blocks, misused, current, layers, pc, raised,
                 blockingContext, providersBlock, report>>

BlockingIo ==
  /\ UserOp
  /\ stack' = [stack EXCEPT ![Depth].events = Append(@, Capture)]
  /\ blockingContext' = Taken(Last(stack).events, blockingContext)
  /\ UNCHANGED <<taskVars, current, layers, pc, raised, providersBlock, report>>

\* reset_blocking_events empties the list and leaves the context as it is.
ResetEvents ==
  /\ UserOp
  /\ stack' = [stack EXCEPT ![Depth].events = <<>>, ![Depth].reset = TRUE]
  /\ UNCHANGED <<taskVars, current, layers, pc, raised, blockingContext, providersBlock, report>>

\* create_task, or call_later: the new one has a copy of the context.
Create(t) ==
  /\ UserOp
  /\ t \notin created
  /\ created' = created \cup {t}
  /\ value' = [value EXCEPT ![t] = value[current]]
  /\ raising' = [raising EXCEPT ![t] = raising[current]]
  /\ UNCHANGED <<token, blocks, misused, sliceVars, providersBlock>>

\* enable_raise_on_violations, disable_raise_on_violations
SetRaising(b) ==
  /\ UserOp
  /\ raising' = [raising EXCEPT ![current] = b]
  /\ UNCHANGED <<created, value, token, blocks, misused, sliceVars, providersBlock>>

\* with raise_on_violations_context(): the instance keeps one token, of the
\* latest entry.
InUse(i) == {t \in Tasks : \E n \in DOMAIN blocks[t] : blocks[t][n].instance = i}

EnterBlock(i) ==
  /\ UserOp
  /\ Len(blocks[current]) < MaxDepth
  /\ token' = [token EXCEPT ![i] = [task |-> current, old |-> raising[current], used |-> FALSE]]
  /\ raising' = [raising EXCEPT ![current] = TRUE]
  /\ blocks' = [blocks EXCEPT ![current] = Append(@, [instance |-> i, before |-> raising[current]])]
  /\ misused' = IF InUse(i) = {} THEN misused ELSE misused \cup InUse(i) \cup {current}
  /\ UNCHANGED <<created, value, sliceVars, providersBlock>>

\* A fault: leaving a block disables.
ResetDisables(i) ==
  raising' = [raising EXCEPT ![current] = FALSE] /\ UNCHANGED token

\* ContextVar.reset: a token of another context, or one that was used, is
\* refused with an exception.
Reset(i) ==
  IF token[i].task = current /\ ~token[i].used
  THEN /\ raising' = [raising EXCEPT ![current] = token[i].old]
       /\ token' = [token EXCEPT ![i].used = TRUE]
  ELSE UNCHANGED <<raising, token>>

ExitBlock ==
  /\ UserOp
  /\ blocks[current] # <<>>
  /\ Reset(Last(blocks[current]).instance)
  /\ blocks' = [blocks EXCEPT ![current] = Front(@)]
  /\ UNCHANGED <<created, value, misused, sliceVars, providersBlock>>

-----------------------------------------------------------------------------
Wrapper ==
  \/ \E t \in Tasks, n \in 1 .. MaxLayers : RunSlice(t, n)
  \/ EnterWrapper \/ Leave
  \/ \E exception \in BOOLEAN : CallbackEnds(exception)

User ==
  \/ \E v \in Values \cup {None} : SetValue(v)
  \/ BlockingIo \/ ResetEvents \/ ExitBlock
  \/ \E t \in Tasks : Create(t)
  \/ \E b \in BOOLEAN : SetRaising(b)
  \/ \E i \in Instances : EnterBlock(i)

Next == Wrapper \/ User

Spec == Init /\ [][Next]_vars

-----------------------------------------------------------------------------
(* Properties.                                                               *)

\* The types; a list with operations in it has a context to go with it.
TypeOK ==
  /\ created \subseteq Tasks /\ misused \subseteq Tasks
  /\ value \in [Tasks -> Values \cup {None, Unset}]
  /\ raising \in [Tasks -> BOOLEAN]
  /\ current \in created \cup {NoTask} /\ pc \in {"enter", "body", "leave"}
  /\ Depth <= layers /\ layers <= MaxLayers
  /\ blockingContext \in Values \cup {None, Unset, NotTaken}
  /\ \A k \in DOMAIN stack : stack[k].events # <<>> => blockingContext # NotTaken

\* "Within the task's own contextvars context" (README.md:299): a value in a
\* report is one the reporting slice's own context held during that slice, not
\* one of another task, of an earlier slice of the same task, or of a slice whose
\* callback raised, although the thread keeps it in one variable for all.
OwnContext ==
  report # NoReport /\ report.context \in Values => report.context \in report.held

\* "The only moment the span is active is during blocking I/O" (test_aiocop.py:
\* 519): a value that is active at the first of the listed operations is in the
\* report of the wrapper next to the callback, whatever the code, later
\* operations and the providers did since.  Set aside: a slice that began with
\* another value, since that one is promised as well, "captured before they're
\* closed" (README.md:301), and the code drops it (slow_tasks.py:237); and a slice
\* whose list was reset, where the context of the operations
\* reset_blocking_events erased stays.
ContextOfTheFirstIo ==
  /\ report # NoReport /\ report.events # <<>> /\ report.layer = layers
  /\ ~report.reset
  /\ report.events[1] \in Values /\ report.pre \in {None, Unset, report.events[1]}
  => report.context = report.events[1]

\* "Pre-callback context was lost" (test_aiocop.py:616): a slice reported
\* without I/O shows a value if its context held one when it began or ended, the
\* later one if both.
NoKnownValueLost ==
  report # NoReport /\ report.events = <<>> =>
    /\ report.post \in Values => report.context = report.post
    /\ report.pre \in Values => report.context \in Values

\* "Temporarily" (api.md:248): leaving a block gives the task the value it had
\* before, with nested blocks, switches inside the block, slices of other tasks
\* in between, instances used again later, and tasks created inside.  Only an
\* instance that is entered while somebody is inside it breaks that.
RaiseRestored ==
  [][ExitBlock /\ current \notin misused =>
       raising'[current] = Last(blocks[current]).before]_vars
=============================================================================
