-------------------------- MODULE CallbackRegistry --------------------------
(* aiocop/core/callbacks.py: the list of slow-task callbacks, which user     *)
(* code changes while the loop is walking it.  The context providers of the  *)
(* same file and the on-activate hooks of state.py are kept and walked in    *)
(* the same way.                                                             *)
(*                                                                           *)
(* A `for` over a Python list keeps an index, not a copy: each round reads   *)
(* the length and the element anew.  The membership test of a registration   *)
(* and the change of the list are separate steps, between which another      *)
(* thread may run.                                                           *)
EXTENDS Integers, Sequences, SequencesExt, FiniteSets

CONSTANTS
  Callbacks,       \* the callbacks there are
  Threads,         \* threads that report slices or change the list
  Registrars,      \* those that change it
  MaxDispatches,   \* bound: events a thread dispatches
  MaxChanges       \* bound: changes begun

ASSUME ConstantsAssumption ==
  /\ Registrars \subseteq Threads
  /\ {MaxDispatches, MaxChanges} \subseteq Nat

VARIABLES
  callbacks,     \* _slow_task_callbacks
  pc,            \* per thread: outside a dispatch, at the for, or inside a callback
  index,         \* per thread: the iterator's index
  pending,       \* per thread: the change decided on and not yet made
  called,        \* per thread: the callbacks the last dispatch called, in order
  removals,      \* per thread: whether anything was removed since its dispatch began
  stayed,        \* per thread: who was registered then and was never removed
  dispatches,    \* per thread: dispatches begun
  changes        \* changes begun

walk   == <<index, called>>
seen   == <<removals, stayed>>
bounds == <<dispatches, changes>>
vars   == <<callbacks, pc, pending, walk, seen, bounds>>

Nothing == [op |-> "nothing"]

Init ==
  /\ callbacks = <<>>
  /\ pc = [t \in Threads |-> "outside"]
  /\ index = [t \in Threads |-> 0]
  /\ pending = [t \in Threads |-> Nothing]
  /\ called = [t \in Threads |-> <<>>]
  /\ removals = [t \in Threads |-> FALSE]
  /\ stayed = [t \in Threads |-> {}]
  /\ dispatches = [t \in Threads |-> 0]
  /\ changes = 0

MayChange(t) ==
  /\ t \in Registrars
  /\ pc[t] \in {"outside", "callback"} /\ pending[t] = Nothing
  /\ changes < MaxChanges

Decide(t, op, c) ==
  /\ MayChange(t)
  /\ pending' = [pending EXCEPT ![t] = [op |-> op, callback |-> c]]
  /\ changes' = changes + 1
  /\ UNCHANGED <<walk, seen, callbacks, pc, dispatches>>

Done(t) == pending' = [pending EXCEPT ![t] = Nothing]

-----------------------------------------------------------------------------
(* Faults the properties must catch, each a changed form of an action below. *)

\* The walk starts where the last one stopped.
IndexKept(t) == index[t]

\* New callbacks come first.
WithInFront(c) == <<c>> \o callbacks

\* Registrations are not looked up first.
RegisterUnchecked(t, c) == Decide(t, "append", c)

-----------------------------------------------------------------------------
(* _invoke_slow_task_callbacks                                               *)

FirstIndex(t) == 0

BeginDispatch(t) ==
  /\ pc[t] = "outside" /\ pending[t] = Nothing
  /\ dispatches[t] < MaxDispatches
  /\ dispatches' = [dispatches EXCEPT ![t] = @ + 1]
  /\ pc' = [pc EXCEPT ![t] = "for"]
  /\ index' = [index EXCEPT ![t] = FirstIndex(t)]
  /\ called' = [called EXCEPT ![t] = <<>>]
  /\ removals' = [removals EXCEPT ![t] = FALSE]
  /\ stayed' = [stayed EXCEPT ![t] = ToSet(callbacks)]
  /\ UNCHANGED <<callbacks, pending, changes>>

CallNext(t) ==
  /\ pc[t] = "for"
  /\ index[t] < Len(callbacks)
  /\ index' = [index EXCEPT ![t] = @ + 1]
  /\ called' = [called EXCEPT ![t] = Append(@, callbacks[index[t] + 1])]
  /\ pc' = [pc EXCEPT ![t] = "callback"]
  /\ UNCHANGED <<seen, bounds, callbacks, pending>>

\* It returned, or raised: an exception is logged and the walk goes on.
CallbackEnds(t) ==
  /\ pc[t] = "callback" /\ pending[t] = Nothing
  /\ pc' = [pc EXCEPT ![t] = "for"]
  /\ UNCHANGED <<walk, seen, bounds, callbacks, pending>>

EndDispatch(t) ==
  /\ pc[t] = "for"
  /\ index[t] >= Len(callbacks)
  /\ pc' = [pc EXCEPT ![t] = "outside"]
  /\ UNCHANGED <<walk, seen, bounds, callbacks, pending>>

-----------------------------------------------------------------------------
(* Changes, by code outside a dispatch or by a callback that is being told.  *)

\* register_slow_task_callback: the test, then the append.  A callback that is
\* found registered is left alone.
Register(t, c) == ~Contains(callbacks, c) /\ Decide(t, "append", c)

\* unregister_slow_task_callback likewise.
Unregister(t, c) == Contains(callbacks, c) /\ Decide(t, "remove", c)

With(c) == Append(callbacks, c)

DoAppend(t) ==
  /\ pending[t].op = "append"
  /\ callbacks' = With(pending[t].callback)
  /\ Done(t)
  /\ UNCHANGED <<walk, seen, bounds, pc>>

\* list.remove raises ValueError when another thread was faster, which changes
\* nothing either.
DoRemove(t) ==
  /\ pending[t].op = "remove"
  /\ callbacks' = RemoveFirst(callbacks, pending[t].callback)
  /\ removals' = [u \in Threads |-> TRUE]
  /\ stayed' = [u \in Threads |-> stayed[u] \ {pending[t].callback}]
  /\ Done(t)
  /\ UNCHANGED <<walk, bounds, pc>>

\* clear_slow_task_callbacks
Clear(t) ==
  /\ MayChange(t)
  /\ callbacks' = <<>>
  /\ removals' = [u \in Threads |-> TRUE]
  /\ stayed' = [u \in Threads |-> {}]
  /\ changes' = changes + 1
  /\ UNCHANGED <<walk, pc, pending, dispatches>>

-----------------------------------------------------------------------------
Thread(t) ==
  \/ BeginDispatch(t) \/ CallNext(t) \/ CallbackEnds(t) \/ EndDispatch(t)
  \/ \E c \in Callbacks : Register(t, c) \/ Unregister(t, c)
  \/ DoAppend(t) \/ DoRemove(t) \/ Clear(t)

Next == \E t \in Threads : Thread(t)

Spec == Init /\ [][Next]_vars

-----------------------------------------------------------------------------
(* Properties.                                                               *)

TypeOK ==
  /\ callbacks \in Seq(Callbacks)
  /\ pc \in [Threads -> {"outside", "for", "callback"}]
  /\ \A t \in Threads : index[t] \in 0 .. Len(called[t])

\* "Duplicate registrations are ignored" (api.md:140) as far as the code can keep
\* it: two threads may both look before either appends (callbacks.py:17-18), but
\* however often a callback is registered, removed and registered again, from
\* several threads and from inside callbacks, it is never there more often than
\* there are threads to race for it, and only once if there is one.
CopiesBounded ==
  \A c \in Callbacks :
    Cardinality({i \in DOMAIN callbacks : callbacks[i] = c}) <= Cardinality(Registrars)

\* When a dispatch ends during which nothing was removed, every callback of the
\* list was called exactly once and in the order of registration, those that
\* callbacks or other threads added meanwhile included.
CompleteWithoutRemoval ==
  \A t \in Threads :
    pc[t] = "for" /\ index[t] >= Len(callbacks) /\ ~removals[t] => called[t] = callbacks

\* "All registered callbacks are invoked" (test_aiocop.py:763): who was in the
\* list when the dispatch began, and was never taken out of it, has been called
\* when it ends.
AllInvoked ==
  \A t \in Threads :
    pc[t] = "for" /\ index[t] >= Len(callbacks) =>
      stayed[t] \subseteq ToSet(called[t])
=============================================================================
