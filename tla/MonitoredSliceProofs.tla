------------------------ MODULE MonitoredSliceProofs -------------------------
(* The invariants of MonitoredSlice for any number of wrappers around a      *)
(* handle's callback, any weights and thresholds, any number of handles and  *)
(* of operations.                                                            *)
EXTENDS MonitoredSlice, SequenceTheorems, TLAPS

-----------------------------------------------------------------------------
(* The inductive invariant.                                                  *)

Event == [handle : Nat, nr : Nat, weight : Weights]
Op    == [weight : Weights, enabled : BOOLEAN, layer : Nat, watched : BOOLEAN]
Frame == [monitored : BOOLEAN, list : Nat, previous : Nat, slow : BOOLEAN, flag : BOOLEAN]
SlowTaskEvent == [layer : Nat, reason : {"io_blocking", "cpu_blocking"}, events : Seq(Event),
                  slow : BOOLEAN, level : {"high", "medium", "low"}]

Types ==
  /\ monitoringActive \in BOOLEAN /\ exceptionRaised \in BOOLEAN
  /\ raiseEnabled \in BOOLEAN /\ shouldRaise \in BOOLEAN
  /\ lists \in Seq(Seq(Event)) /\ owner \in 0 .. Len(lists)
  /\ stack \in Seq(Frame) /\ layers \in 0 .. MaxLayers /\ Depth <= layers
  /\ pc \in {"idle", "enter", "unwind"} \cup UserCode
  /\ outcome \in {"ok", "user_error", "high_severity"}
  /\ handle \in Nat /\ io \in Seq(Op) /\ reports \in Seq(SlowTaskEvent)

\* Where the handle is: nothing is reported on the way in.
Control ==
  /\ pc = "idle" <=> stack = <<>> /\ pc # "enter"
  /\ pc = "enter" => Depth < layers
  /\ pc = "callback" => Depth = layers
  /\ pc \in {"providers_before", "providers_after", "notify"} => stack[Depth].monitored
  /\ pc \in {"enter", "providers_before", "callback"} => reports = <<>> /\ outcome = "ok"

\* l is the list of the innermost monitored one of the first n wrappers of s.
Installed(s, n, l) ==
  \/ l = 0 /\ \A j \in 1 .. n : ~s[j].monitored
  \/ \E j \in 1 .. n : /\ s[j].monitored /\ l = s[j].list
                       /\ \A i \in j + 1 .. n : ~s[i].monitored

\* The wrappers whose `finally` is still to come.
Within == IF pc \in {"providers_after", "notify"} THEN Depth - 1 ELSE Depth

\* Each wrapper has a list of its own, and remembers the one it displaced.
Chain ==
  /\ Installed(stack, Within, owner)
  /\ \A k \in 1 .. Depth : stack[k].monitored =>
       stack[k].list \in 1 .. Len(lists) /\ Installed(stack, k - 1, stack[k].previous)
  /\ \A j, k \in 1 .. Depth : j < k /\ stack[j].monitored /\ stack[k].monitored =>
       stack[j].list < stack[k].list

\* A list holds operations of its own wrapper, and of this handle.
Recorded ==
  /\ \A l \in 1 .. Len(lists) :
       /\ Len(lists[l]) <= MaxEvents /\ Len(lists[l]) <= Len(io)
       /\ \A e \in Range(lists[l]) : e.handle = handle /\ e.nr \in 1 .. Len(io)
  /\ \A k \in 1 .. Depth : stack[k].monitored =>
       \A e \in Range(lists[stack[k].list]) : io[e.nr].layer = k

\* Reports come from the inside out, one of each wrapper at most.
Reported ==
  /\ \A r \in 1 .. Len(reports) :
       /\ reports[r].layer \in 1 .. layers
       /\ reports[r].layer > Depth \/ (reports[r].layer = Depth /\ pc = "notify")
       /\ reports[r].reason = "io_blocking" <=> reports[r].events # <<>>
       /\ reports[r].level = Level(Score(reports[r].events))
       /\ \A e \in Range(reports[r].events) :
            e.handle = handle /\ e.nr \in 1 .. Len(io) /\ io[e.nr].layer = reports[r].layer
  /\ \A r, q \in 1 .. Len(reports) : r < q => reports[r].layer > reports[q].layer
  /\ pc = "notify" => reports # <<>> /\ reports[Len(reports)].layer = Depth

\* While a monitored wrapper is there, the raise flag is this handle's.
Enabled == \E n \in 1 .. Len(io) : io[n].enabled

Flags ==
  /\ \A k \in 1 .. Depth : stack[k].monitored /\ shouldRaise => Enabled
  /\ \A k \in 1 .. Depth : stack[k].flag => Enabled
  /\ RaiseJustified

\* The wrapper next to the callback: nothing was raised since it was entered,
\* and the flag remembers whether one of its operations was done with raising
\* enabled, first in the thread's local and then in the wrapper's.
Alarm ==
  /\ stack # <<>> /\ Depth = layers /\ stack[Depth].monitored =>
       /\ ~exceptionRaised
       /\ pc # "notify" =>
            \A e \in Range(lists[stack[Depth].list]) : io[e.nr].enabled => shouldRaise
       /\ pc = "notify" =>
            \A e \in Range(reports[Len(reports)].events) : io[e.nr].enabled => stack[Depth].flag
  /\ ViolationRaises

\* A watched operation is in the list of its wrapper until that has reported it.
Kept ==
  OnMainThread /\ outcome = "ok" /\ Len(io) <= MaxEvents =>
    \A n \in 1 .. Len(io) : io[n].watched =>
      IF io[n].layer < Depth \/ (io[n].layer = Depth /\ pc # "notify")
      THEN /\ io[n].layer \in 1 .. Depth /\ stack[io[n].layer].monitored
           /\ \E e \in Range(lists[stack[io[n].layer].list]) : e.nr = n
      ELSE \E r \in 1 .. Len(reports) : \E e \in Range(reports[r].events) : e.nr = n

HandleInv ==
  /\ Types
  /\ Control
  /\ Chain
  /\ Recorded
  /\ Reported
  /\ Flags
  /\ Alarm
  /\ Kept

-----------------------------------------------------------------------------
(* Sequences, and which list is installed.                                   *)

LEMMA SeqFacts ==
  ASSUME NEW S, NEW s \in Seq(S)
  PROVE  /\ Len(s) \in Nat /\ DOMAIN s = 1 .. Len(s)
         /\ s = <<>> <=> Len(s) = 0
         /\ \A i \in 1 .. Len(s) : s[i] \in S
         /\ Range(s) = {s[i] : i \in 1 .. Len(s)}
         /\ \A x \in Range(s) : x \in S
<1>1. Len(s) \in Nat /\ DOMAIN s = 1 .. Len(s) /\ (s = <<>> <=> Len(s) = 0)
  BY LenProperties, EmptySeq
<1>2. \A i \in 1 .. Len(s) : s[i] \in S
  BY ElementOfSeq
<1>. QED
  BY <1>1, <1>2 DEF Range

LEMMA AppendFacts ==
  ASSUME NEW S, NEW s \in Seq(S), NEW e \in S
  PROVE  /\ Append(s, e) \in Seq(S) /\ Len(Append(s, e)) = Len(s) + 1
         /\ Append(s, e) # <<>>
         /\ \A i \in 1 .. Len(s) : Append(s, e)[i] = s[i]
         /\ Append(s, e)[Len(s) + 1] = e
         /\ Range(Append(s, e)) = Range(s) \cup {e}
<1>. DEFINE t == Append(s, e)
<1>1. /\ t \in Seq(S) /\ Len(t) = Len(s) + 1
      /\ \A i \in 1 .. Len(s) : t[i] = s[i]
      /\ t[Len(s) + 1] = e
  BY AppendProperties
<1>2. Len(s) \in Nat /\ Range(s) = {s[i] : i \in 1 .. Len(s)}
  BY SeqFacts
<1>. HIDE DEF t
<1>3. Range(t) = {t[i] : i \in 1 .. Len(s) + 1} /\ t # <<>>
  BY <1>1, <1>2, SeqFacts
<1>4. 1 .. Len(s) + 1 = (1 .. Len(s)) \cup {Len(s) + 1}
  BY <1>2
<1>5. Range(t) = Range(s) \cup {e}
  BY <1>1, <1>2, <1>3, <1>4
<1>. QED
  BY <1>1, <1>3, <1>5 DEF t

LEMMA FrontFacts ==
  ASSUME NEW S, NEW s \in Seq(S), s # <<>>
  PROVE  /\ Front(s) \in Seq(S) /\ Len(Front(s)) = Len(s) - 1
         /\ \A k \in 1 .. Len(s) - 1 : Front(s)[k] = s[k]
<1>1. Len(s) \in Nat /\ Len(s) >= 1 /\ \A k \in 1 .. Len(s) : s[k] \in S
  BY SeqFacts
<1>2. \A k \in 1 .. Len(s) - 1 : s[k] \in S
  BY <1>1
<1>3. /\ Front(s) \in Seq(S)
      /\ Len(Front(s)) = IF 1 <= Len(s) - 1 THEN Len(s) - 1 - 1 + 1 ELSE 0
      /\ \A k \in 1 .. Len(s) - 1 - 1 + 1 : Front(s)[k] = s[1 + k - 1]
  BY <1>1, <1>2, SubSeqProperties DEF Front
<1>. HIDE DEF Front
<1>4. Len(s) - 1 - 1 + 1 = Len(s) - 1 /\ \A k \in 1 .. Len(s) - 1 : 1 + k - 1 = k
  BY <1>1
<1>5. \A n \in Nat : n >= 1 => (IF 1 <= n - 1 THEN n - 1 - 1 + 1 ELSE 0) = n - 1
  OBVIOUS
<1>. QED
  BY <1>1, <1>3, <1>4, <1>5

\* Only the first n wrappers matter.
LEMMA InstalledSame ==
  ASSUME NEW s, NEW t, NEW n \in Nat, NEW l,
         \A k \in 1 .. n : (t[k].monitored <=> s[k].monitored) /\ t[k].list = s[k].list,
         Installed(s, n, l)
  PROVE  Installed(t, n, l)
<1>1. CASE l = 0 /\ \A j \in 1 .. n : ~s[j].monitored
  BY <1>1 DEF Installed
<1>2. ASSUME NEW j \in 1 .. n, s[j].monitored, l = s[j].list, \A i \in j + 1 .. n : ~s[i].monitored
      PROVE  Installed(t, n, l)
  <2>1. \A i \in j + 1 .. n : i \in 1 .. n
    OBVIOUS
  <2>. QED
    BY <1>2, <2>1 DEF Installed
<1>. QED
  BY <1>1, <1>2 DEF Installed

\* One wrapper more, or one less.
LEMMA InstalledNext ==
  ASSUME NEW s, NEW n \in Nat, NEW l
  PROVE  /\ s[n + 1].monitored /\ l = s[n + 1].list => Installed(s, n + 1, l)
         /\ ~s[n + 1].monitored => (Installed(s, n, l) <=> Installed(s, n + 1, l))
<1>1. 1 .. n + 1 = (1 .. n) \cup {n + 1} /\ n + 1 \in 1 .. n + 1 /\ n + 1 + 1 .. n + 1 = {}
  OBVIOUS
<1>2. \A j \in 1 .. n : j + 1 .. n + 1 = (j + 1 .. n) \cup {n + 1}
  OBVIOUS
<1>. QED
  BY <1>1, <1>2 DEF Installed

\* The wrapper an operation belongs to is the one whose list is installed.
LEMMA Owner ==
  ASSUME Types, Chain
  PROVE  \/ Belongs = 0 /\ owner = 0
         \/ /\ Belongs \in 1 .. Depth /\ Belongs <= Within /\ owner # 0
            /\ stack[Belongs].monitored /\ owner = stack[Belongs].list
<1>. DEFINE open == {k \in 1 .. Within : stack[k].monitored}
<1>1. Belongs = IF open = {} THEN 0 ELSE Max(open)
  BY DEF Belongs, Within
<1>2. Depth \in Nat /\ Within \in Int /\ Within <= Depth
  BY SeqFacts DEF Types, Depth, Within
<1>3. CASE owner = 0 /\ \A j \in 1 .. Within : ~stack[j].monitored
  BY <1>1, <1>3
<1>4. ASSUME NEW j \in 1 .. Within, stack[j].monitored, owner = stack[j].list,
             \A i \in j + 1 .. Within : ~stack[i].monitored
      PROVE  Belongs = j /\ j \in 1 .. Depth /\ j <= Within /\ owner # 0
  <2>1. j \in open /\ open \subseteq Nat
    BY <1>2, <1>4
  <2>2. \A y \in open : j >= y
    <3>1. ASSUME NEW y \in open, ~(j >= y) PROVE FALSE
      <4>1. y \in j + 1 .. Within
        BY <1>2, <3>1
      <4>. QED
        BY <1>4, <3>1, <4>1
    <3>. QED
      BY <3>1
  <2>. HIDE DEF open
  <2>3. \A x \in open : (\A y \in open : x >= y) => x = j
    BY <2>1, <2>2
  <2>4. Max(open) = j
    BY <2>1, <2>2, <2>3 DEF Max
  <2>5. j \in 1 .. Depth
    BY <1>2
  <2>6. stack[j].list \in 1 .. Len(lists)
    BY <1>4, <2>5 DEF Chain
  <2>. QED
    BY <1>1, <1>4, <2>1, <2>4, <2>5, <2>6
<1>. QED
  BY <1>3, <1>4 DEF Chain, Installed

LEMMA HighLevel == \A score : Level(score) = "high" <=> score >= ThresholdHigh
  BY DEF Level

\* The sequences of the state.
LEMMA Shape ==
  ASSUME Types
  PROVE  /\ Depth \in Nat /\ DOMAIN stack = 1 .. Depth /\ (stack = <<>> <=> Depth = 0)
         /\ layers \in Nat /\ Len(lists) \in Nat /\ Len(io) \in Nat /\ Len(reports) \in Nat
         /\ DOMAIN io = 1 .. Len(io) /\ DOMAIN lists = 1 .. Len(lists)
         /\ DOMAIN reports = 1 .. Len(reports)
         /\ \A k \in 1 .. Depth :
              /\ stack[k] \in Frame
              /\ stack[k].monitored \in BOOLEAN /\ stack[k].list \in Nat
              /\ stack[k].previous \in Nat /\ stack[k].flag \in BOOLEAN
              /\ stack[k].slow \in BOOLEAN
         /\ \A n \in 1 .. Len(io) :
              /\ io[n] \in Op /\ io[n].layer \in Nat
              /\ io[n].enabled \in BOOLEAN /\ io[n].watched \in BOOLEAN
         /\ \A l \in 1 .. Len(lists) : lists[l] \in Seq(Event) /\ Len(lists[l]) \in Nat
         /\ \A r \in 1 .. Len(reports) : /\ reports[r] \in SlowTaskEvent
                                          /\ reports[r].events \in Seq(Event)
                                          /\ reports[r].layer \in Nat
<1>1. /\ Depth \in Nat /\ DOMAIN stack = 1 .. Depth /\ (stack = <<>> <=> Depth = 0)
      /\ \A k \in 1 .. Depth : stack[k] \in Frame
  BY SeqFacts DEF Types, Depth
<1>2. /\ Len(lists) \in Nat /\ DOMAIN lists = 1 .. Len(lists)
      /\ \A l \in 1 .. Len(lists) : lists[l] \in Seq(Event)
  BY SeqFacts DEF Types
<1>3. /\ Len(io) \in Nat /\ DOMAIN io = 1 .. Len(io)
      /\ \A n \in 1 .. Len(io) : io[n] \in Op
  BY SeqFacts DEF Types
<1>4. /\ Len(reports) \in Nat /\ DOMAIN reports = 1 .. Len(reports)
      /\ \A r \in 1 .. Len(reports) : reports[r] \in SlowTaskEvent
  BY SeqFacts DEF Types
<1>5. layers \in Nat
  BY ConstantsAssumption DEF Types
<1>6. \A l \in 1 .. Len(lists) : Len(lists[l]) \in Nat
  BY <1>2, SeqFacts
<1>7. \A r \in SlowTaskEvent : r.events \in Seq(Event) /\ r.layer \in Nat
  BY DEF SlowTaskEvent
<1>8. \A f \in Frame : /\ f.monitored \in BOOLEAN /\ f.list \in Nat /\ f.previous \in Nat
                        /\ f.flag \in BOOLEAN /\ f.slow \in BOOLEAN
  BY DEF Frame
<1>9. \A o \in Op : o.layer \in Nat /\ o.enabled \in BOOLEAN /\ o.watched \in BOOLEAN
  BY DEF Op
<1>. QED
  BY <1>1, <1>2, <1>3, <1>4, <1>5, <1>6, <1>7, <1>8, <1>9

-----------------------------------------------------------------------------
(* Steps that change flags only.                                             *)

LEMMA FlagStep ==
  ASSUME HandleInv,
         SetRaise \/ SetMonitoring \/ OtherLoopEnters \/ (\E w \in Weights : IoOutside(w))
  PROVE  HandleInv'
<1>. USE DEF HandleInv
<1>1. /\ UNCHANGED <<lists, owner, shouldRaise, frame, seen>>
      /\ {monitoringActive', raiseEnabled', exceptionRaised'} \subseteq BOOLEAN
      /\ exceptionRaised' => exceptionRaised
  <2>1. CASE SetRaise \/ SetMonitoring
    <3>1. raiseEnabled' \in BOOLEAN /\ monitoringActive' \in BOOLEAN
      BY <2>1 DEF SetRaise, SetMonitoring, Types
    <3>. QED
      BY <2>1, <3>1 DEF SetRaise, SetMonitoring, local, Types
  <2>2. CASE OtherLoopEnters
    BY <2>2 DEF OtherLoopEnters, local, Types
  <2>3. CASE \E w \in Weights : IoOutside(w)
    <3>1. pc = "idle" /\ Depth = 0
      BY <2>3, Shape DEF IoOutside, Control
    <3>2. owner = 0
      BY <3>1, Owner, Shape
    <3>. QED
      BY <2>3, <3>2 DEF IoOutside, Record, Heard, flags, Types
  <2>. QED
    BY <2>1, <2>2, <2>3
<1>2. Types' /\ Control'
  BY <1>1 DEF frame, seen, Types, Control, Depth
<1>3. Chain' /\ Recorded'
  BY <1>1 DEF frame, seen, Chain, Recorded, Installed, Within, Depth
<1>4. Reported'
  BY <1>1 DEF frame, seen, Reported, Depth
<1>5. Flags'
  BY <1>1 DEF frame, seen, Flags, Enabled, RaiseJustified, Depth
<1>6. Alarm'
  BY <1>1 DEF frame, seen, Alarm, ViolationRaises, Depth
<1>7. Kept'
  BY <1>1 DEF frame, seen, Kept, Depth
<1>. QED
  BY <1>2, <1>3, <1>4, <1>5, <1>6, <1>7

-----------------------------------------------------------------------------
(* Steps of the wrapper.                                                     *)

\* A handle starts: there is no list, no operation and no report yet.
LEMMA StartHandleStep ==
  ASSUME HandleInv, NEW n \in 1 .. MaxLayers, NEW enabled \in BOOLEAN, StartHandle(n, enabled)
  PROVE  HandleInv'
<1>. USE DEF HandleInv
<1>1. pc = "idle" /\ stack = <<>> /\ Depth = 0
  BY Shape DEF StartHandle, Control
<1>2. owner = 0
  BY <1>1, Owner, Shape
<1>3. /\ handle' = handle + 1 /\ layers' = n /\ raiseEnabled' = enabled /\ pc' = "enter"
      /\ outcome' = "ok" /\ io' = <<>> /\ reports' = <<>> /\ lists' = <<>>
      /\ UNCHANGED <<monitoringActive, exceptionRaised, owner, shouldRaise, stack>>
  BY <1>2 DEF StartHandle
<1>4. /\ Len(<<>>) = 0 /\ 1 .. 0 = {} /\ Depth' = 0
      /\ <<>> \in Seq(Seq(Event)) /\ <<>> \in Seq(Op) /\ <<>> \in Seq(SlowTaskEvent)
  BY <1>1, <1>3, EmptySeq DEF Depth
<1>5. Types'
  BY <1>1, <1>2, <1>3, <1>4, ConstantsAssumption DEF Types
<1>6. Control'
  BY <1>1, <1>3, <1>4 DEF Control
<1>7. Chain'
  BY <1>1, <1>2, <1>3, <1>4 DEF Chain, Installed, Within
<1>8. Recorded' /\ Reported'
  BY <1>1, <1>3, <1>4 DEF Recorded, Reported
<1>9. Flags' /\ Alarm' /\ Kept'
  BY <1>1, <1>3, <1>4 DEF Flags, RaiseJustified, Alarm, ViolationRaises, Kept
<1>. QED
  BY <1>5, <1>6, <1>7, <1>8, <1>9

\* Control moves on inside the innermost wrapper, before or at its callback.
LEMMA MoveStep ==
  ASSUME HandleInv, StartSlice \/ (\E how \in {"ok", "user_error"} : CallbackEnds(how))
  PROVE  HandleInv'
<1>. USE DEF HandleInv
<1>1. /\ UNCHANGED <<flags, local, seen, stack, layers>>
      /\ pc \in {"providers_before", "callback"} /\ reports = <<>>
      /\ \/ pc' \in {"callback", "enter"} /\ outcome' = outcome
               /\ (pc' = "callback" <=> Depth = layers)
         \/ pc' = "unwind" /\ outcome' \in {"ok", "user_error"}
  BY DEF StartSlice, CallbackEnds, Control
<1>2. stack # <<>> /\ reports' = <<>> /\ Len(<<>>) = 0 /\ 1 .. 0 = {}
  BY <1>1, EmptySeq DEF Control, seen
<1>3. Types'
  BY <1>1 DEF Types, flags, local, seen, Depth, UserCode
<1>4. Control'
  BY <1>1, <1>2, Shape DEF Control, Types, seen, Depth
<1>5. Chain' /\ Recorded'
  BY <1>1 DEF Chain, Recorded, Installed, Within, local, seen, Depth
<1>6. Reported'
  BY <1>1, <1>2 DEF Reported
<1>7. Flags'
  BY <1>1, <1>2 DEF Flags, Enabled, RaiseJustified, flags, local, seen, Depth
<1>8. Alarm'
  BY <1>1, <1>2 DEF Alarm, ViolationRaises, flags, local, seen, Depth
<1>9. Kept'
  BY <1>1, <1>2 DEF Control, Kept, local, seen, Depth
<1>. QED
  BY <1>3, <1>4, <1>5, <1>6, <1>7, <1>8, <1>9

LEMMA InstalledRange ==
  ASSUME Types, Chain, NEW n \in 0 .. Depth, NEW l, Installed(stack, n, l)
  PROVE  l \in 0 .. Len(lists)
<1>1. Depth \in Nat /\ Len(lists) \in Nat
  BY Shape
<1>2. \A j \in 1 .. n : j \in 1 .. Depth
  BY <1>1
<1>. QED
  BY <1>1, <1>2 DEF Installed, Chain

\* A wrapper is left: what is true of it, its list and its reports.
LEMMA LeaveStep ==
  ASSUME Types, Control, Chain, Recorded, Reported,
         pc \in {"unwind", "providers_after", "notify"}, Leave,
         UNCHANGED <<lists, io, reports, handle, layers, monitoringActive, raiseEnabled, shouldRaise>>,
         exceptionRaised' \in BOOLEAN, outcome' \in {"ok", "user_error", "high_severity"},
         Installed(stack, Depth - 1, owner')
  PROVE  /\ Types' /\ Control' /\ Chain' /\ Recorded' /\ Reported'
         /\ Depth \in Nat \ {0} /\ Depth' = Depth - 1 /\ pc' # "notify"
         /\ \A k \in 1 .. Depth - 1 : k \in 1 .. Depth /\ stack'[k] = stack[k]
<1>1. stack # <<>> /\ Depth \in Nat /\ Depth >= 1
  BY Shape DEF Control
<1>2. /\ stack' \in Seq(Frame) /\ Depth' = Depth - 1
      /\ \A k \in 1 .. Depth - 1 : stack'[k] = stack[k]
  BY <1>1, FrontFacts DEF Types, Leave, Depth
<1>3. \A k \in 1 .. Depth - 1 : k \in 1 .. Depth /\ k - 1 \in Nat /\ \A i \in 1 .. k - 1 : i \in 1 .. Depth - 1
  BY <1>1
<1>4. pc' = IF Depth = 1 THEN "idle" ELSE "unwind"
  BY DEF Leave
<1>5. stack' = <<>> <=> Depth = 1
  <2>1. stack' = <<>> <=> Depth' = 0
    BY <1>2, SeqFacts DEF Depth
  <2>. QED
    BY <1>1, <1>2, <2>1
<1>6. Types'
  <2>1. owner' \in 0 .. Len(lists)
    BY <1>1, InstalledRange
  <2>2. Depth' <= layers
    BY <1>1, <1>2, Shape DEF Types
  <2>. QED
    BY <1>2, <1>4, <2>1, <2>2 DEF Types
<1>7. Control'
  BY <1>4, <1>5 DEF Control
<1>8. Chain'
  <2>1. Within' = Depth - 1
    BY <1>2, <1>4 DEF Within
  <2>2. Installed(stack', Depth - 1, owner')
    <3>. DEFINE m == Depth - 1
    <3>1. /\ m \in Nat /\ Installed(stack, m, owner')
          /\ \A k \in 1 .. m : /\ stack'[k].monitored <=> stack[k].monitored
                               /\ stack'[k].list = stack[k].list
      BY <1>1, <1>2
    <3>. HIDE DEF m
    <3>2. Installed(stack', m, owner')
      BY <3>1, InstalledSame
    <3>. QED
      BY <3>2 DEF m
  <2>3. ASSUME NEW k \in 1 .. Depth - 1, stack[k].monitored
        PROVE  Installed(stack', k - 1, stack[k].previous)
    <3>1. Installed(stack, k - 1, stack[k].previous)
      BY <1>3, <2>3 DEF Chain
    <3>. QED
      BY <1>2, <1>3, <3>1, InstalledSame
  <2>. QED
    BY <1>2, <1>3, <2>1, <2>2, <2>3 DEF Chain
<1>9. Recorded'
  BY <1>2, <1>3 DEF Recorded
<1>10. Reported'
  <2>1. \A r \in 1 .. Len(reports) : reports[r].layer > Depth - 1
    BY <1>1, Shape DEF Reported
  <2>. QED
    BY <1>2, <1>4, <2>1 DEF Reported
<1>. QED
  BY <1>1, <1>2, <1>3, <1>4, <1>6, <1>7, <1>8, <1>9, <1>10

\* What the flags say when a wrapper is left.
LEMMA LeaveFlags ==
  ASSUME Types, Flags, Depth \in Nat \ {0}, Depth' = Depth - 1,
         \A k \in 1 .. Depth - 1 : k \in 1 .. Depth /\ stack'[k] = stack[k],
         UNCHANGED <<io, reports, shouldRaise>>,
         outcome' = outcome \/ outcome' # "high_severity"
  PROVE  Flags'
<1>1. RaiseJustified'
  BY DEF Flags, RaiseJustified
<1>. QED
  BY <1>1 DEF Flags, Enabled

\* An operation of the wrapper that is left must have been reported by then.
LEMMA LeaveKept ==
  ASSUME Types, Kept, Depth \in Nat \ {0}, Depth' = Depth - 1, pc' # "notify",
         \A k \in 1 .. Depth - 1 : k \in 1 .. Depth /\ stack'[k] = stack[k],
         UNCHANGED <<lists, io, reports>>,
         outcome' = "ok" => outcome = "ok",
         \A n \in 1 .. Len(io) :
           /\ OnMainThread /\ outcome' = "ok" /\ Len(io) <= MaxEvents
           /\ io[n].watched /\ io[n].layer = Depth
           => pc = "notify"
  PROVE  Kept'
<1>1. SUFFICES ASSUME OnMainThread, outcome' = "ok", Len(io) <= MaxEvents,
                      NEW n \in 1 .. Len(io), io[n].watched
               PROVE  IF io[n].layer < Depth - 1 \/ io[n].layer = Depth - 1
                      THEN /\ io[n].layer \in 1 .. Depth - 1 /\ stack'[io[n].layer].monitored
                           /\ \E e \in Range(lists[stack'[io[n].layer].list]) : e.nr = n
                      ELSE \E r \in 1 .. Len(reports) : \E e \in Range(reports[r].events) : e.nr = n
  BY DEF Kept
<1>2. IF io[n].layer < Depth \/ (io[n].layer = Depth /\ pc # "notify")
      THEN /\ io[n].layer \in 1 .. Depth /\ stack[io[n].layer].monitored
           /\ \E e \in Range(lists[stack[io[n].layer].list]) : e.nr = n
      ELSE \E r \in 1 .. Len(reports) : \E e \in Range(reports[r].events) : e.nr = n
  BY <1>1 DEF Kept
<1>3. io[n].layer \in Nat
  BY Shape
<1>4. CASE io[n].layer < Depth
  <2>1. /\ io[n].layer \in 1 .. Depth /\ stack[io[n].layer].monitored
        /\ \E e \in Range(lists[stack[io[n].layer].list]) : e.nr = n
    BY <1>2, <1>4
  <2>2. io[n].layer \in 1 .. Depth - 1 /\ (io[n].layer < Depth - 1 \/ io[n].layer = Depth - 1)
    BY <1>3, <1>4, <2>1
  <2>3. stack'[io[n].layer] = stack[io[n].layer]
    BY <2>2
  <2>. QED
    BY <2>1, <2>2, <2>3
<1>5. CASE ~(io[n].layer < Depth)
  <2>1. ~(io[n].layer = Depth /\ pc # "notify")
    BY <1>1
  <2>2. \E r \in 1 .. Len(reports) : \E e \in Range(reports[r].events) : e.nr = n
    BY <1>2, <1>5, <2>1
  <2>3. ~(io[n].layer < Depth - 1 \/ io[n].layer = Depth - 1)
    BY <1>3, <1>5
  <2>. QED
    BY <2>2, <2>3
<1>. QED
  BY <1>4, <1>5

\* Without a report of its own a wrapper leaves nothing to raise for.
LEMMA LeaveAlarm ==
  ASSUME Types, Reported, Alarm, pc # "notify", Depth \in Nat \ {0}, Depth' = Depth - 1,
         UNCHANGED <<io, reports, layers>>,
         outcome = "high_severity" => outcome' = "high_severity"
  PROVE  Alarm'
<1>1. Depth' # layers'
  BY DEF Types
<1>2. \A r \in 1 .. Len(reports) : reports[r].layer = layers => Depth < layers
  BY Shape DEF Reported
<1>3. ViolationRaises'
  BY <1>2, Shape DEF Alarm, ViolationRaises
<1>. QED
  BY <1>1, <1>3 DEF Alarm

LEMMA LeaveInactiveStep ==
  ASSUME HandleInv, LeaveInactive
  PROVE  HandleInv'
<1>. USE DEF HandleInv
<1>1. /\ pc = "unwind" /\ Leave /\ ~stack[Depth].monitored
      /\ UNCHANGED <<flags, local, seen, layers, outcome>>
  BY DEF LeaveInactive, Inner
<1>2. Depth \in Nat \ {0}
  BY <1>1, Shape DEF Control
<1>3. Installed(stack, Depth - 1, owner)
  <2>1. Installed(stack, Depth, owner)
    BY <1>1 DEF Chain, Within
  <2>2. Depth - 1 \in Nat /\ Depth - 1 + 1 = Depth
    BY <1>2
  <2>. QED
    BY <1>1, <2>1, <2>2, InstalledNext
<1>4. /\ Types' /\ Control' /\ Chain' /\ Recorded' /\ Reported'
      /\ Depth' = Depth - 1 /\ pc' # "notify"
      /\ \A k \in 1 .. Depth - 1 : k \in 1 .. Depth /\ stack'[k] = stack[k]
  BY <1>1, <1>3, LeaveStep DEF flags, local, seen, Types
<1>5. Flags'
  BY <1>1, <1>2, <1>4, LeaveFlags DEF local, seen
<1>6. Alarm'
  BY <1>1, <1>2, <1>4, LeaveAlarm DEF seen
<1>7. Kept'
  <2>1. ASSUME NEW n \in 1 .. Len(io), OnMainThread, outcome = "ok", Len(io) <= MaxEvents,
               io[n].watched, io[n].layer = Depth
        PROVE  FALSE
    BY <1>1, <2>1 DEF Kept
  <2>. QED
    BY <1>1, <1>2, <1>4, <2>1, LeaveKept DEF local, seen
<1>. QED
  BY <1>4, <1>5, <1>6, <1>7

LEMMA LeaveRaisingStep ==
  ASSUME HandleInv, LeaveRaising
  PROVE  HandleInv'
<1>. USE DEF HandleInv
<1>1. /\ pc = "unwind" /\ Leave /\ stack[Depth].monitored /\ outcome # "ok"
      /\ owner' = stack[Depth].previous
      /\ UNCHANGED <<flags, seen, shouldRaise, lists, layers, outcome>>
  BY DEF LeaveRaising, Inner, GiveListBack
<1>2. Depth \in Nat \ {0} /\ Depth \in 1 .. Depth
  BY <1>1, Shape DEF Control
<1>3. Installed(stack, Depth - 1, owner')
  BY <1>1, <1>2 DEF Chain
<1>4. /\ Types' /\ Control' /\ Chain' /\ Recorded' /\ Reported'
      /\ Depth' = Depth - 1 /\ pc' # "notify"
      /\ \A k \in 1 .. Depth - 1 : k \in 1 .. Depth /\ stack'[k] = stack[k]
  BY <1>1, <1>3, LeaveStep DEF flags, seen, Types
<1>5. Flags'
  BY <1>1, <1>2, <1>4, LeaveFlags DEF seen
<1>6. Alarm'
  BY <1>1, <1>2, <1>4, LeaveAlarm DEF seen
<1>7. Kept'
  BY <1>1 DEF Kept
<1>. QED
  BY <1>4, <1>5, <1>6, <1>7

\* A report went out: the exception leaves, or only the wrapper does.
LEMMA NotifiedStep ==
  ASSUME HandleInv, Notified
  PROVE  HandleInv'
<1>. USE DEF HandleInv
<1>. DEFINE last == reports[Len(reports)]
<1>1. /\ pc = "notify" /\ Leave /\ stack[Depth].monitored
      /\ exceptionRaised' = (exceptionRaised \/ MustRaise)
      /\ outcome' = IF MustRaise THEN "high_severity" ELSE outcome
      /\ UNCHANGED <<local, seen, monitoringActive, raiseEnabled, layers>>
  BY DEF Notified, Control
<1>2. Depth \in Nat \ {0} /\ Depth \in 1 .. Depth
  BY <1>1, Shape DEF Control
<1>3. /\ Len(reports) \in 1 .. Len(reports) /\ last.layer = Depth
      /\ last.level = Level(Score(last.events))
      /\ last.reason = "io_blocking" <=> last.events # <<>>
      /\ last.events \in Seq(Event)
  <2>1. reports # <<>> /\ Len(reports) \in Nat /\ Len(reports) # 0
    BY <1>1, SeqFacts DEF Reported, Types
  <2>2. Len(reports) \in 1 .. Len(reports)
    BY <2>1
  <2>. QED
    BY <1>1, <2>2, Shape DEF Reported
<1>4. MustRaise <=> /\ last.reason = "io_blocking" /\ last.slow
                    /\ stack[Depth].flag /\ ~exceptionRaised
                    /\ Score(last.events) >= ThresholdHigh
  BY DEF MustRaise, Last, Inner
<1>5. Installed(stack, Depth - 1, owner)
  BY <1>1 DEF Chain, Within
<1>6. exceptionRaised' \in BOOLEAN /\ outcome' \in {"ok", "user_error", "high_severity"}
  BY <1>1 DEF Types
<1>7. /\ Types' /\ Control' /\ Chain' /\ Recorded' /\ Reported'
      /\ Depth' = Depth - 1 /\ pc' # "notify"
      /\ \A k \in 1 .. Depth - 1 : k \in 1 .. Depth /\ stack'[k] = stack[k]
  BY <1>1, <1>5, <1>6, LeaveStep DEF local, seen
<1>8. Flags'
  <2>1. CASE ~MustRaise
    BY <1>1, <1>2, <1>7, <2>1, LeaveFlags DEF local, seen
  <2>2. CASE MustRaise
    <3>1. last.slow /\ last.level = "high" /\ Enabled
      BY <1>2, <1>3, <1>4, <2>2, HighLevel DEF Flags
    <3>2. RaiseJustified'
      BY <1>1, <1>3, <3>1, Shape DEF RaiseJustified, Enabled, seen
    <3>. QED
      BY <1>1, <1>7, <3>2 DEF Flags, Enabled, local, seen
  <2>. QED
    BY <2>1, <2>2
<1>9. ASSUME NEW r \in 1 .. Len(reports), reports[r].layer = layers,
             reports[r].slow, reports[r].level = "high",
             NEW e \in Range(reports[r].events), io[e.nr].enabled
      PROVE  outcome' = "high_severity"
  <2>1. CASE Depth < layers
    <3>1. outcome = "high_severity"
      BY <1>9, <2>1, Shape DEF Alarm, ViolationRaises
    <3>. QED
      BY <1>1, <3>1
  <2>2. CASE ~(Depth < layers)
    <3>1. Depth = layers
      BY <2>2, Shape DEF Types
    <3>2. r = Len(reports)
      <4>1. ~(r < Len(reports))
        BY <1>3, <1>9, <3>1, Shape DEF Reported
      <4>2. Len(reports) \in Nat /\ r \in 1 .. Len(reports)
        BY <1>9, Shape
      <4>3. \A n \in Nat : \A i \in 1 .. n : ~(i < n) => i = n
        OBVIOUS
      <4>. QED
        BY <4>1, <4>2, <4>3
    <3>3. last.slow /\ Score(last.events) >= ThresholdHigh
      BY <1>3, <1>9, <3>2, HighLevel
    <3>4. ~exceptionRaised /\ stack[Depth].flag
      BY <1>1, <1>2, <1>9, <3>1, <3>2, Shape DEF Alarm
    <3>5. last.events # <<>>
      BY <1>3, <1>9, <3>2, EmptySeq, SeqFacts
    <3>. QED
      BY <1>1, <1>3, <1>4, <3>3, <3>4, <3>5
  <2>. QED
    BY <2>1, <2>2
<1>10. Alarm'
  <2>1. Depth' # layers'
    BY <1>1, <1>2, <1>7 DEF Types
  <2>2. ViolationRaises'
    BY <1>1, <1>9, Shape DEF ViolationRaises, seen
  <2>. QED
    BY <2>1, <2>2 DEF Alarm
<1>11. Kept'
  BY <1>1, <1>2, <1>7, LeaveKept DEF local, seen
<1>. QED
  BY <1>7, <1>8, <1>10, <1>11

\* The callback returned: the displaced list is installed again.
LEMMA SliceFinishedStep ==
  ASSUME HandleInv, SliceFinished
  PROVE  HandleInv'
<1>. USE DEF HandleInv
<1>1. /\ pc = "unwind" /\ stack[Depth].monitored /\ outcome = "ok"
      /\ owner' = stack[Depth].previous /\ pc' = "providers_after"
      /\ UNCHANGED <<flags, seen, shouldRaise, stack, lists, layers, outcome>>
  BY DEF SliceFinished, Inner, GiveListBack
<1>2. Depth \in Nat \ {0} /\ Depth \in 1 .. Depth /\ Depth - 1 \in 0 .. Depth /\ stack # <<>>
  BY <1>1, Shape DEF Control
<1>3. Installed(stack, Depth - 1, owner')
  BY <1>1, <1>2 DEF Chain
<1>4. owner' \in 0 .. Len(lists)
  BY <1>2, <1>3, InstalledRange
<1>5. Types'
  BY <1>1, <1>4 DEF Types, flags, seen, Depth, UserCode
<1>6. Control'
  BY <1>1, <1>2 DEF Control, seen, Depth
<1>7. Chain'
  <2>1. Within' = Depth - 1 /\ Depth' = Depth
    BY <1>1 DEF Within, Depth
  <2>. QED
    BY <1>1, <1>3, <2>1 DEF Chain, Installed
<1>8. Recorded' /\ Reported'
  BY <1>1 DEF Recorded, Reported, seen, Depth
<1>9. Flags'
  BY <1>1 DEF Flags, Enabled, RaiseJustified, seen, Depth
<1>10. Alarm' /\ Kept'
  BY <1>1 DEF Alarm, ViolationRaises, Kept, flags, seen, Depth
<1>. QED
  BY <1>5, <1>6, <1>7, <1>8, <1>9, <1>10

\* Nothing to report.
LEMMA NoReportStep ==
  ASSUME HandleInv, Report, Reason = "none"
  PROVE  HandleInv'
<1>. USE DEF HandleInv
<1>1. /\ pc = "providers_after" /\ Leave /\ UNCHANGED <<flags, local, seen, layers, outcome>>
      /\ lists[stack[Depth].list] = <<>>
  BY DEF Report, Reason, Events, Inner, seen
<1>2. Depth \in Nat \ {0}
  BY <1>1, Shape DEF Control
<1>3. Installed(stack, Depth - 1, owner)
  BY <1>1 DEF Chain, Within
<1>4. /\ Types' /\ Control' /\ Chain' /\ Recorded' /\ Reported'
      /\ Depth' = Depth - 1 /\ pc' # "notify"
      /\ \A k \in 1 .. Depth - 1 : k \in 1 .. Depth /\ stack'[k] = stack[k]
  BY <1>1, <1>3, LeaveStep DEF flags, local, seen, Types
<1>5. Flags'
  BY <1>1, <1>2, <1>4, LeaveFlags DEF local, seen
<1>6. Alarm'
  BY <1>1, <1>2, <1>4, LeaveAlarm DEF seen
<1>7. Kept'
  <2>1. Range(<<>>) = {}
    BY DEF Range
  <2>2. ASSUME NEW n \in 1 .. Len(io), OnMainThread, outcome = "ok", Len(io) <= MaxEvents,
               io[n].watched, io[n].layer = Depth
        PROVE  FALSE
    BY <1>1, <2>1, <2>2 DEF Kept
  <2>. QED
    BY <1>1, <1>2, <1>4, <2>2, LeaveKept DEF local, seen
<1>. QED
  BY <1>4, <1>5, <1>6, <1>7

\* A report goes out, with what the wrapper's list holds.
LEMMA ReportStep ==
  ASSUME HandleInv, Report, Reason # "none"
  PROVE  HandleInv'
<1>. USE DEF HandleInv
<1>. DEFINE own == lists[stack[Depth].list]
            new == [layer |-> Depth, reason |-> Reason, events |-> own,
                    slow |-> stack[Depth].slow, level |-> Level(Score(own))]
            raised == [stack[Depth] EXCEPT !.flag = shouldRaise]
<1>1. /\ pc = "providers_after" /\ pc' = "notify" /\ stack[Depth].monitored
      /\ reports' = Append(reports, new)
      /\ stack' = [stack EXCEPT ![Depth] = raised]
      /\ UNCHANGED <<flags, local, layers, outcome, handle, io>>
  BY DEF Report, ReportedWith, Inner, Events, Control
<1>2. Depth \in Nat \ {0} /\ Depth \in 1 .. Depth /\ stack # <<>> /\ Depth <= layers
  BY <1>1, Shape DEF Control, Types
<1>3. own \in Seq(Event) /\ stack[Depth].list \in 1 .. Len(lists)
  BY <1>1, <1>2, Shape DEF Chain
<1>4. (Reason = "io_blocking" <=> own # <<>>) /\ Reason \in {"io_blocking", "cpu_blocking"}
  BY DEF Reason, Events, Inner
<1>5. /\ new \in SlowTaskEvent /\ new.layer = Depth /\ new.reason = Reason
      /\ new.events = own /\ new.level = Level(Score(own)) /\ new.slow = stack[Depth].slow
  <2>1. Level(Score(own)) \in {"high", "medium", "low"}
    BY DEF Level
  <2>2. stack[Depth].slow \in BOOLEAN
    BY <1>2, Shape
  <2>. HIDE DEF own
  <2>. QED
    BY <1>2, <1>3, <1>4, <2>1, <2>2 DEF SlowTaskEvent
<1>. HIDE DEF new
<1>6. /\ reports' \in Seq(SlowTaskEvent) /\ reports' # <<>>
      /\ Len(reports') = Len(reports) + 1 /\ Len(reports) \in Nat
      /\ \A r \in 1 .. Len(reports) : reports'[r] = reports[r]
      /\ reports'[Len(reports) + 1] = new
      /\ \A r \in 1 .. Len(reports') : r \in 1 .. Len(reports) \/ r = Len(reports) + 1
      /\ \A r \in 1 .. Len(reports) : r \in 1 .. Len(reports')
      /\ Len(reports) + 1 \in 1 .. Len(reports')
  <2>1. reports \in Seq(SlowTaskEvent) /\ Len(reports) \in Nat
    BY Shape DEF Types
  <2>2. /\ reports' \in Seq(SlowTaskEvent) /\ reports' # <<>>
        /\ Len(reports') = Len(reports) + 1
        /\ \A r \in 1 .. Len(reports) : reports'[r] = reports[r]
        /\ reports'[Len(reports) + 1] = new
    BY <1>1, <1>5, <2>1, AppendFacts
  <2>. QED
    BY <2>1, <2>2
<1>7. /\ raised \in Frame /\ raised.monitored = stack[Depth].monitored
      /\ raised.list = stack[Depth].list /\ raised.previous = stack[Depth].previous
      /\ raised.flag = shouldRaise
  BY <1>2, Shape DEF Frame, Types
<1>. HIDE DEF raised
<1>8. /\ stack' \in Seq(Frame) /\ Depth' = Depth /\ stack'[Depth] = raised
      /\ \A k \in 1 .. Depth : k # Depth => stack'[k] = stack[k]
  BY <1>1, <1>2, <1>7, ExceptSeq DEF Types, Depth
<1>9. /\ stack' # <<>>
      /\ \A k \in 1 .. Depth : /\ stack'[k].monitored <=> stack[k].monitored
                               /\ stack'[k].list = stack[k].list
                               /\ stack'[k].previous = stack[k].previous
  <2>1. stack' # <<>>
    BY <1>2, <1>8, SeqFacts DEF Depth
  <2>. QED
    BY <1>7, <1>8, <2>1
<1>10. Types'
  BY <1>1, <1>2, <1>6, <1>8 DEF Types, flags, local, UserCode
<1>11. Control'
  BY <1>1, <1>8, <1>9, <1>2 DEF Control
<1>12. Chain'
  <2>1. \A n \in 0 .. Depth, l \in Nat : Installed(stack, n, l) => Installed(stack', n, l)
    <3>1. ASSUME NEW n \in 0 .. Depth, NEW l, Installed(stack, n, l)
          PROVE  Installed(stack', n, l)
      <4>1. n \in Nat /\ \A k \in 1 .. n : k \in 1 .. Depth
        BY <1>2, <3>1
      <4>. QED
        BY <1>9, <3>1, <4>1, InstalledSame
    <3>. QED
      BY <3>1
  <2>2. Within' = Depth - 1 /\ Within = Depth - 1 /\ Depth - 1 \in 0 .. Depth
    BY <1>1, <1>2, <1>8 DEF Within
  <2>3. owner \in Nat /\ \A k \in 1 .. Depth : k - 1 \in 0 .. Depth /\ stack[k].previous \in Nat
    BY <1>2, Shape DEF Types
  <2>4. Installed(stack', Within', owner')
    BY <1>1, <2>1, <2>2, <2>3 DEF Chain, local
  <2>5. \A k \in 1 .. Depth : stack'[k].monitored => Installed(stack', k - 1, stack'[k].previous)
    BY <1>9, <2>1, <2>3 DEF Chain
  <2>. QED
    BY <1>1, <1>8, <1>9, <2>4, <2>5 DEF Chain, local
<1>13. Recorded'
  BY <1>1, <1>8, <1>9 DEF Recorded, local
<1>14. \A e \in Range(own) : e.handle = handle /\ e.nr \in 1 .. Len(io) /\ io[e.nr].layer = Depth
  BY <1>1, <1>2, <1>3 DEF Recorded
<1>15. Reported'
  <2>1. \A r \in 1 .. Len(reports) : reports[r].layer > Depth
    BY <1>1 DEF Reported
  <2>2. ASSUME NEW r \in 1 .. Len(reports')
        PROVE  /\ reports'[r].layer \in 1 .. layers
               /\ reports'[r].layer > Depth \/ reports'[r].layer = Depth
               /\ reports'[r].reason = "io_blocking" <=> reports'[r].events # <<>>
               /\ reports'[r].level = Level(Score(reports'[r].events))
               /\ \A e \in Range(reports'[r].events) :
                    e.handle = handle /\ e.nr \in 1 .. Len(io) /\ io[e.nr].layer = reports'[r].layer
    <3>1. CASE r \in 1 .. Len(reports)
      BY <1>6, <2>1, <3>1 DEF Reported
    <3>2. CASE r = Len(reports) + 1
      <4>1. reports'[r] = new /\ Depth \in 1 .. layers
        BY <1>2, <1>6, <3>2, Shape
      <4>. QED
        BY <1>4, <1>5, <1>14, <4>1
    <3>. QED
      BY <1>6, <3>1, <3>2
  <2>3. ASSUME NEW r \in 1 .. Len(reports'), NEW q \in 1 .. Len(reports'), r < q
        PROVE  reports'[r].layer > reports'[q].layer
    <3>1. r \in 1 .. Len(reports) /\ reports'[r] = reports[r]
      BY <1>6, <2>3
    <3>2. CASE q \in 1 .. Len(reports)
      BY <1>6, <2>3, <3>1, <3>2 DEF Reported
    <3>3. CASE q = Len(reports) + 1
      BY <1>5, <1>6, <2>1, <3>1, <3>3
    <3>. QED
      BY <1>6, <3>2, <3>3
  <2>4. reports'[Len(reports')].layer = Depth
    BY <1>5, <1>6
  <2>. QED
    BY <1>1, <1>6, <1>8, <2>2, <2>3, <2>4 DEF Reported
<1>16. Flags'
  <2>1. RaiseJustified'
    BY <1>1, <1>6, Shape DEF Flags, RaiseJustified
  <2>2. \A k \in 1 .. Depth : stack'[k].flag => Enabled
    BY <1>1, <1>2, <1>7, <1>8 DEF Flags
  <2>. QED
    BY <1>1, <1>8, <1>9, <2>1, <2>2 DEF Flags, Enabled, local
<1>17. Alarm'
  <2>1. ASSUME Depth = layers
        PROVE  /\ ~exceptionRaised
               /\ \A e \in Range(own) : io[e.nr].enabled => shouldRaise
    BY <1>1, <1>2, <2>1 DEF Alarm
  <2>2. /\ reports'[Len(reports')].events = own /\ (stack'[Depth].flag <=> shouldRaise)
    BY <1>5, <1>6, <1>7, <1>8
  <2>3. ViolationRaises'
    <3>1. ASSUME NEW r \in 1 .. Len(reports'), reports'[r].layer = layers, Depth < layers,
                 reports'[r].slow, reports'[r].level = "high",
                 \E e \in Range(reports'[r].events) : io[e.nr].enabled
          PROVE  outcome = "high_severity"
      <4>1. r \in 1 .. Len(reports) /\ reports'[r] = reports[r]
        BY <1>2, <1>5, <1>6, <3>1, Shape
      <4>. QED
        BY <3>1, <4>1, Shape DEF Alarm, ViolationRaises
    <3>2. DOMAIN reports' = 1 .. Len(reports')
      BY <1>6, SeqFacts
    <3>. QED
      BY <1>1, <1>8, <3>1, <3>2 DEF ViolationRaises
  <2>. QED
    BY <1>1, <1>8, <2>1, <2>2, <2>3 DEF Alarm, flags
<1>18. Kept'
  <2>1. SUFFICES ASSUME OnMainThread, outcome = "ok", Len(io) <= MaxEvents,
                        NEW n \in 1 .. Len(io), io[n].watched
                 PROVE  IF io[n].layer < Depth
                        THEN /\ io[n].layer \in 1 .. Depth /\ stack'[io[n].layer].monitored
                             /\ \E e \in Range(lists[stack'[io[n].layer].list]) : e.nr = n
                        ELSE \E r \in 1 .. Len(reports') : \E e \in Range(reports'[r].events) : e.nr = n
    BY <1>1, <1>8 DEF Kept, local
  <2>2. IF io[n].layer < Depth \/ io[n].layer = Depth
        THEN /\ io[n].layer \in 1 .. Depth /\ stack[io[n].layer].monitored
             /\ \E e \in Range(lists[stack[io[n].layer].list]) : e.nr = n
        ELSE \E r \in 1 .. Len(reports) : \E e \in Range(reports[r].events) : e.nr = n
    BY <1>1, <2>1 DEF Kept
  <2>3. CASE io[n].layer < Depth
    BY <1>9, <2>2, <2>3
  <2>4. CASE io[n].layer = Depth
    <3>1. (\E e \in Range(own) : e.nr = n) /\ ~(io[n].layer < Depth)
      BY <1>2, <2>2, <2>4
    <3>. QED
      BY <1>5, <1>6, <3>1
  <2>5. CASE ~(io[n].layer < Depth) /\ io[n].layer # Depth
    BY <1>6, <2>2, <2>5
  <2>. QED
    BY <2>3, <2>4, <2>5
<1>. QED
  BY <1>10, <1>11, <1>12, <1>13, <1>15, <1>16, <1>17, <1>18

\* A wrapper more around the callback.
LEMMA Pushed ==
  ASSUME Types, NEW f \in Frame, stack' = Append(stack, f)
  PROVE  /\ stack' \in Seq(Frame) /\ stack' # <<>> /\ Depth' = Depth + 1 /\ Depth \in Nat
         /\ stack'[Depth + 1] = f
         /\ \A k \in 1 .. Depth : stack'[k] = stack[k]
         /\ \A k \in 1 .. Depth + 1 : k \in 1 .. Depth \/ k = Depth + 1
         /\ \A n \in 0 .. Depth : \A l : Installed(stack, n, l) => Installed(stack', n, l)
<1>1. stack \in Seq(Frame) /\ Depth \in Nat /\ Depth = Len(stack)
  BY Shape DEF Types, Depth
<1>2. /\ stack' \in Seq(Frame) /\ stack' # <<>> /\ Depth' = Depth + 1
      /\ stack'[Depth + 1] = f
      /\ \A k \in 1 .. Depth : stack'[k] = stack[k]
  BY <1>1, AppendFacts DEF Depth
<1>3. ASSUME NEW n \in 0 .. Depth, NEW l, Installed(stack, n, l)
      PROVE  Installed(stack', n, l)
  <2>1. /\ n \in Nat
        /\ \A k \in 1 .. n : (stack'[k].monitored <=> stack[k].monitored) /\ stack'[k].list = stack[k].list
    BY <1>1, <1>2
  <2>. QED
    BY <1>3, <2>1, InstalledSame
<1>. QED
  BY <1>1, <1>2, <1>3

\* On the way in every watched operation is one of a wrapper that is open.
LEMMA PushedKept ==
  ASSUME HandleInv, pc = "enter", pc' # "notify", Depth' = Depth + 1,
         \A k \in 1 .. Depth : stack'[k] = stack[k],
         \A k \in 1 .. Depth : stack[k].monitored => lists'[stack[k].list] = lists[stack[k].list],
         UNCHANGED <<io, outcome>>
  PROVE  Kept'
<1>1. SUFFICES ASSUME OnMainThread, outcome = "ok", Len(io) <= MaxEvents,
                      NEW n \in 1 .. Len(io), io[n].watched
               PROVE  /\ io[n].layer < Depth + 1
                      /\ io[n].layer \in 1 .. Depth + 1 /\ stack'[io[n].layer].monitored
                      /\ \E e \in Range(lists'[stack'[io[n].layer].list]) : e.nr = n
  BY DEF Kept
<1>2. Types /\ Depth \in Nat /\ io[n].layer \in Nat
  BY <1>1, Shape DEF HandleInv
<1>3. ~(\E r \in 1 .. Len(reports) : \E e \in Range(reports[r].events) : e.nr = n)
  BY EmptySeq DEF HandleInv, Control
<1>4. /\ io[n].layer < Depth \/ io[n].layer = Depth
      /\ io[n].layer \in 1 .. Depth /\ stack[io[n].layer].monitored
      /\ \E e \in Range(lists[stack[io[n].layer].list]) : e.nr = n
  BY <1>1, <1>3 DEF HandleInv, Kept
<1>. QED
  BY <1>2, <1>4

LEMMA EnterInactiveStep ==
  ASSUME HandleInv, EnterInactive
  PROVE  HandleInv'
<1>. USE DEF HandleInv
<1>. DEFINE f == Layer(FALSE, 0)
<1>1. /\ pc = "enter" /\ stack' = Append(stack, f)
      /\ pc' = IF Depth' = layers THEN "callback" ELSE "enter"
      /\ UNCHANGED <<flags, local, seen, layers, outcome>>
  BY DEF EnterInactive, Below, Depth
<1>2. f \in Frame /\ ~f.monitored /\ ~f.flag
  BY Shape DEF Layer, Frame, Types
<1>. HIDE DEF f
<1>3. /\ stack' \in Seq(Frame) /\ stack' # <<>> /\ Depth' = Depth + 1 /\ Depth \in Nat
      /\ stack'[Depth + 1] = f
      /\ \A k \in 1 .. Depth : stack'[k] = stack[k]
      /\ \A k \in 1 .. Depth + 1 : k \in 1 .. Depth \/ k = Depth + 1
      /\ \A n \in 0 .. Depth : \A l : Installed(stack, n, l) => Installed(stack', n, l)
  BY <1>1, <1>2, Pushed
<1>4. Depth + 1 <= layers /\ layers \in Nat /\ reports = <<>> /\ outcome = "ok"
  BY <1>1, <1>3, Shape DEF Control, Types
<1>5. Len(<<>>) = 0 /\ 1 .. 0 = {}
  BY EmptySeq
<1>6. Types'
  BY <1>1, <1>3, <1>4 DEF Types, flags, local, seen, UserCode
<1>7. Control'
  BY <1>1, <1>3, <1>4 DEF Control, seen
<1>8. Chain'
  <2>1. Within = Depth /\ Within' = Depth + 1
    BY <1>1, <1>3 DEF Within
  <2>2. Installed(stack', Depth + 1, owner')
    <3>1. Installed(stack', Depth, owner)
      BY <1>3, <2>1 DEF Chain
    <3>. QED
      BY <1>1, <1>2, <1>3, <3>1, InstalledNext DEF local
  <2>3. ASSUME NEW k \in 1 .. Depth, stack'[k].monitored
        PROVE  stack'[k].list \in 1 .. Len(lists) /\ Installed(stack', k - 1, stack'[k].previous)
    <3>1. stack'[k] = stack[k] /\ k - 1 \in 0 .. Depth
      BY <1>3
    <3>. QED
      BY <1>3, <2>3, <3>1 DEF Chain
  <2>. QED
    BY <1>1, <1>2, <1>3, <2>1, <2>2, <2>3 DEF Chain, local
<1>9. Recorded'
  BY <1>1, <1>2, <1>3 DEF Recorded, local, seen
<1>10. Reported'
  BY <1>1, <1>4, <1>5 DEF Reported, seen
<1>11. Flags'
  <2>1. RaiseJustified'
    BY <1>1, <1>4 DEF RaiseJustified
  <2>. QED
    BY <1>1, <1>2, <1>3, <2>1 DEF Flags, Enabled, local, seen
<1>12. Alarm'
  BY <1>1, <1>2, <1>3, <1>4, <1>5 DEF Alarm, ViolationRaises, seen
<1>13. Kept'
  BY <1>1, <1>3, PushedKept DEF local, seen
<1>. QED
  BY <1>6, <1>7, <1>8, <1>9, <1>10, <1>11, <1>12, <1>13

LEMMA EnterMonitoredStep ==
  ASSUME HandleInv, EnterMonitored
  PROVE  HandleInv'
<1>. USE DEF HandleInv
<1>. DEFINE m == Len(lists)
            f == [monitored |-> TRUE, list |-> m + 1, previous |-> owner, slow |-> FALSE, flag |-> FALSE]
<1>1. m \in Nat /\ lists \in Seq(Seq(Event)) /\ <<>> \in Seq(Event) /\ Len(<<>>) = 0 /\ 1 .. 0 = {}
  BY Shape, EmptySeq DEF Types
<1>2. /\ pc = "enter" /\ pc' = "providers_before" /\ lists' = Append(lists, <<>>)
      /\ shouldRaise' = FALSE /\ exceptionRaised' = FALSE
      /\ UNCHANGED <<seen, monitoringActive, raiseEnabled, layers, outcome>>
      /\ owner' = Len(lists') /\ stack' = Append(stack, Layer(TRUE, owner'))
  BY DEF EnterMonitored, InstallList, ResetFlags
<1>3. /\ lists' \in Seq(Seq(Event)) /\ Len(lists') = m + 1
      /\ \A l \in 1 .. m : lists'[l] = lists[l]
      /\ lists'[m + 1] = <<>>
      /\ \A l \in 1 .. m + 1 : l \in 1 .. m \/ l = m + 1
  BY <1>1, <1>2, AppendFacts
<1>4. stack' = Append(stack, f) /\ owner' = m + 1
  BY <1>2, <1>3 DEF Layer
<1>5. f \in Frame /\ f.monitored /\ ~f.flag /\ f.list = m + 1 /\ f.previous = owner
  BY <1>1 DEF Frame, Types
<1>. HIDE DEF f
<1>6. /\ stack' \in Seq(Frame) /\ stack' # <<>> /\ Depth' = Depth + 1 /\ Depth \in Nat
      /\ stack'[Depth + 1] = f
      /\ \A k \in 1 .. Depth : stack'[k] = stack[k]
      /\ \A k \in 1 .. Depth + 1 : k \in 1 .. Depth \/ k = Depth + 1
      /\ \A n \in 0 .. Depth : \A l : Installed(stack, n, l) => Installed(stack', n, l)
  BY <1>4, <1>5, Pushed
<1>7. Depth + 1 <= layers /\ layers \in Nat /\ reports = <<>> /\ outcome = "ok"
  BY <1>2, <1>6, Shape DEF Control, Types
<1>8. \A k \in 1 .. Depth : stack[k].monitored =>
        stack[k].list \in 1 .. m /\ lists'[stack[k].list] = lists[stack[k].list]
  BY <1>3 DEF Chain
<1>. HIDE DEF m
<1>9. Types'
  <2>1. owner' \in 0 .. Len(lists')
    BY <1>1, <1>3, <1>4
  <2>2. Depth' <= layers'
    BY <1>2, <1>6, <1>7
  <2>. QED
    BY <1>2, <1>3, <1>6, <2>1, <2>2 DEF Types, seen, UserCode
<1>10. Control'
  BY <1>2, <1>5, <1>6, <1>7 DEF Control, seen
<1>11. Chain'
  <2>1. Within = Depth /\ Within' = Depth + 1
    BY <1>2, <1>6 DEF Within
  <2>2. Installed(stack', Depth + 1, owner')
    BY <1>4, <1>5, <1>6, InstalledNext
  <2>3. ASSUME NEW k \in 1 .. Depth + 1, stack'[k].monitored
        PROVE  stack'[k].list \in 1 .. m + 1 /\ Installed(stack', k - 1, stack'[k].previous)
    <3>1. CASE k \in 1 .. Depth
      <4>1. stack'[k] = stack[k] /\ k - 1 \in 0 .. Depth
        BY <1>6, <3>1
      <4>2. stack[k].list \in 1 .. m /\ Installed(stack, k - 1, stack[k].previous)
        BY <2>3, <3>1, <4>1 DEF Chain, m
      <4>. QED
        BY <1>1, <1>6, <4>1, <4>2
    <3>2. CASE k = Depth + 1
      <4>1. k - 1 = Depth /\ Installed(stack, Depth, owner)
        BY <1>6, <2>1, <3>2 DEF Chain
      <4>. QED
        BY <1>1, <1>5, <1>6, <3>2, <4>1
    <3>. QED
      BY <1>6, <3>1, <3>2
  <2>4. ASSUME NEW j \in 1 .. Depth + 1, NEW k \in 1 .. Depth + 1, j < k,
               stack'[j].monitored, stack'[k].monitored
        PROVE  stack'[j].list < stack'[k].list
    <3>1. j \in 1 .. Depth /\ stack'[j] = stack[j]
      BY <1>6, <2>4
    <3>2. CASE k \in 1 .. Depth
      BY <1>6, <2>4, <3>1, <3>2 DEF Chain
    <3>3. CASE k = Depth + 1
      BY <1>1, <1>5, <1>6, <1>8, <2>4, <3>1, <3>3
    <3>. QED
      BY <1>6, <3>2, <3>3
  <2>. QED
    BY <1>3, <1>6, <2>1, <2>2, <2>3, <2>4 DEF Chain
<1>12. Range(<<>>) = {}
  BY DEF Range
<1>13. Recorded'
  <2>1. ASSUME NEW l \in 1 .. m + 1
        PROVE  /\ Len(lists'[l]) <= MaxEvents /\ Len(lists'[l]) <= Len(io)
               /\ \A e \in Range(lists'[l]) : e.handle = handle /\ e.nr \in 1 .. Len(io)
    <3>1. CASE l \in 1 .. m
      BY <1>3, <3>1 DEF Recorded, m
    <3>2. CASE l = m + 1
      BY <1>1, <1>3, <1>12, <3>2, ConstantsAssumption, Shape
    <3>. QED
      BY <1>3, <3>1, <3>2
  <2>2. ASSUME NEW k \in 1 .. Depth + 1, stack'[k].monitored,
               NEW e \in Range(lists'[stack'[k].list])
        PROVE  io[e.nr].layer = k
    <3>1. CASE k \in 1 .. Depth
      <4>1. stack[k].monitored /\ lists'[stack'[k].list] = lists[stack[k].list]
        BY <1>6, <1>8, <2>2, <3>1
      <4>. QED
        BY <2>2, <3>1, <4>1 DEF Recorded
    <3>2. CASE k = Depth + 1
      <4>1. lists'[stack'[k].list] = <<>>
        BY <1>3, <1>5, <1>6, <3>2
      <4>. QED
        BY <1>12, <2>2, <4>1
    <3>. QED
      BY <1>6, <3>1, <3>2
  <2>. QED
    <3>1. UNCHANGED <<io, handle>>
      BY <1>2 DEF seen
    <3>2. \A l \in 1 .. Len(lists') :
            /\ Len(lists'[l]) <= MaxEvents /\ Len(lists'[l]) <= Len(io')
            /\ \A e \in Range(lists'[l]) : e.handle = handle' /\ e.nr \in 1 .. Len(io')
      BY <1>3, <2>1, <3>1
    <3>3. \A k \in 1 .. Depth' : stack'[k].monitored =>
            \A e \in Range(lists'[stack'[k].list]) : io'[e.nr].layer = k
      BY <1>6, <2>2, <3>1
    <3>. QED
      BY <3>2, <3>3 DEF Recorded
<1>14. Reported'
  BY <1>1, <1>2, <1>7 DEF Reported, seen
<1>15. Flags'
  <2>1. RaiseJustified'
    BY <1>2, <1>7 DEF RaiseJustified
  <2>. QED
    BY <1>2, <1>5, <1>6, <2>1 DEF Flags, Enabled, seen
<1>16. Alarm'
  <2>1. ViolationRaises'
    BY <1>1, <1>2, <1>7 DEF ViolationRaises, seen
  <2>. QED
    BY <1>2, <1>3, <1>5, <1>6, <1>12, <2>1 DEF Alarm
<1>17. Kept'
  BY <1>2, <1>6, <1>8, PushedKept DEF seen
<1>. QED
  BY <1>9, <1>10, <1>11, <1>13, <1>14, <1>15, <1>16, <1>17

-----------------------------------------------------------------------------
(* Steps of user code.                                                       *)

LEMMA BurnTimeStep ==
  ASSUME HandleInv, BurnTime
  PROVE  HandleInv'
<1>. USE DEF HandleInv
<1>1. /\ stack' = [k \in DOMAIN stack |-> [stack[k] EXCEPT !.slow = @ \/ k \in Timed]]
      /\ UNCHANGED <<flags, local, seen, layers, pc, outcome>>
  BY DEF BurnTime
<1>2. \A k \in 1 .. Depth :
        /\ stack'[k] \in Frame /\ stack'[k].list = stack[k].list
        /\ stack'[k].previous = stack[k].previous
        /\ stack'[k].monitored <=> stack[k].monitored
        /\ stack'[k].flag <=> stack[k].flag
  <2>1. ASSUME NEW k \in 1 .. Depth
        PROVE  /\ stack'[k] \in Frame /\ stack'[k].list = stack[k].list
               /\ stack'[k].previous = stack[k].previous
               /\ stack'[k].monitored <=> stack[k].monitored
               /\ stack'[k].flag <=> stack[k].flag
    <3>. DEFINE slow == stack[k].slow \/ k \in Timed
    <3>1. stack'[k] = [stack[k] EXCEPT !.slow = slow] /\ stack[k] \in Frame
      BY <1>1, <2>1, Shape
    <3>2. slow \in BOOLEAN
      OBVIOUS
    <3>. HIDE DEF slow
    <3>. QED
      BY <3>1, <3>2 DEF Frame
  <2>. QED
    BY <2>1
<1>3. stack' \in Seq(Frame) /\ Depth' = Depth /\ (stack' = <<>> <=> stack = <<>>)
  <2>1. DOMAIN stack = 1 .. Depth /\ Depth \in Nat /\ (stack = <<>> <=> Depth = 0)
    BY Shape
  <2>2. DOMAIN stack' = 1 .. Depth /\ stack' \in [1 .. Depth -> Frame]
    BY <1>1, <1>2, <2>1
  <2>3. stack' \in Seq(Frame)
    BY <2>1, <2>2
  <2>4. Len(stack') = Depth
    BY <2>1, <2>2, <2>3, LenProperties
  <2>. QED
    BY <2>1, <2>3, <2>4, SeqFacts DEF Depth
<1>4. Depth \in Nat /\ \A n \in 0 .. Depth : \A l : Installed(stack, n, l) => Installed(stack', n, l)
  <2>1. Depth \in Nat
    BY Shape
  <2>2. ASSUME NEW n \in 0 .. Depth, NEW l, Installed(stack, n, l)
        PROVE  Installed(stack', n, l)
    <3>1. /\ n \in Nat
          /\ \A k \in 1 .. n : (stack'[k].monitored <=> stack[k].monitored) /\ stack'[k].list = stack[k].list
      BY <1>2, <2>1
    <3>. QED
      BY <2>2, <3>1, InstalledSame
  <2>. QED
    BY <2>1, <2>2
<1>5. Types'
  BY <1>1, <1>3 DEF Types, flags, local, seen
<1>6. Control'
  <2>1. pc \in {"providers_before", "providers_after", "notify"} => Depth \in 1 .. Depth
    BY <1>4, Shape DEF Control
  <2>. QED
    BY <1>1, <1>2, <1>3, <2>1 DEF Control, seen
<1>7. Chain'
  <2>1. Within' = Within /\ (stack = <<>> \/ Within \in 0 .. Depth)
    BY <1>1, <1>3, <1>4, Shape DEF Within
  <2>2. Within \in 0 .. Depth
    BY <1>4, <2>1, Shape DEF Control, Within
  <2>3. Installed(stack', Within, owner)
    BY <1>4, <2>2 DEF Chain
  <2>4. \A k \in 1 .. Depth : k - 1 \in 0 .. Depth
    BY <1>4
  <2>. QED
    BY <1>1, <1>2, <1>3, <1>4, <2>1, <2>3, <2>4 DEF Chain, local
<1>8. Recorded'
  BY <1>1, <1>2, <1>3 DEF Recorded, local, seen
<1>9. Reported'
  BY <1>1, <1>3 DEF Reported, seen
<1>10. Flags'
  BY <1>1, <1>2, <1>3 DEF Flags, Enabled, RaiseJustified, local, seen
<1>11. Alarm'
  <2>1. stack # <<>> => Depth \in 1 .. Depth
    BY <1>4, Shape
  <2>2. ViolationRaises'
    BY <1>1, <1>3 DEF Alarm, ViolationRaises, seen
  <2>. QED
    BY <1>1, <1>2, <1>3, <2>1, <2>2 DEF Alarm, flags, local, seen
<1>12. Kept'
  <2>1. SUFFICES ASSUME OnMainThread, outcome = "ok", Len(io) <= MaxEvents,
                        NEW n \in 1 .. Len(io), io[n].watched
                 PROVE  IF io[n].layer < Depth \/ (io[n].layer = Depth /\ pc # "notify")
                        THEN /\ io[n].layer \in 1 .. Depth /\ stack'[io[n].layer].monitored
                             /\ \E e \in Range(lists[stack'[io[n].layer].list]) : e.nr = n
                        ELSE \E r \in 1 .. Len(reports) : \E e \in Range(reports[r].events) : e.nr = n
    BY <1>1, <1>3 DEF Kept, local, seen
  <2>2. IF io[n].layer < Depth \/ (io[n].layer = Depth /\ pc # "notify")
        THEN /\ io[n].layer \in 1 .. Depth /\ stack[io[n].layer].monitored
             /\ \E e \in Range(lists[stack[io[n].layer].list]) : e.nr = n
        ELSE \E r \in 1 .. Len(reports) : \E e \in Range(reports[r].events) : e.nr = n
    BY <2>1 DEF Kept
  <2>. QED
    BY <1>2, <2>2
<1>. QED
  BY <1>5, <1>6, <1>7, <1>8, <1>9, <1>10, <1>11, <1>12

\* What was erased is not watched any more.
LEMMA ResetEventsStep ==
  ASSUME HandleInv, ResetEvents
  PROVE  HandleInv'
<1>. USE DEF HandleInv
<1>1. /\ owner # 0 /\ lists' = [lists EXCEPT ![owner] = <<>>]
      /\ io' = [n \in DOMAIN io |-> [io[n] EXCEPT !.watched = FALSE]]
      /\ UNCHANGED <<flags, frame, owner, shouldRaise, handle, reports>>
  BY DEF ResetEvents
<1>2. \A n \in 1 .. Len(io) : /\ io'[n] \in Op /\ io'[n].layer = io[n].layer
                              /\ io'[n].enabled <=> io[n].enabled
                              /\ ~io'[n].watched
  <2>1. ASSUME NEW n \in 1 .. Len(io)
        PROVE  /\ io'[n] \in Op /\ io'[n].layer = io[n].layer
               /\ io'[n].enabled <=> io[n].enabled
               /\ ~io'[n].watched
    <3>1. io'[n] = [io[n] EXCEPT !.watched = FALSE] /\ io[n] \in Op
      BY <1>1, <2>1, Shape
    <3>. QED
      BY <3>1 DEF Op
  <2>. QED
    BY <2>1
<1>3. io' \in Seq(Op) /\ Len(io') = Len(io) /\ Len(io) \in Nat /\ DOMAIN io' = DOMAIN io
  <2>1. DOMAIN io = 1 .. Len(io) /\ Len(io) \in Nat
    BY Shape
  <2>2. DOMAIN io' = 1 .. Len(io) /\ io' \in [1 .. Len(io) -> Op]
    BY <1>1, <1>2, <2>1
  <2>. QED
    BY <2>1, <2>2, LenProperties
<1>4. /\ lists' \in Seq(Seq(Event)) /\ Len(lists') = Len(lists)
      /\ \A l \in 1 .. Len(lists) : lists'[l] = IF l = owner THEN <<>> ELSE lists[l]
  <2>1. owner \in 1 .. Len(lists) /\ <<>> \in Seq(Event)
    BY <1>1, Shape, EmptySeq DEF Types
  <2>. QED
    BY <1>1, <2>1, ExceptSeq DEF Types
<1>5. Len(<<>>) = 0 /\ Range(<<>>) = {} /\ MaxEvents \in Nat
  BY EmptySeq, ConstantsAssumption DEF Range
<1>6. Types'
  BY <1>1, <1>3, <1>4 DEF Types, flags, frame, Depth
<1>7. Control' /\ Chain'
  BY <1>1, <1>4 DEF Control, Chain, Installed, Within, frame, Depth
<1>8. Recorded'
  <2>1. \A l \in 1 .. Len(lists) : Range(lists'[l]) \subseteq Range(lists[l])
    BY <1>4, <1>5
  <2>2. \A l \in 1 .. Len(lists) :
          /\ Len(lists'[l]) <= MaxEvents /\ Len(lists'[l]) <= Len(io)
          /\ \A e \in Range(lists'[l]) : e.handle = handle /\ e.nr \in 1 .. Len(io)
    BY <1>3, <1>4, <1>5 DEF Recorded
  <2>3. \A k \in 1 .. Depth : stack[k].monitored =>
          \A e \in Range(lists'[stack[k].list]) : e.nr \in 1 .. Len(io) /\ io[e.nr].layer = k
    BY <2>1, <2>2 DEF Recorded, Chain
  <2>4. \A k \in 1 .. Depth : stack[k].monitored =>
          \A e \in Range(lists'[stack[k].list]) : io'[e.nr].layer = k
    BY <1>2, <2>3
  <2>. QED
    BY <1>1, <1>3, <1>4, <2>2, <2>4 DEF Recorded, frame, Depth
<1>9. Reported'
  <2>1. \A r \in 1 .. Len(reports) : \A e \in Range(reports[r].events) :
          e.handle = handle /\ e.nr \in 1 .. Len(io) /\ io'[e.nr].layer = reports[r].layer
    BY <1>2 DEF Reported
  <2>. QED
    BY <1>1, <1>3, <2>1 DEF Reported, frame, Depth
<1>10. Flags'
  <2>1. Enabled' <=> Enabled
    BY <1>2, <1>3 DEF Enabled
  <2>2. RaiseJustified'
    BY <1>1, <1>2, <1>3, Shape DEF Flags, RaiseJustified, frame
  <2>. QED
    BY <1>1, <2>1, <2>2 DEF Flags, frame, Depth
<1>11. Alarm'
  <2>1. ViolationRaises'
    <3>1. \A r \in DOMAIN reports : \A e \in Range(reports[r].events) :
            io'[e.nr].enabled <=> io[e.nr].enabled
      BY <1>2, Shape DEF Reported
    <3>. QED
      BY <1>1, <3>1 DEF Alarm, ViolationRaises, frame, Depth
  <2>2. ASSUME stack # <<>>, Depth = layers, stack[Depth].monitored
        PROVE  /\ pc # "notify" =>
                    \A e \in Range(lists'[stack[Depth].list]) : io'[e.nr].enabled => shouldRaise
               /\ pc = "notify" =>
                    \A e \in Range(reports[Len(reports)].events) : io'[e.nr].enabled => stack[Depth].flag
    <3>1. Depth \in 1 .. Depth /\ stack[Depth].list \in 1 .. Len(lists)
      BY <2>2, Shape DEF Chain
    <3>2. pc = "notify" => Len(reports) \in 1 .. Len(reports)
      BY SeqFacts DEF Reported, Types
    <3>3. \A e \in Range(lists'[stack[Depth].list]) :
            e \in Range(lists[stack[Depth].list]) /\ e.nr \in 1 .. Len(io)
      BY <1>4, <1>5, <3>1 DEF Recorded
    <3>4. pc = "notify" => \A e \in Range(reports[Len(reports)].events) : e.nr \in 1 .. Len(io)
      BY <3>2 DEF Reported
    <3>. QED
      BY <1>2, <2>2, <3>3, <3>4 DEF Alarm
  <2>. QED
    BY <1>1, <2>1, <2>2 DEF Alarm, flags, frame, Depth
<1>12. Kept'
  BY <1>2, <1>3 DEF Kept
<1>. QED
  BY <1>6, <1>7, <1>8, <1>9, <1>10, <1>11, <1>12

\* An operation: the hook records it in the list of the wrapper it belongs to.
LEMMA BlockingIoStep ==
  ASSUME HandleInv, NEW w \in Weights, BlockingIo(w)
  PROVE  HandleInv'
<1>. USE DEF HandleInv
<1>. DEFINE m == Len(io)
            op == [weight |-> w, enabled |-> raiseEnabled, layer |-> Belongs,
                   watched |-> pc = "callback" /\ Belongs # 0]
            event == [handle |-> handle, nr |-> m + 1, weight |-> w]
<1>1. m \in Nat /\ io \in Seq(Op) /\ Depth \in Nat /\ w \in Nat /\ MaxEvents \in Nat
  BY Shape, ConstantsAssumption DEF Types
<1>2. \/ Belongs = 0 /\ owner = 0
      \/ /\ Belongs \in 1 .. Depth /\ owner # 0
         /\ stack[Belongs].monitored /\ owner = stack[Belongs].list
  BY Owner
<1>3. /\ op \in Op /\ op.layer = Belongs /\ (op.enabled <=> raiseEnabled)
      /\ op.watched <=> pc = "callback" /\ Belongs # 0
  <2>. DEFINE seen1 == pc = "callback" /\ Belongs # 0
  <2>1. seen1 \in BOOLEAN /\ Belongs \in Nat /\ raiseEnabled \in BOOLEAN
    BY <1>1, <1>2 DEF Types
  <2>2. op.watched <=> seen1
    OBVIOUS
  <2>3. op.layer = Belongs /\ (op.enabled <=> raiseEnabled)
    OBVIOUS
  <2>. HIDE DEF seen1
  <2>4. op \in Op
    BY <2>1 DEF Op
  <2>. QED
    BY <2>2, <2>3, <2>4 DEF seen1
<1>. HIDE DEF op
<1>4. /\ io' = Append(io, op)
      /\ Record([handle |-> handle, nr |-> Len(io'), weight |-> w])
      /\ UNCHANGED <<flags, frame, owner, handle, reports>>
  BY DEF BlockingIo, op
<1>5. /\ io' \in Seq(Op) /\ Len(io') = m + 1 /\ io'[m + 1] = op
      /\ \A n \in 1 .. m : n \in 1 .. m + 1 /\ io'[n] = io[n]
      /\ \A n \in 1 .. m + 1 : n \in 1 .. m \/ n = m + 1
      /\ m + 1 \in 1 .. m + 1
  BY <1>1, <1>3, <1>4, AppendFacts
<1>6. event \in Event /\ event.handle = handle /\ event.nr = m + 1
  BY <1>1 DEF Event, Types
<1>. HIDE DEF event
<1>7. /\ lists' \in Seq(Seq(Event)) /\ Len(lists') = Len(lists) /\ shouldRaise' \in BOOLEAN
      /\ shouldRaise => shouldRaise'
      /\ shouldRaise' => shouldRaise \/ raiseEnabled
      /\ Heard => /\ owner \in 1 .. Len(lists) /\ lists'[owner] = Append(lists[owner], event)
                  /\ Len(lists[owner]) < MaxEvents
                  /\ raiseEnabled => shouldRaise'
      /\ \A l \in 1 .. Len(lists) : lists'[l] = lists[l] \/ (Heard /\ l = owner)
  <2>1. CASE ~Heard
    BY <1>4, <2>1, Shape DEF Record, Types
  <2>2. CASE Heard
    <3>1. owner \in 1 .. Len(lists) /\ lists \in Seq(Seq(Event)) /\ lists[owner] \in Seq(Event)
      BY <2>2, Shape DEF Heard, Types
    <3>2. /\ lists' = [lists EXCEPT ![owner] = Append(lists[owner], event)]
          /\ shouldRaise' = (shouldRaise \/ raiseEnabled)
      BY <1>4, <1>5, <2>2, <3>1 DEF Record, event, FlagAfter
    <3>3. Append(lists[owner], event) \in Seq(Event)
      BY <1>6, <3>1, AppendFacts
    <3>4. Len(lists[owner]) < MaxEvents
      BY <2>2 DEF Heard
    <3>5. shouldRaise' \in BOOLEAN /\ (shouldRaise' <=> shouldRaise \/ raiseEnabled)
      BY <3>2 DEF Types
    <3>6. /\ lists' \in Seq(Seq(Event)) /\ Len(lists') = Len(lists)
          /\ \A l \in 1 .. Len(lists) :
               lists'[l] = IF l = owner THEN Append(lists[owner], event) ELSE lists[l]
      BY <3>1, <3>2, <3>3, ExceptSeq
    <3>. QED
      BY <2>2, <3>1, <3>4, <3>5, <3>6
  <2>. QED
    BY <2>1, <2>2
<1>8. \A l \in 1 .. Len(lists) :
        /\ Len(lists'[l]) <= MaxEvents /\ Len(lists'[l]) <= m + 1
        /\ Range(lists[l]) \subseteq Range(lists'[l])
        /\ \A e \in Range(lists'[l]) :
             \/ e \in Range(lists[l]) /\ e.nr \in 1 .. m
             \/ e = event /\ l = owner /\ Heard
  <2>1. ASSUME NEW l \in 1 .. Len(lists)
        PROVE  /\ Len(lists'[l]) <= MaxEvents /\ Len(lists'[l]) <= m + 1
               /\ Range(lists[l]) \subseteq Range(lists'[l])
               /\ \A e \in Range(lists'[l]) :
                    \/ e \in Range(lists[l]) /\ e.nr \in 1 .. m
                    \/ e = event /\ l = owner /\ Heard
    <3>1. /\ Len(lists[l]) \in Nat /\ Len(lists[l]) <= MaxEvents /\ Len(lists[l]) <= m
          /\ \A e \in Range(lists[l]) : e.nr \in 1 .. m
      BY Shape DEF Recorded
    <3>2. CASE lists'[l] = lists[l]
      BY <1>1, <3>1, <3>2
    <3>3. CASE Heard /\ l = owner
      <4>1. lists[l] \in Seq(Event)
        BY Shape
      <4>2. /\ Len(lists'[l]) = Len(lists[l]) + 1
            /\ Range(lists'[l]) = Range(lists[l]) \cup {event}
        <5>1. lists'[l] = Append(lists[l], event)
          BY <1>7, <3>3
        <5>. QED
          BY <1>6, <4>1, <5>1, AppendFacts
      <4>3. Len(lists[l]) < MaxEvents
        BY <1>7, <3>3
      <4>. QED
        BY <1>1, <3>1, <3>3, <4>2, <4>3
    <3>. QED
      BY <1>7, <3>2, <3>3
  <2>. QED
    BY <2>1
<1>9. /\ pc' = pc /\ stack' = stack /\ layers' = layers /\ outcome' = outcome /\ Depth' = Depth
      /\ handle' = handle /\ reports' = reports /\ owner' = owner
      /\ exceptionRaised' = exceptionRaised
      /\ monitoringActive' = monitoringActive /\ raiseEnabled' = raiseEnabled
  BY <1>4 DEF flags, frame, Depth
<1>10. Types'
  BY <1>5, <1>7, <1>9 DEF Types
<1>11. Control'
  BY <1>9 DEF Control
<1>12. Chain'
  BY <1>7, <1>9 DEF Chain, Within, Installed
<1>13. Recorded'
  <2>1. \A l \in 1 .. Len(lists) : \A e \in Range(lists'[l]) :
          e.handle = handle /\ e.nr \in 1 .. m + 1
    BY <1>5, <1>6, <1>8 DEF Recorded
  <2>2. ASSUME NEW k \in 1 .. Depth, stack[k].monitored, NEW e \in Range(lists'[stack[k].list])
        PROVE  io'[e.nr].layer = k
    <3>1. stack[k].list \in 1 .. Len(lists)
      BY <2>2 DEF Chain
    <3>2. CASE e \in Range(lists[stack[k].list]) /\ e.nr \in 1 .. m
      BY <1>5, <2>2, <3>2 DEF Recorded
    <3>3. CASE e = event /\ stack[k].list = owner /\ Heard
      <4>1. owner # 0
        BY <3>3 DEF Heard
      <4>2. Belongs \in 1 .. Depth /\ stack[Belongs].monitored /\ owner = stack[Belongs].list
        BY <1>2, <4>1
      <4>3. ~(k < Belongs) /\ ~(Belongs < k)
        <5>1. owner \in Nat /\ ~(owner < owner)
          BY Shape DEF Types
        <5>. QED
          BY <2>2, <3>3, <4>2, <5>1 DEF Chain
      <4>4. k = Belongs
        BY <1>1, <4>2, <4>3
      <4>. QED
        BY <1>3, <1>5, <1>6, <3>3, <4>4
    <3>. QED
      BY <1>8, <2>2, <3>1, <3>2, <3>3
  <2>. QED
    BY <1>5, <1>7, <1>8, <1>9, <2>1, <2>2 DEF Recorded
<1>14. Reported'
  <2>1. \A r \in 1 .. Len(reports) : \A e \in Range(reports[r].events) :
          e.handle = handle /\ e.nr \in 1 .. m + 1 /\ io'[e.nr].layer = reports[r].layer
    BY <1>5 DEF Reported
  <2>. QED
    BY <1>5, <1>9, <2>1 DEF Reported
<1>15. Flags'
  <2>1. Enabled => Enabled'
    BY <1>5 DEF Enabled
  <2>2. raiseEnabled => Enabled'
    BY <1>3, <1>5 DEF Enabled
  <2>3. RaiseJustified'
    <3>1. DOMAIN io = 1 .. m /\ DOMAIN io' = 1 .. m + 1
      BY <1>5, Shape, SeqFacts
    <3>. QED
      BY <1>5, <1>9, <3>1 DEF Flags, RaiseJustified
  <2>. QED
    BY <1>7, <1>9, <2>1, <2>2, <2>3 DEF Flags
<1>16. Alarm'
  <2>1. ViolationRaises'
    <3>1. \A r \in DOMAIN reports : \A e \in Range(reports[r].events) :
            io'[e.nr].enabled <=> io[e.nr].enabled
      BY <1>5, Shape DEF Reported
    <3>. QED
      BY <1>9, <3>1 DEF Alarm, ViolationRaises
  <2>2. ASSUME stack # <<>>, Depth = layers, stack[Depth].monitored, pc # "notify",
               NEW e \in Range(lists'[stack[Depth].list]), io'[e.nr].enabled
        PROVE  shouldRaise'
    <3>1. Depth \in 1 .. Depth
      BY <2>2, Shape
    <3>2. stack[Depth].list \in 1 .. Len(lists)
      BY <2>2, <3>1 DEF Chain
    <3>3. CASE e \in Range(lists[stack[Depth].list]) /\ e.nr \in 1 .. m
      BY <1>5, <1>7, <2>2, <3>3 DEF Alarm
    <3>4. CASE e = event /\ Heard
      BY <1>3, <1>5, <1>6, <1>7, <2>2, <3>4
    <3>. QED
      BY <1>8, <2>2, <3>2, <3>3, <3>4
  <2>3. ASSUME stack # <<>>, Depth = layers, stack[Depth].monitored, pc = "notify",
               NEW e \in Range(reports[Len(reports)].events), io'[e.nr].enabled
        PROVE  stack[Depth].flag
    <3>1. Len(reports) \in 1 .. Len(reports)
      BY <2>3, SeqFacts DEF Reported, Types
    <3>2. io[e.nr].enabled
      BY <1>5, <2>3, <3>1 DEF Reported
    <3>. QED
      BY <2>3, <3>2 DEF Alarm
  <2>4. stack # <<>> /\ Depth = layers /\ stack[Depth].monitored => ~exceptionRaised
    BY DEF Alarm
  <2>. QED
    BY <1>9, <2>1, <2>2, <2>3, <2>4 DEF Alarm
<1>17. Kept'
  <2>1. SUFFICES ASSUME OnMainThread, outcome = "ok", m + 1 <= MaxEvents,
                        NEW n \in 1 .. m + 1, io'[n].watched
                 PROVE  IF io'[n].layer < Depth \/ (io'[n].layer = Depth /\ pc # "notify")
                        THEN /\ io'[n].layer \in 1 .. Depth /\ stack[io'[n].layer].monitored
                             /\ \E e \in Range(lists'[stack[io'[n].layer].list]) : e.nr = n
                        ELSE \E r \in 1 .. Len(reports) : \E e \in Range(reports[r].events) : e.nr = n
    BY <1>5, <1>9 DEF Kept
  <2>2. CASE n \in 1 .. m
    <3>1. io'[n] = io[n] /\ m <= MaxEvents
      BY <1>1, <1>5, <2>1, <2>2
    <3>2. IF io[n].layer < Depth \/ (io[n].layer = Depth /\ pc # "notify")
          THEN /\ io[n].layer \in 1 .. Depth /\ stack[io[n].layer].monitored
               /\ \E e \in Range(lists[stack[io[n].layer].list]) : e.nr = n
          ELSE \E r \in 1 .. Len(reports) : \E e \in Range(reports[r].events) : e.nr = n
      BY <2>1, <2>2, <3>1 DEF Kept
    <3>3. ASSUME io[n].layer \in 1 .. Depth, stack[io[n].layer].monitored,
                 \E e \in Range(lists[stack[io[n].layer].list]) : e.nr = n
          PROVE  \E e \in Range(lists'[stack[io[n].layer].list]) : e.nr = n
      <4>1. stack[io[n].layer].list \in 1 .. Len(lists)
        BY <3>3 DEF Chain
      <4>. QED
        BY <1>8, <3>3, <4>1
    <3>. QED
      BY <3>1, <3>2, <3>3
  <2>3. CASE n = m + 1
    <3>1. pc = "callback" /\ Belongs # 0 /\ io'[n].layer = Belongs
      BY <1>3, <1>5, <2>1, <2>3
    <3>2. Belongs \in 1 .. Depth /\ owner # 0 /\ stack[Belongs].monitored /\ owner = stack[Belongs].list
      BY <1>2, <3>1
    <3>3. Heard
      <4>1. owner \in 1 .. Len(lists)
        BY <3>2 DEF Chain
      <4>2. Len(lists[owner]) <= m /\ Len(lists[owner]) \in Nat
        BY <4>1, Shape DEF Recorded
      <4>3. Len(lists[owner]) < MaxEvents
        BY <1>1, <2>1, <4>2
      <4>. QED
        BY <2>1, <3>2, <4>3 DEF Heard
    <3>4. event \in Range(lists'[owner]) /\ event.nr = n
      <4>1. owner \in 1 .. Len(lists) /\ lists'[owner] = Append(lists[owner], event)
        BY <1>7, <3>3
      <4>2. lists[owner] \in Seq(Event)
        BY <4>1, Shape
      <4>. QED
        BY <1>6, <2>3, <4>1, <4>2, AppendFacts
    <3>5. Belongs < Depth \/ (Belongs = Depth /\ pc # "notify")
      BY <1>1, <3>1, <3>2
    <3>. QED
      BY <3>1, <3>2, <3>4, <3>5
  <2>. QED
    BY <1>5, <2>1, <2>2, <2>3
<1>. QED
  BY <1>10, <1>11, <1>12, <1>13, <1>14, <1>15, <1>16, <1>17

-----------------------------------------------------------------------------
(* The invariant.                                                            *)

LEMMA HandleInit == Init => HandleInv
<1>. SUFFICES ASSUME Init PROVE HandleInv
  OBVIOUS
<1>1. /\ monitoringActive \in BOOLEAN /\ exceptionRaised = FALSE /\ raiseEnabled = FALSE
      /\ lists = <<>> /\ owner = 0 /\ shouldRaise = FALSE /\ stack = <<>> /\ layers = 0
      /\ pc = "idle" /\ outcome = "ok" /\ handle = 0 /\ io = <<>> /\ reports = <<>>
  BY DEF Init
<1>2. /\ Len(<<>>) = 0 /\ 1 .. 0 = {} /\ Depth = 0
      /\ <<>> \in Seq(Seq(Event)) /\ <<>> \in Seq(Op) /\ <<>> \in Seq(SlowTaskEvent)
      /\ <<>> \in Seq(Frame) /\ DOMAIN <<>> = {}
  BY <1>1, EmptySeq DEF Depth
<1>3. Types
  <2>1. MaxLayers \in Nat /\ MaxLayers >= 1
    BY ConstantsAssumption
  <2>2. 0 \in 0 .. MaxLayers /\ 0 \in 0 .. Len(<<>>)
    BY <1>2, <2>1
  <2>3. pc \in {"idle", "enter", "unwind"} \cup UserCode
    BY <1>1
  <2>4. layers \in 0 .. MaxLayers /\ Depth <= layers /\ owner \in 0 .. Len(lists) /\ handle \in Nat
    BY <1>1, <1>2, <2>2
  <2>5. outcome \in {"ok", "user_error", "high_severity"}
    BY <1>1
  <2>6. /\ lists \in Seq(Seq(Event)) /\ stack \in Seq(Frame)
        /\ io \in Seq(Op) /\ reports \in Seq(SlowTaskEvent)
    BY <1>1, <1>2
  <2>7. /\ exceptionRaised \in BOOLEAN /\ raiseEnabled \in BOOLEAN
        /\ shouldRaise \in BOOLEAN
    BY <1>1
  <2>. QED
    BY <1>1, <2>3, <2>4, <2>5, <2>6, <2>7 DEF Types
<1>4. Control
  BY <1>1 DEF Control
<1>5. Chain /\ Recorded /\ Reported
  BY <1>1, <1>2 DEF Chain, Installed, Within, Recorded, Reported
<1>6. Flags /\ Alarm /\ Kept
  BY <1>1, <1>2 DEF Flags, RaiseJustified, Alarm, ViolationRaises, Kept
<1>. QED
  BY <1>3, <1>4, <1>5, <1>6 DEF HandleInv

LEMMA HandleInvariant == Spec => []HandleInv
<1>1. HandleInv /\ [Next]_vars => HandleInv'
  <2>. SUFFICES ASSUME HandleInv, [Next]_vars PROVE HandleInv'
    OBVIOUS
  <2>1. CASE Wrapper
    <3>1. ASSUME NEW n \in 1 .. MaxLayers, NEW enabled \in BOOLEAN, StartHandle(n, enabled)
          PROVE  HandleInv'
      BY <3>1, StartHandleStep
    <3>2. CASE Report
      BY <3>2, NoReportStep, ReportStep
    <3>. QED
      BY <2>1, <3>1, <3>2, EnterInactiveStep, EnterMonitoredStep, MoveStep, LeaveInactiveStep,
         LeaveRaisingStep, SliceFinishedStep, NotifiedStep DEF Wrapper
  <2>2. CASE UserStep
    <3>1. ASSUME NEW w \in Weights, BlockingIo(w) PROVE HandleInv'
      BY <3>1, BlockingIoStep
    <3>2. ASSUME NEW w \in Weights, IoOutside(w) PROVE HandleInv'
      BY <3>2, FlagStep
    <3>. QED
      BY <2>2, <3>1, <3>2, BurnTimeStep, FlagStep, ResetEventsStep DEF UserStep
  <2>3. CASE OtherThread
    BY <2>3, FlagStep DEF OtherThread
  <2>4. CASE UNCHANGED vars
    <3>1. UNCHANGED <<monitoringActive, exceptionRaised, raiseEnabled, lists, owner, shouldRaise,
                      stack, layers, pc, outcome, handle, io, reports>>
      BY <2>4 DEF vars, flags, local, frame, seen
    <3>2. Types' /\ Control' /\ Chain' /\ Recorded'
      BY <3>1 DEF HandleInv, Types, Control, Chain, Installed, Within, Recorded, Depth
    <3>3. Reported' /\ Flags'
      BY <3>1 DEF HandleInv, Reported, Flags, Enabled, RaiseJustified, Depth
    <3>4. Alarm' /\ Kept'
      BY <3>1 DEF HandleInv, Alarm, ViolationRaises, Kept, Depth
    <3>. QED
      BY <3>2, <3>3, <3>4 DEF HandleInv
  <2>. QED
    BY <2>1, <2>2, <2>3, <2>4 DEF Next
<1>. QED
  BY <1>1, HandleInit, PTL DEF Spec

-----------------------------------------------------------------------------
(* What it says.                                                             *)

\* The hook never records beyond MAX_EVENTS_PER_TASK, the list installed in the
\* thread is one that exists, and a handle is never inside of more wrappers than
\* it has (blocking_io.py:137-169, slow_tasks.py:181-203).
THEOREM HandleTypeCorrect == Spec => []TypeOK
<1>1. HandleInv => TypeOK
  BY Shape DEF HandleInv, Types, Control, Recorded, TypeOK
<1>. QED
  BY <1>1, HandleInvariant, PTL

\* Every event of a report is an operation of this handle, done while the
\* reporting wrapper was the innermost monitored one whose callback had not
\* ended: for any nesting, callbacks that raise, and monitoring switched between
\* any two steps (slow_tasks.py:184, 202).
THEOREM ReportsOwnIo == Spec => []OwnIo
<1>1. HandleInv => OwnIo
  BY Shape DEF HandleInv, Reported, OwnIo
<1>. QED
  BY <1>1, HandleInvariant, PTL

\* No operation is in two reports, although every wrapper around a callback
\* reports (slow_tasks.py:208-255): the lists are disjoint, and so are the
\* wrappers of the reports.
THEOREM ReportsAreDisjoint == Spec => []ReportedOnce
<1>1. ASSUME HandleInv PROVE ReportedOnce
  <2>. USE <1>1 DEF HandleInv
  <2>1. ASSUME NEW r \in 1 .. Len(reports), NEW q \in 1 .. Len(reports),
               NEW e \in Range(reports[r].events), e \in Range(reports[q].events)
        PROVE  ~(r < q)
    <3>1. io[e.nr].layer = reports[r].layer /\ io[e.nr].layer = reports[q].layer
      BY <2>1 DEF Reported
    <3>2. reports[r].layer \in Nat /\ reports[q].layer \in Nat
      BY Shape
    <3>3. r < q => reports[r].layer > reports[q].layer
      BY DEF Reported
    <3>. QED
      BY <3>1, <3>2, <3>3
  <2>2. ASSUME NEW r \in 1 .. Len(reports), NEW q \in 1 .. Len(reports), r # q
        PROVE  Range(reports[r].events) \cap Range(reports[q].events) = {}
    <3>1. r < q \/ q < r
      BY <2>2, Shape
    <3>. QED
      BY <2>1, <3>1
  <2>3. DOMAIN reports = 1 .. Len(reports)
    BY Shape
  <2>. QED
    BY <2>2, <2>3 DEF ReportedOnce
<1>. QED
  BY <1>1, HandleInvariant, PTL

\* An exception for blocking I/O leaves a handle only if the handle itself
\* blocked while raising was enabled and a slow report of it scored high: the
\* flag in the thread's local never speaks for another handle
\* (slow_tasks.py:187-189, 275-291).
THEOREM RaisesAreJustified == Spec => []RaiseJustified
<1>1. HandleInv => RaiseJustified
  BY DEF HandleInv, Flags
<1>. QED
  BY <1>1, HandleInvariant, PTL

\* A slow callback whose I/O scores high, one operation of it done with raising
\* enabled, ends with the exception, whatever the shared flag and the switches
\* went through meanwhile (slow_tasks.py:208, 243-244, 275-291).
THEOREM ViolationsRaise == Spec => []ViolationRaises
<1>1. HandleInv => ViolationRaises
  BY DEF HandleInv, Alarm
<1>. QED
  BY <1>1, HandleInvariant, PTL

\* On the thread the hook listens to, every operation of a callback that ended
\* well is in a report, up to the cap (slow_tasks.py:208-238,
\* blocking_io.py:137-169).
THEOREM IoIsReported ==
  ASSUME OnMainThread
  PROVE  Spec => []NoIoLost
<1>1. ASSUME HandleInv, pc = "idle", outcome = "ok", Len(io) <= MaxEvents,
             NEW n \in DOMAIN io, io[n].watched
      PROVE  \E r \in DOMAIN reports : \E e \in Range(reports[r].events) : e.nr = n
  <2>. USE <1>1 DEF HandleInv
  <2>1. Depth = 0 /\ n \in 1 .. Len(io) /\ DOMAIN reports = 1 .. Len(reports)
    BY Shape DEF Control
  <2>2. ~(io[n].layer \in 1 .. Depth)
    BY <2>1
  <2>. QED
    BY <2>1, <2>2 DEF Kept
<1>2. HandleInv => NoIoLost
  BY <1>1 DEF NoIoLost
<1>. QED
  BY <1>2, HandleInvariant, PTL

=============================================================================
