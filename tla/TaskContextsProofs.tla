------------------------- MODULE TaskContextsProofs --------------------------
(* The invariants of TaskContexts for any tasks, values and instances, any   *)
(* number of wrappers around a callback and any length of user code.         *)
EXTENDS TaskContexts, SequenceTheorems, TLAPS

-----------------------------------------------------------------------------
(* The inductive invariants.                                                 *)

Context == Values \cup {None, Unset}
Layer   == [pre : Context, events : Seq(Context), reset : BOOLEAN, held : SUBSET Context]
Block   == [instance : Instances, before : BOOLEAN]
Token   == [task : Tasks \cup {NoTask}, old : BOOLEAN, used : BOOLEAN]

TaskTypes ==
  /\ created \subseteq Tasks /\ misused \subseteq Tasks
  /\ value \in [Tasks -> Context]
  /\ raising \in [Tasks -> BOOLEAN]
  /\ token \in [Instances -> Token]
  /\ blocks \in [Tasks -> Seq(Block)]
  /\ current \in created \cup {NoTask}

SliceTypes ==
  /\ pc \in {"enter", "body", "leave"}
  /\ stack \in Seq(Layer) /\ layers \in 0 .. MaxLayers /\ Depth <= layers
  /\ blockingContext \in Context \cup {NotTaken}
  /\ providersBlock \in BOOLEAN

\* Where the slice is.  Before its callback runs, only providers have blocked.
Control ==
  /\ current = NoTask => pc = "leave" /\ stack = <<>>
  /\ pc = "enter" => /\ Depth < layers
                     /\ ~providersBlock => \A k \in DOMAIN stack : stack[k].events = <<>>
  /\ pc = "body" => Depth = layers /\ layers >= 1

\* What was captured while a wrapper is open, its own or by an operation, is a
\* value that the task's context held meanwhile.
Captured ==
  \A k \in DOMAIN stack :
    /\ stack[k].pre \in stack[k].held
    /\ value[current] \in stack[k].held
    /\ blockingContext # NotTaken => blockingContext \in stack[k].held
    /\ stack[k].events # <<>> => blockingContext # NotTaken

\* The wrapper next to the callback: entering it forgot what was taken before.
FirstTaken ==
  stack # <<>> /\ Depth = layers /\ ~stack[Depth].reset =>
    /\ stack[Depth].events = <<>> => blockingContext = NotTaken
    /\ stack[Depth].events # <<>> => blockingContext = stack[Depth].events[1]

\* What the wrapper next to the callback reports: the context of the first
\* operation listed, whatever the slice began with.
FirstShown ==
  report # NoReport /\ report.events # <<>> /\ report.layer = layers /\ ~report.reset =>
    report.context = report.events[1]

SliceInv ==
  /\ TaskTypes
  /\ SliceTypes
  /\ Control
  /\ Captured
  /\ FirstTaken
  /\ OwnContext
  /\ FirstShown
  /\ NoKnownValueLost

\* A task that never shared an instance has the latest, unused token of each of
\* its blocks.
Tokens ==
  \A t \in Tasks \ misused : \A n \in DOMAIN blocks[t] :
    LET i == blocks[t][n].instance IN
    /\ token[i].task = t
    /\ token[i].old = blocks[t][n].before
    /\ ~token[i].used
    /\ \A m \in DOMAIN blocks[t] : blocks[t][m].instance = i => m = n

ContextInv == SliceInv /\ Tokens

-----------------------------------------------------------------------------
(* Capturing and the stack of wrappers.                                      *)

LEMMA CaptureType ==
  ASSUME TaskTypes, current # NoTask
  PROVE  /\ current \in Tasks /\ current \in created /\ Capture \in Context
         /\ NotTaken \notin Context
  BY ConstantsAssumption DEF TaskTypes, Capture, Context

\* The layers of a sequence of wrappers.
LEMMA Layers ==
  ASSUME NEW s \in Seq(Layer)
  PROVE  /\ Len(s) \in Nat /\ DOMAIN s = 1 .. Len(s)
         /\ s = <<>> <=> Len(s) = 0
         /\ s # <<>> => Len(s) >= 1 /\ Last(s) = s[Len(s)]
         /\ \A k \in 1 .. Len(s) : /\ s[k] \in Layer /\ s[k].pre \in Context
                                   /\ s[k].events \in Seq(Context) /\ s[k].reset \in BOOLEAN
                                   /\ s[k].held \in SUBSET Context
<1>1. Len(s) \in Nat /\ DOMAIN s = 1 .. Len(s) /\ (s = <<>> <=> Len(s) = 0)
  BY LenProperties, EmptySeq
<1>2. \A k \in 1 .. Len(s) : s[k] \in Layer
  BY ElementOfSeq
<1>. QED
  BY <1>1, <1>2 DEF Layer, Last

\* Leaving the innermost wrapper.
LEMMA FrontLayers ==
  ASSUME NEW s \in Seq(Layer), s # <<>>
  PROVE  /\ Front(s) \in Seq(Layer) /\ Len(Front(s)) = Len(s) - 1
         /\ \A k \in 1 .. Len(s) - 1 : Front(s)[k] = s[k]
<1>1. Len(s) \in Nat /\ Len(s) >= 1 /\ \A k \in 1 .. Len(s) : s[k] \in Layer
  BY Layers
<1>2. \A k \in 1 .. Len(s) - 1 : s[k] \in Layer
  BY <1>1
<1>3. /\ Front(s) \in Seq(Layer)
      /\ Len(Front(s)) = IF 1 <= Len(s) - 1 THEN Len(s) - 1 - 1 + 1 ELSE 0
      /\ \A k \in 1 .. Len(s) - 1 - 1 + 1 : Front(s)[k] = s[1 + k - 1]
  BY <1>1, <1>2, SubSeqProperties DEF Front
<1>. HIDE DEF Front
<1>4. Len(s) - 1 - 1 + 1 = Len(s) - 1 /\ \A k \in 1 .. Len(s) - 1 : 1 + k - 1 = k
  BY <1>1
<1>5. \A n \in Nat : n >= 1 => (IF 1 <= n - 1 THEN n - 1 - 1 + 1 ELSE 0) = n - 1
  OBVIOUS
<1>6. Len(Front(s)) = Len(s) - 1
  BY <1>1, <1>3, <1>5
<1>. QED
  BY <1>3, <1>4, <1>6

\* What the providers do to the wrappers they are asked in: at most an operation
\* more in the innermost one, and then the context is taken.
LEMMA Asked ==
  ASSUME TaskTypes, current # NoTask, providersBlock \in BOOLEAN,
         NEW outer \in Seq(Layer), NEW taken \in Context \cup {NotTaken},
         AskedIn(outer, taken)
  PROVE  /\ stack' \in Seq(Layer) /\ Len(stack') = Len(outer)
         /\ blockingContext' \in {taken, Capture} /\ blockingContext' \in Context \cup {NotTaken}
         /\ taken # NotTaken => blockingContext' = taken
         /\ \A k \in 1 .. Len(outer) :
              /\ stack'[k].pre = outer[k].pre /\ stack'[k].held = outer[k].held
              /\ stack'[k].reset = outer[k].reset
              /\ k < Len(outer) \/ ~providersBlock => stack'[k] = outer[k]
         /\ IF providersBlock /\ outer # <<>>
            THEN /\ stack'[Len(outer)].events = Append(outer[Len(outer)].events, Capture)
                 /\ blockingContext' = Taken(outer[Len(outer)].events, taken)
            ELSE stack' = outer /\ blockingContext' = taken
<1>1. Capture \in Context
  BY CaptureType
<1>2. CASE ~(providersBlock /\ outer # <<>>)
  BY <1>2, Layers DEF AskedIn
<1>3. CASE providersBlock /\ outer # <<>>
  <2>. DEFINE m == Len(outer)
              more == Append(outer[m].events, Capture)
  <2>1. m \in Nat /\ m >= 1 /\ m \in 1 .. m /\ DOMAIN outer = 1 .. m /\ Last(outer) = outer[m]
    BY <1>3, Layers
  <2>2. outer[m] \in Layer /\ outer[m].events \in Seq(Context)
    BY <2>1, Layers
  <2>3. more \in Seq(Context)
    BY <1>1, <2>2, AppendProperties
  <2>4. /\ stack' = [outer EXCEPT ![m].events = more]
        /\ blockingContext' = Taken(outer[m].events, taken)
    BY <1>3, <2>1 DEF AskedIn
  <2>. HIDE DEF more, m
  <2>5. [outer[m] EXCEPT !.events = more] \in Layer
    BY <2>2, <2>3 DEF Layer
  <2>6. stack' = [outer EXCEPT ![m] = [outer[m] EXCEPT !.events = more]]
    BY <2>4
  <2>7. /\ stack' \in Seq(Layer) /\ Len(stack') = m
        /\ \A k \in 1 .. m : stack'[k] = IF k = m THEN [outer[m] EXCEPT !.events = more] ELSE outer[k]
    BY <2>1, <2>5, <2>6, ExceptSeq DEF m
  <2>8. /\ stack'[m].events = more /\ stack'[m].pre = outer[m].pre
        /\ stack'[m].held = outer[m].held /\ stack'[m].reset = outer[m].reset
    BY <2>1, <2>2, <2>7 DEF Layer
  <2>9. \A k \in 1 .. m : k # m => stack'[k] = outer[k]
    BY <2>7
  <2>10. /\ blockingContext' \in {taken, Capture} /\ (taken # NotTaken => blockingContext' = taken)
    BY <2>4 DEF Taken
  <2>. QED
    BY <1>1, <1>3, <2>1, <2>4, <2>7, <2>8, <2>9, <2>10 DEF m, more
<1>. QED
  BY <1>2, <1>3

-----------------------------------------------------------------------------
(* Steps of the wrapper.                                                     *)

LEMMA ContextInit == Init => ContextInv
<1>. SUFFICES ASSUME Init PROVE ContextInv
  OBVIOUS
<1>1. Len(<<>>) = 0 /\ <<>> \in Seq(Layer) /\ <<>> \in Seq(Block) /\ DOMAIN <<>> = {}
  BY EmptySeq
<1>2. NoToken \in Token
  BY DEF NoToken, Token
<1>3. TaskTypes
  BY <1>1, <1>2 DEF Init, TaskTypes, Context
<1>4. SliceTypes /\ Control
  BY <1>1, ConstantsAssumption DEF Init, SliceTypes, Control, Depth
<1>5. Captured /\ FirstTaken
  BY <1>1 DEF Init, Captured, FirstTaken
<1>6. OwnContext /\ FirstShown /\ NoKnownValueLost
  BY DEF Init, OwnContext, FirstShown, NoKnownValueLost
<1>7. Tokens
  BY <1>1 DEF Init, Tokens
<1>. QED
  BY <1>3, <1>4, <1>5, <1>6, <1>7 DEF SliceInv, ContextInv

LEMMA RunSliceStep ==
  ASSUME SliceInv, NEW t \in Tasks, NEW n \in 1 .. MaxLayers, RunSlice(t, n)
  PROVE  SliceInv'
<1>. USE DEF SliceInv, RunSlice
<1>1. stack = <<>> /\ Len(stack) = 0 /\ DOMAIN stack = {}
  BY EmptySeq DEF Control
<1>2. t # NoTask
  BY ConstantsAssumption
<1>3. TaskTypes'
  BY DEF TaskTypes, taskVars
<1>4. SliceTypes' /\ Control'
  BY <1>1, <1>2, ConstantsAssumption DEF SliceTypes, Control, Depth
<1>5. Captured' /\ FirstTaken'
  BY <1>1 DEF Captured, FirstTaken
<1>6. OwnContext' /\ FirstShown' /\ NoKnownValueLost'
  BY DEF OwnContext, FirstShown, NoKnownValueLost
<1>. QED
  BY <1>3, <1>4, <1>5, <1>6

\* A wrapper is entered: its list is empty and nothing is taken, unless a
\* provider blocks at once.
LEMMA EnterWrapperStep ==
  ASSUME SliceInv, EnterWrapper
  PROVE  SliceInv'
<1>. DEFINE new   == [pre |-> Capture, events |-> <<>>, reset |-> FALSE, held |-> {Capture}]
            outer == Append(stack, new)
            d     == Len(stack)
<1>1. /\ current # NoTask /\ d < layers /\ stack \in Seq(Layer) /\ d \in Nat /\ layers \in Nat
      /\ DOMAIN stack = 1 .. d
  BY Layers DEF SliceInv, EnterWrapper, Control, SliceTypes, Depth
<1>2. Capture \in Context /\ NotTaken \notin Context
  BY <1>1, CaptureType DEF SliceInv
<1>3. new \in Layer
  BY <1>2, EmptySeq DEF Layer
<1>4. /\ outer \in Seq(Layer) /\ Len(outer) = d + 1
      /\ \A k \in 1 .. d : outer[k] = stack[k]
      /\ outer[d + 1] = new
  BY <1>1, <1>3, AppendProperties
<1>5. /\ AskedIn(outer, NotTaken)
      /\ pc' = IF d + 1 = layers THEN "body" ELSE "enter"
      /\ UNCHANGED <<taskVars, current, layers, raised, report, providersBlock, ops>>
  BY DEF EnterWrapper, AtEntry, Depth
<1>6. new.pre = Capture /\ new.events = <<>> /\ ~new.reset /\ new.held = {Capture}
  OBVIOUS
<1>. HIDE DEF new, outer, d
<1>7. /\ stack' \in Seq(Layer) /\ Len(stack') = d + 1
      /\ blockingContext' \in {NotTaken, Capture} /\ blockingContext' \in Context \cup {NotTaken}
      /\ \A k \in 1 .. d + 1 :
           /\ stack'[k].pre = outer[k].pre /\ stack'[k].held = outer[k].held
           /\ stack'[k].reset = outer[k].reset
           /\ k < d + 1 \/ ~providersBlock => stack'[k] = outer[k]
      /\ IF providersBlock
         THEN /\ stack'[d + 1].events = Append(<<>>, Capture)
              /\ blockingContext' = Capture
         ELSE stack' = outer /\ blockingContext' = NotTaken
  <2>1. outer # <<>> /\ providersBlock \in BOOLEAN
    BY <1>1, <1>4, Layers DEF SliceInv, SliceTypes
  <2>. QED
    <3>1. NotTaken \in Context \cup {NotTaken} /\ TaskTypes
      BY DEF SliceInv
    <3>2. /\ stack' \in Seq(Layer) /\ Len(stack') = Len(outer)
          /\ blockingContext' \in {NotTaken, Capture} /\ blockingContext' \in Context \cup {NotTaken}
          /\ \A k \in 1 .. Len(outer) :
               /\ stack'[k].pre = outer[k].pre /\ stack'[k].held = outer[k].held
               /\ stack'[k].reset = outer[k].reset
               /\ k < Len(outer) \/ ~providersBlock => stack'[k] = outer[k]
          /\ IF providersBlock /\ outer # <<>>
             THEN /\ stack'[Len(outer)].events = Append(outer[Len(outer)].events, Capture)
                  /\ blockingContext' = Taken(outer[Len(outer)].events, NotTaken)
             ELSE stack' = outer /\ blockingContext' = NotTaken
      BY <1>1, <1>4, <1>5, <2>1, <3>1, Asked
    <3>3. outer[Len(outer)].events = <<>> /\ Taken(<<>>, NotTaken) = Capture
      BY <1>4, <1>6 DEF Taken
    <3>. QED
      BY <1>4, <2>1, <3>2, <3>3
<1>8. DOMAIN stack' = 1 .. d + 1 /\ (stack' = <<>> <=> d + 1 = 0)
  BY <1>7, Layers
<1>9. TaskTypes'
  BY <1>5 DEF SliceInv, TaskTypes, taskVars
<1>10. SliceTypes'
  BY <1>1, <1>5, <1>7 DEF SliceInv, SliceTypes, Depth
<1>11. Control'
  <2>1. ASSUME ~providersBlock, NEW k \in 1 .. d + 1
        PROVE  pc' = "enter" => stack'[k].events = <<>>
    <3>1. stack'[k] = outer[k]
      BY <1>7, <2>1
    <3>2. CASE k = d + 1
      BY <1>4, <1>6, <3>1, <3>2
    <3>3. CASE k # d + 1
      <4>1. k \in 1 .. d
        BY <1>1, <3>3
      <4>. QED
        BY <1>1, <1>4, <2>1, <3>1, <4>1 DEF SliceInv, Control, EnterWrapper
    <3>. QED
      BY <3>2, <3>3
  <2>. QED
    BY <1>1, <1>5, <1>7, <1>8, <2>1 DEF Control, Depth
<1>12. Captured'
  <2>1. ASSUME NEW k \in 1 .. d + 1
        PROVE  /\ stack'[k].pre \in stack'[k].held
               /\ value'[current'] \in stack'[k].held
               /\ blockingContext' # NotTaken => blockingContext' \in stack'[k].held
               /\ stack'[k].events # <<>> => blockingContext' # NotTaken
    <3>1. value'[current'] = Capture
      BY <1>5 DEF taskVars, Capture
    <3>2. outer[k].pre \in outer[k].held /\ Capture \in outer[k].held
      <4>1. CASE k = d + 1
        BY <1>4, <1>6, <4>1
      <4>2. CASE k # d + 1
        <5>1. k \in 1 .. d
          BY <1>1, <4>2
        <5>. QED
          BY <1>1, <1>4, <5>1 DEF SliceInv, Captured, Capture
      <4>. QED
        BY <4>1, <4>2
    <3>3. stack'[k].events # <<>> => blockingContext' # NotTaken
      <4>1. CASE providersBlock
        BY <1>2, <1>7, <4>1
      <4>2. CASE ~providersBlock
        <5>1. stack'[k] = outer[k]
          BY <1>7, <4>2
        <5>2. outer[k].events = <<>>
          <6>1. CASE k = d + 1
            BY <1>4, <1>6, <6>1
          <6>2. CASE k # d + 1
            <7>1. k \in 1 .. d
              BY <1>1, <6>2
            <7>. QED
              BY <1>1, <1>4, <4>2, <7>1 DEF SliceInv, Control, EnterWrapper
          <6>. QED
            BY <6>1, <6>2
        <5>. QED
          BY <5>1, <5>2
      <4>. QED
        BY <4>1, <4>2
    <3>. QED
      BY <1>7, <3>1, <3>2, <3>3
  <2>. QED
    BY <1>8, <2>1 DEF Captured
<1>13. FirstTaken'
  <2>1. d + 1 \in 1 .. d + 1
    BY <1>1
  <2>2. CASE providersBlock
    <3>1. /\ Append(<<>>, Capture) # <<>> /\ Append(<<>>, Capture)[1] = Capture
      BY <1>2
    <3>2. stack'[d + 1].events = Append(<<>>, Capture) /\ blockingContext' = Capture
      BY <1>7, <2>2
    <3>. QED
      BY <1>7, <3>1, <3>2 DEF FirstTaken, Depth
  <2>3. CASE ~providersBlock
    <3>1. stack'[d + 1].events = <<>> /\ blockingContext' = NotTaken
      BY <1>4, <1>6, <1>7, <2>3
    <3>. QED
      BY <1>7, <3>1 DEF FirstTaken, Depth
  <2>. QED
    BY <2>2, <2>3
<1>14. OwnContext' /\ FirstShown' /\ NoKnownValueLost'
  BY <1>5 DEF SliceInv, OwnContext, FirstShown, NoKnownValueLost
<1>. QED
  BY <1>9, <1>10, <1>11, <1>12, <1>13, <1>14 DEF SliceInv

\* A callback that returned is reported, with the context of its first operation
\* or the merged one; the wrapper around it is the innermost one now.
LEMMA LeaveStep ==
  ASSUME SliceInv, Leave
  PROVE  SliceInv'
<1>. DEFINE d == Len(stack)
            inner == stack[d]
            outer == Front(stack)
<1>1. /\ stack \in Seq(Layer) /\ stack # <<>> /\ current # NoTask /\ pc = "leave"
      /\ d \in Nat /\ d >= 1 /\ d <= layers /\ layers \in Nat /\ DOMAIN stack = 1 .. d
      /\ inner = Last(stack) /\ inner \in Layer
  BY Layers DEF SliceInv, Leave, Control, SliceTypes, Depth
<1>2. /\ Capture \in Context /\ NotTaken \notin Context /\ Capture = value[current]
      /\ blockingContext \in Context \cup {NotTaken} /\ providersBlock \in BOOLEAN
  BY <1>1, CaptureType DEF SliceInv, Capture, SliceTypes
<1>3. /\ outer \in Seq(Layer) /\ Len(outer) = d - 1
      /\ \A k \in 1 .. d - 1 : outer[k] = stack[k]
      /\ (outer = <<>> <=> d - 1 = 0)
  BY <1>1, FrontLayers, Layers
<1>4. /\ UNCHANGED <<taskVars, layers, pc, raised, providersBlock, ops>>
      /\ current' = IF d = 1 THEN NoTask ELSE current
      /\ IF raised
         THEN stack' = outer /\ UNCHANGED <<blockingContext, report>>
         ELSE /\ AskedIn(outer, blockingContext)
              /\ report' = [layer |-> d, events |-> inner.events, reset |-> inner.reset,
                            pre |-> inner.pre, post |-> Capture, held |-> inner.held,
                            context |-> IF inner.events # <<>> /\ blockingContext' # NotTaken
                                        THEN blockingContext' ELSE Merged(inner.pre, Capture)]
  BY <1>1 DEF Leave, Depth
<1>5. /\ inner.pre \in inner.held /\ Capture \in inner.held
      /\ blockingContext # NotTaken => blockingContext \in inner.held
      /\ inner.events # <<>> => blockingContext # NotTaken
  BY <1>1, <1>2 DEF SliceInv, Captured
<1>. HIDE DEF inner, outer, d
<1>6. /\ stack' \in Seq(Layer) /\ Len(stack') = d - 1
      /\ blockingContext' \in {blockingContext, Capture} /\ blockingContext' \in Context \cup {NotTaken}
      /\ blockingContext # NotTaken => blockingContext' = blockingContext
      /\ \A k \in 1 .. d - 1 :
           /\ stack'[k].pre = outer[k].pre /\ stack'[k].held = outer[k].held
           /\ stack'[k].events = outer[k].events
              \/ (k = d - 1 /\ blockingContext' = Taken(outer[k].events, blockingContext))
  <2>1. CASE raised
    BY <1>2, <1>3, <1>4, <2>1
  <2>2. CASE ~raised
    <3>1. AskedIn(outer, blockingContext) /\ TaskTypes
      BY <1>4, <2>2 DEF SliceInv
    <3>2. /\ stack' \in Seq(Layer) /\ Len(stack') = Len(outer)
          /\ blockingContext' \in {blockingContext, Capture}
          /\ blockingContext' \in Context \cup {NotTaken}
          /\ blockingContext # NotTaken => blockingContext' = blockingContext
          /\ \A k \in 1 .. Len(outer) :
               /\ stack'[k].pre = outer[k].pre /\ stack'[k].held = outer[k].held
               /\ k < Len(outer) \/ ~providersBlock => stack'[k] = outer[k]
          /\ IF providersBlock /\ outer # <<>>
             THEN blockingContext' = Taken(outer[Len(outer)].events, blockingContext)
             ELSE stack' = outer
      BY <1>1, <1>2, <1>3, <3>1, Asked
    <3>3. ASSUME NEW k \in 1 .. d - 1
          PROVE  \/ stack'[k].events = outer[k].events
                 \/ k = d - 1 /\ blockingContext' = Taken(outer[k].events, blockingContext)
      <4>1. outer # <<>>
        BY <1>1, <1>3
      <4>. QED
        BY <1>1, <1>3, <3>2, <4>1
    <3>. QED
      BY <1>3, <3>2, <3>3
  <2>. QED
    BY <2>1, <2>2
<1>7. DOMAIN stack' = 1 .. d - 1 /\ (stack' = <<>> <=> d - 1 = 0)
  BY <1>6, Layers
<1>8. TaskTypes'
  BY <1>4 DEF SliceInv, TaskTypes, taskVars
<1>9. SliceTypes' /\ Control' /\ FirstTaken'
  BY <1>1, <1>4, <1>6, <1>7 DEF SliceInv, SliceTypes, Control, FirstTaken, Depth
<1>10. Captured'
  <2>1. ASSUME NEW k \in 1 .. d - 1
        PROVE  /\ stack'[k].pre \in stack'[k].held
               /\ value'[current'] \in stack'[k].held
               /\ blockingContext' # NotTaken => blockingContext' \in stack'[k].held
               /\ stack'[k].events # <<>> => blockingContext' # NotTaken
    <3>1. k \in DOMAIN stack /\ outer[k] = stack[k] /\ d # 1
      BY <1>1, <1>3
    <3>2. value'[current'] = Capture
      BY <1>2, <1>4, <3>1 DEF taskVars
    <3>3. /\ outer[k].pre \in outer[k].held /\ Capture \in outer[k].held
          /\ blockingContext # NotTaken => blockingContext \in outer[k].held
          /\ outer[k].events # <<>> => blockingContext # NotTaken
      BY <1>2, <3>1 DEF SliceInv, Captured
    <3>4. stack'[k].events # <<>> => blockingContext' # NotTaken
      <4>1. Taken(outer[k].events, blockingContext) # NotTaken
        BY <1>2, <3>3 DEF Taken
      <4>. QED
        BY <1>6, <3>3, <4>1
    <3>. QED
      BY <1>6, <3>2, <3>3, <3>4
  <2>. QED
    BY <1>7, <2>1 DEF Captured
<1>11. OwnContext' /\ FirstShown' /\ NoKnownValueLost'
  <2>1. CASE raised
    BY <1>4, <2>1 DEF SliceInv, OwnContext, FirstShown, NoKnownValueLost
  <2>2. CASE ~raised
    <3>1. /\ report'.layer = d /\ report'.events = inner.events
          /\ (report'.reset <=> inner.reset)
          /\ report'.pre = inner.pre /\ report'.post = Capture /\ report'.held = inner.held
          /\ report'.context = IF inner.events # <<>> /\ blockingContext' # NotTaken
                               THEN blockingContext' ELSE Merged(inner.pre, Capture)
      BY <1>4, <2>2
    <3>2. Merged(inner.pre, Capture) \in {inner.pre, Capture}
      BY DEF Merged
    <3>3. OwnContext'
      BY <1>5, <1>6, <3>1, <3>2 DEF OwnContext
    <3>4. FirstShown'
      <4>1. ASSUME inner.events # <<>>, d = layers, ~inner.reset
            PROVE  report'.context = inner.events[1]
        <5>1. blockingContext # NotTaken /\ blockingContext = inner.events[1]
          BY <1>1, <1>5, <4>1 DEF SliceInv, FirstTaken, inner, d, Depth
        <5>. QED
          BY <1>6, <3>1, <4>1, <5>1
      <4>2. layers' = layers
        BY <1>4
      <4>. QED
        BY <3>1, <4>1, <4>2 DEF FirstShown
    <3>5. NoKnownValueLost'
      BY <1>2, <3>1, ConstantsAssumption DEF NoKnownValueLost, Merged, Context
    <3>. QED
      BY <3>3, <3>4, <3>5
  <2>. QED
    BY <2>1, <2>2
<1>. QED
  BY <1>8, <1>9, <1>10, <1>11 DEF SliceInv

-----------------------------------------------------------------------------
(* Steps of user code.                                                       *)

LEMMA InBody ==
  ASSUME SliceInv, pc = "body"
  PROVE  /\ current \in Tasks /\ current \in created /\ current # NoTask
         /\ Capture \in Context /\ NotTaken \notin Context /\ Capture = value[current]
         /\ stack \in Seq(Layer) /\ DOMAIN stack = 1 .. Depth /\ Depth \in Nat /\ Depth = layers
         /\ Depth >= 1 /\ stack # <<>> /\ Last(stack) = stack[Depth] /\ stack[Depth] \in Layer
<1>1. current # NoTask /\ Depth = layers /\ Depth >= 1 /\ stack \in Seq(Layer)
  BY DEF SliceInv, Control, SliceTypes
<1>. QED
  BY <1>1, CaptureType, Layers DEF SliceInv, Depth, Capture

\* The provider's variable changes: every open slice has held the new value.
LEMMA SetValueStep ==
  ASSUME SliceInv, NEW v \in Values \cup {None}, SetValue(v)
  PROVE  SliceInv'
<1>1. /\ value' = [value EXCEPT ![current] = v]
      /\ stack' = [k \in DOMAIN stack |-> [stack[k] EXCEPT !.held = @ \cup {v}]]
      /\ UNCHANGED <<created, raising, token, blocks, misused, current, layers, pc, raised,
                     blockingContext, providersBlock, report>>
      /\ pc = "body"
  BY DEF SetValue, UserOp
<1>2. v \in Context
  BY DEF Context
<1>3. \A k \in 1 .. Depth :
        /\ stack'[k] \in Layer /\ stack'[k].held = stack[k].held \cup {v}
        /\ stack'[k].pre = stack[k].pre /\ stack'[k].events = stack[k].events
        /\ (stack'[k].reset <=> stack[k].reset)
  <2>1. ASSUME NEW k \in 1 .. Depth
        PROVE  /\ stack'[k] \in Layer /\ stack'[k].held = stack[k].held \cup {v}
               /\ stack'[k].pre = stack[k].pre /\ stack'[k].events = stack[k].events
               /\ (stack'[k].reset <=> stack[k].reset)
    <3>1. stack'[k] = [stack[k] EXCEPT !.held = @ \cup {v}] /\ stack[k] \in Layer
      BY <1>1, <2>1, InBody, Layers DEF Depth
    <3>. QED
      BY <1>2, <3>1 DEF Layer
  <2>. QED
    BY <2>1
<1>4. stack' \in Seq(Layer) /\ Len(stack') = Depth /\ DOMAIN stack' = 1 .. Depth
  <2>1. DOMAIN stack = 1 .. Depth /\ Depth \in Nat
    BY <1>1, InBody
  <2>2. stack' \in [1 .. Depth -> Layer]
    BY <1>1, <1>3, <2>1
  <2>. QED
    BY <2>1, <2>2, LenProperties
<1>5. TaskTypes' /\ SliceTypes' /\ Control'
  BY <1>1, <1>2, <1>4, InBody DEF SliceInv, TaskTypes, SliceTypes, Control, Depth
<1>6. Captured'
  <2>1. value'[current'] = v /\ blockingContext' = blockingContext
    BY <1>1, InBody DEF SliceInv, TaskTypes
  <2>2. ASSUME NEW k \in 1 .. Depth
        PROVE  /\ stack[k].pre \in stack[k].held
               /\ blockingContext # NotTaken => blockingContext \in stack[k].held
               /\ stack[k].events # <<>> => blockingContext # NotTaken
    BY <1>1, InBody DEF SliceInv, Captured
  <2>. QED
    BY <1>3, <1>4, <2>1, <2>2 DEF Captured
<1>7. FirstTaken'
  <2>1. stack # <<>> => Depth \in 1 .. Depth
    BY <1>1, InBody
  <2>. QED
    BY <1>1, <1>3, <1>4, <2>1, InBody, Layers DEF SliceInv, FirstTaken, Depth
<1>8. OwnContext' /\ FirstShown' /\ NoKnownValueLost'
  BY <1>1 DEF SliceInv, OwnContext, FirstShown, NoKnownValueLost
<1>. QED
  BY <1>5, <1>6, <1>7, <1>8 DEF SliceInv

\* An operation is recorded, or what was recorded is thrown away.
LEMMA EventsStep ==
  ASSUME SliceInv, BlockingIo \/ ResetEvents
  PROVE  SliceInv'
<1>. DEFINE d == Depth
            old == stack[d]
<1>1. /\ pc = "body"
      /\ UNCHANGED <<taskVars, current, layers, pc, raised, providersBlock, report>>
  BY DEF BlockingIo, ResetEvents, UserOp
<1>2. /\ d \in Nat /\ d >= 1 /\ d = layers /\ d \in 1 .. d /\ d = Len(stack) /\ stack \in Seq(Layer)
      /\ DOMAIN stack = 1 .. d /\ old = Last(stack) /\ old \in Layer /\ old.events \in Seq(Context)
      /\ Capture \in Context /\ NotTaken \notin Context /\ Capture = value[current]
      /\ blockingContext \in Context \cup {NotTaken}
  BY <1>1, InBody DEF SliceInv, SliceTypes, Layer, Depth
<1>3. PICK new \in Layer :
        /\ stack' = [stack EXCEPT ![d] = new]
        /\ new.pre = old.pre /\ new.held = old.held
        /\ \/ /\ new.events = Append(old.events, Capture) /\ (new.reset <=> old.reset)
              /\ blockingContext' = Taken(old.events, blockingContext)
           \/ new.events = <<>> /\ new.reset /\ blockingContext' = blockingContext
  <2>1. CASE BlockingIo
    <3>. DEFINE new == [old EXCEPT !.events = Append(@, Capture)]
    <3>1. Append(old.events, Capture) \in Seq(Context)
      BY <1>2, AppendProperties
    <3>2. new \in Layer
      BY <1>2, <3>1 DEF Layer
    <3>3. /\ new.pre = old.pre /\ new.held = old.held /\ new.reset = old.reset
          /\ new.events = Append(old.events, Capture)
      BY <1>2 DEF Layer
    <3>4. stack' = [stack EXCEPT ![d].events = Append(@, Capture)]
      BY <2>1 DEF BlockingIo
    <3>5. stack' = [stack EXCEPT ![d] = new]
      BY <1>2, <3>4
    <3>6. blockingContext' = Taken(old.events, blockingContext)
      BY <1>2, <2>1 DEF BlockingIo
    <3>. QED
      BY <3>2, <3>3, <3>5, <3>6
  <2>2. CASE ResetEvents
    <3>. DEFINE new == [old EXCEPT !.events = <<>>, !.reset = TRUE]
    <3>1. <<>> \in Seq(Context)
      BY EmptySeq
    <3>2. new \in Layer
      BY <1>2, <3>1 DEF Layer
    <3>3. new.pre = old.pre /\ new.held = old.held /\ new.reset /\ new.events = <<>>
      BY <1>2 DEF Layer
    <3>4. stack' = [stack EXCEPT ![d].events = <<>>, ![d].reset = TRUE]
      BY <2>2 DEF ResetEvents
    <3>5. stack' = [stack EXCEPT ![d] = new]
      BY <1>2, <3>4
    <3>6. blockingContext' = blockingContext
      BY <2>2 DEF ResetEvents
    <3>. QED
      BY <3>2, <3>3, <3>5, <3>6
  <2>. QED
    BY <2>1, <2>2
<1>. HIDE DEF d, old
<1>4. /\ stack' \in Seq(Layer) /\ Len(stack') = d /\ DOMAIN stack' = 1 .. d
      /\ stack'[d] = new /\ \A k \in 1 .. d : k # d => stack'[k] = stack[k]
  BY <1>2, <1>3, ExceptSeq, LenProperties
<1>5. blockingContext' \in {blockingContext, Capture} /\ blockingContext' \in Context \cup {NotTaken}
      /\ (blockingContext # NotTaken => blockingContext' = blockingContext)
  BY <1>2, <1>3 DEF Taken
<1>6. TaskTypes'
  BY <1>1 DEF SliceInv, TaskTypes, taskVars
<1>7. SliceTypes' /\ Control'
  BY <1>1, <1>2, <1>4, <1>5 DEF SliceInv, SliceTypes, Control, Depth
<1>8. old.events # <<>> => blockingContext # NotTaken
  BY <1>2 DEF SliceInv, Captured, old
<1>9. new.events # <<>> => blockingContext' # NotTaken
  BY <1>2, <1>3, <1>8 DEF Taken
<1>10. Captured'
  <2>1. ASSUME NEW k \in 1 .. d
        PROVE  /\ stack'[k].pre \in stack'[k].held
               /\ value'[current'] \in stack'[k].held
               /\ blockingContext' # NotTaken => blockingContext' \in stack'[k].held
               /\ stack'[k].events # <<>> => blockingContext' # NotTaken
    <3>1. /\ stack[k].pre \in stack[k].held /\ Capture \in stack[k].held
          /\ blockingContext # NotTaken => blockingContext \in stack[k].held
          /\ stack[k].events # <<>> => blockingContext # NotTaken
      BY <1>2 DEF SliceInv, Captured
    <3>2. stack'[k].pre = stack[k].pre /\ stack'[k].held = stack[k].held
      BY <1>3, <1>4 DEF old
    <3>3. stack'[k].events # <<>> => blockingContext' # NotTaken
      <4>1. CASE k = d
        BY <1>4, <1>9, <4>1
      <4>2. CASE k # d
        BY <1>4, <1>5, <3>1, <4>2
      <4>. QED
        BY <4>1, <4>2
    <3>4. value'[current'] = Capture
      BY <1>1, <1>2 DEF taskVars
    <3>. QED
      BY <1>5, <3>1, <3>2, <3>3, <3>4
  <2>. QED
    BY <1>4, <2>1 DEF Captured
<1>11. FirstTaken'
  <2>1. ASSUME ~new.reset
        PROVE  new.events # <<>> /\ blockingContext' = new.events[1]
    <3>1. /\ ~old.reset /\ new.events = Append(old.events, Capture)
          /\ blockingContext' = Taken(old.events, blockingContext)
      BY <1>3, <2>1
    <3>2. /\ old.events = <<>> => blockingContext = NotTaken
          /\ old.events # <<>> => blockingContext = old.events[1]
      <4>1. stack # <<>>
        BY <1>2, Layers
      <4>. QED
        BY <1>2, <3>1, <4>1 DEF SliceInv, FirstTaken, old, d
    <3>3. /\ new.events # <<>>
          /\ new.events[1] = IF old.events = <<>> THEN Capture ELSE old.events[1]
      <4>1. Len(old.events) \in Nat /\ (old.events = <<>> <=> Len(old.events) = 0)
        BY <1>2, LenProperties, EmptySeq
      <4>2. /\ Append(old.events, Capture) # <<>>
            /\ \A i \in 1 .. Len(old.events) : Append(old.events, Capture)[i] = old.events[i]
            /\ Append(old.events, Capture)[Len(old.events) + 1] = Capture
        BY <1>2, AppendProperties
      <4>. QED
        BY <3>1, <4>1, <4>2
    <3>. QED
      BY <1>2, <3>1, <3>2, <3>3 DEF Taken
  <2>. QED
    BY <1>4, <2>1 DEF FirstTaken, Depth
<1>12. OwnContext' /\ FirstShown' /\ NoKnownValueLost'
  BY <1>1 DEF SliceInv, OwnContext, FirstShown, NoKnownValueLost
<1>. QED
  BY <1>6, <1>7, <1>10, <1>11, <1>12 DEF SliceInv

\* New tasks, raise_on_violations and its blocks do not touch the slice.
LEMMA OtherStep ==
  ASSUME SliceInv,
         \/ \E exception \in BOOLEAN : CallbackEnds(exception)
         \/ \E t \in Tasks : Create(t)
         \/ \E b \in BOOLEAN : SetRaising(b)
         \/ \E i \in Instances : EnterBlock(i)
         \/ ExitBlock
  PROVE  SliceInv'
<1>1. pc = "body"
  BY DEF CallbackEnds, Create, SetRaising, EnterBlock, ExitBlock, UserOp
<1>2. /\ UNCHANGED <<current, layers, stack, blockingContext, report, providersBlock>>
      /\ pc' \in {"body", "leave"}
  BY <1>1 DEF CallbackEnds, Create, SetRaising, EnterBlock, ExitBlock, UserOp, sliceVars
<1>3. value'[current] = value[current] /\ TaskTypes'
  <2>1. CASE \E exception \in BOOLEAN : CallbackEnds(exception)
    BY <2>1 DEF SliceInv, CallbackEnds, TaskTypes, taskVars
  <2>2. ASSUME NEW t \in Tasks, Create(t)
        PROVE  value'[current] = value[current] /\ TaskTypes'
    BY <1>1, <2>2, InBody DEF SliceInv, Create, TaskTypes, sliceVars
  <2>3. ASSUME NEW b \in BOOLEAN, SetRaising(b)
        PROVE  value'[current] = value[current] /\ TaskTypes'
    BY <2>3 DEF SliceInv, SetRaising, TaskTypes, sliceVars
  <2>4. ASSUME NEW i \in Instances, EnterBlock(i)
        PROVE  value'[current] = value[current] /\ TaskTypes'
    <3>1. UNCHANGED <<created, value, current>> /\ current \in Tasks
      BY <1>1, <2>4, InBody DEF EnterBlock, sliceVars
    <3>2. /\ [task |-> current, old |-> raising[current], used |-> FALSE] \in Token
          /\ [instance |-> i, before |-> raising[current]] \in Block
      BY <3>1 DEF SliceInv, TaskTypes, Token, Block
    <3>3. token' \in [Instances -> Token] /\ raising' \in [Tasks -> BOOLEAN]
      BY <2>4, <3>1, <3>2 DEF SliceInv, TaskTypes, EnterBlock
    <3>4. blocks' \in [Tasks -> Seq(Block)]
      BY <2>4, <3>1, <3>2 DEF SliceInv, TaskTypes, EnterBlock
    <3>5. misused' \subseteq Tasks
      BY <2>4, <3>1 DEF SliceInv, TaskTypes, EnterBlock, InUse
    <3>. QED
      BY <3>1, <3>3, <3>4, <3>5 DEF SliceInv, TaskTypes
  <2>5. CASE ExitBlock
    <3>. DEFINE i == Last(blocks[current]).instance
    <3>1. UNCHANGED <<created, value, misused, current>> /\ current \in Tasks
      BY <1>1, <2>5, InBody DEF ExitBlock, sliceVars
    <3>2. token' \in [Instances -> Token] /\ raising' \in [Tasks -> BOOLEAN]
      <4>1. i \in Instances /\ token[i] \in Token
        <5>1. blocks[current] \in Seq(Block) /\ blocks[current] # <<>>
          BY <2>5, <3>1 DEF SliceInv, TaskTypes, ExitBlock
        <5>2. Last(blocks[current]) \in Block
          BY <5>1, LenProperties, EmptySeq DEF Last
        <5>. QED
          BY <5>2 DEF SliceInv, TaskTypes, Block
      <4>2. Reset(i)
        BY <2>5 DEF ExitBlock
      <4>. HIDE DEF i
      <4>3. token[i].old \in BOOLEAN /\ [token[i] EXCEPT !.used = TRUE] \in Token
        BY <4>1 DEF Token
      <4>4. CASE token[i].task = current /\ ~token[i].used
        <5>1. /\ raising' = [raising EXCEPT ![current] = token[i].old]
              /\ token' = [token EXCEPT ![i] = [token[i] EXCEPT !.used = TRUE]]
          BY <4>2, <4>4 DEF Reset
        <5>. QED
          BY <4>3, <5>1 DEF SliceInv, TaskTypes
      <4>5. CASE ~(token[i].task = current /\ ~token[i].used)
        BY <4>2, <4>5 DEF SliceInv, TaskTypes, Reset
      <4>. QED
        BY <4>4, <4>5
    <3>3. blocks' \in [Tasks -> Seq(Block)]
      BY <2>5, <3>1 DEF SliceInv, TaskTypes, ExitBlock, Front
    <3>. QED
      BY <3>1, <3>2, <3>3 DEF SliceInv, TaskTypes
  <2>. QED
    BY <2>1, <2>2, <2>3, <2>4, <2>5
<1>4. SliceTypes' /\ Control' /\ Captured' /\ FirstTaken'
  BY <1>1, <1>2, <1>3, InBody DEF SliceInv, SliceTypes, Control, Captured, FirstTaken, Depth
<1>5. OwnContext' /\ FirstShown' /\ NoKnownValueLost'
  BY <1>2 DEF SliceInv, OwnContext, FirstShown, NoKnownValueLost
<1>. QED
  BY <1>3, <1>4, <1>5 DEF SliceInv

-----------------------------------------------------------------------------
(* Steps on the blocks.                                                      *)

LEMMA BlockTypes ==
  ASSUME TaskTypes, NEW t \in Tasks
  PROVE  /\ Len(blocks[t]) \in Nat /\ DOMAIN blocks[t] = 1 .. Len(blocks[t])
         /\ blocks[t] \in Seq(Block)
         /\ blocks[t] # <<>> => Len(blocks[t]) >= 1 /\ Last(blocks[t]) = blocks[t][Len(blocks[t])]
         /\ \A n \in DOMAIN blocks[t] : /\ blocks[t][n] \in Block
                                        /\ blocks[t][n].instance \in Instances
<1>1. blocks[t] \in Seq(Block)
  BY DEF TaskTypes
<1>2. Len(blocks[t]) \in Nat /\ DOMAIN blocks[t] = 1 .. Len(blocks[t])
  BY <1>1, LenProperties
<1>3. blocks[t] # <<>> => Len(blocks[t]) >= 1
  BY <1>1, <1>2, EmptySeq
<1>4. \A n \in DOMAIN blocks[t] : blocks[t][n] \in Block
  BY <1>1, <1>2, ElementOfSeq
<1>5. \A b \in Block : b.instance \in Instances
  BY DEF Block
<1>6. Last(blocks[t]) = blocks[t][Len(blocks[t])]
  BY DEF Last
<1>. QED
  BY <1>1, <1>2, <1>3, <1>4, <1>5, <1>6

\* The token of an entry belongs to one block only, or every task concerned is
\* counted as misusing.
LEMMA EnterKeepsTokens ==
  ASSUME ContextInv, NEW i \in Instances, EnterBlock(i)
  PROVE  Tokens'
<1>. USE DEF ContextInv, SliceInv
<1>1. current \in Tasks
  BY InBody DEF EnterBlock, UserOp
<1>2. /\ token' = [token EXCEPT ![i] = [task |-> current, old |-> raising[current], used |-> FALSE]]
      /\ blocks' = [blocks EXCEPT ![current] =
                      Append(@, [instance |-> i, before |-> raising[current]])]
      /\ misused' = IF InUse(i) = {} THEN misused ELSE misused \cup InUse(i) \cup {current}
  BY DEF EnterBlock
<1>. DEFINE b == [instance |-> i, before |-> raising[current]]
            l == Len(blocks[current])
<1>3. b \in Block
  BY <1>1 DEF TaskTypes, Block
<1>4. /\ blocks'[current] = Append(blocks[current], b)
      /\ l \in Nat /\ DOMAIN blocks[current] = 1 .. l /\ DOMAIN blocks'[current] = 1 .. l + 1
      /\ \A n \in 1 .. l : blocks'[current][n] = blocks[current][n]
      /\ blocks'[current][l + 1] = b
  <2>1. blocks'[current] = Append(blocks[current], b)
    BY <1>1, <1>2 DEF TaskTypes
  <2>2. blocks[current] \in Seq(Block) /\ l \in Nat /\ DOMAIN blocks[current] = 1 .. l
    BY <1>1, BlockTypes
  <2>. QED
    BY <1>3, <2>1, <2>2, AppendProperties, LenProperties
<1>5. \A t \in Tasks : t # current => blocks'[t] = blocks[t]
  BY <1>2 DEF TaskTypes
<1>6. ASSUME NEW t \in Tasks \ misused', NEW n \in DOMAIN blocks[t]
      PROVE  blocks[t][n].instance # i
  BY <1>2, <1>6 DEF InUse
<1>7. ASSUME NEW t \in Tasks \ misused', NEW n \in DOMAIN blocks[t]
      PROVE  /\ token'[blocks[t][n].instance].task = t
             /\ token'[blocks[t][n].instance].old = blocks[t][n].before
             /\ ~token'[blocks[t][n].instance].used
             /\ \A m \in DOMAIN blocks[t] : blocks[t][m].instance = blocks[t][n].instance => m = n
  <2>1. t \in Tasks \ misused
    BY <1>2, <1>7
  <2>2. blocks[t][n].instance \in Instances /\ blocks[t][n].instance # i
    BY <1>6, <1>7, BlockTypes
  <2>3. token'[blocks[t][n].instance] = token[blocks[t][n].instance]
    BY <1>2, <2>2 DEF TaskTypes
  <2>. QED
    BY <2>1, <2>3 DEF Tokens
<1>8. ASSUME NEW t \in Tasks \ misused', NEW n \in DOMAIN blocks'[t]
      PROVE  /\ token'[blocks'[t][n].instance].task = t
             /\ token'[blocks'[t][n].instance].old = blocks'[t][n].before
             /\ ~token'[blocks'[t][n].instance].used
             /\ \A m \in DOMAIN blocks'[t] : blocks'[t][m].instance = blocks'[t][n].instance => m = n
  <2>1. CASE t # current
    BY <1>5, <1>7, <1>8, <2>1
  <2>2. CASE t = current /\ n \in 1 .. l
    <3>1. n \in DOMAIN blocks[t] /\ blocks'[t][n] = blocks[t][n]
      BY <1>4, <2>2
    <3>2. blocks'[t][l + 1].instance = i /\ blocks[t][n].instance # i
      BY <1>4, <1>6, <1>8, <2>2, <3>1
    <3>3. /\ token'[blocks[t][n].instance].task = t
          /\ token'[blocks[t][n].instance].old = blocks[t][n].before
          /\ ~token'[blocks[t][n].instance].used
          /\ \A m \in DOMAIN blocks[t] : blocks[t][m].instance = blocks[t][n].instance => m = n
      BY <1>7, <1>8, <3>1
    <3>4. ASSUME NEW m \in DOMAIN blocks'[t], blocks'[t][m].instance = blocks'[t][n].instance
          PROVE  m = n
      <4>1. m # l + 1
        BY <3>1, <3>2, <3>4
      <4>2. m \in DOMAIN blocks[t] /\ blocks'[t][m] = blocks[t][m]
        BY <1>4, <2>2, <3>4, <4>1
      <4>. QED
        BY <3>1, <3>3, <3>4, <4>2
    <3>. QED
      BY <3>1, <3>3, <3>4
  <2>3. CASE t = current /\ n = l + 1
    <3>1. blocks'[t][n] = b
      BY <1>4, <2>3
    <3>2. token'[i].task = current /\ ~token'[i].used /\ token'[i].old = raising[current]
      BY <1>2 DEF TaskTypes
    <3>3. \A m \in 1 .. l : blocks'[t][m].instance # i
      BY <1>4, <1>6, <1>8, <2>3
    <3>. QED
      BY <1>4, <2>3, <3>1, <3>2, <3>3
  <2>. QED
    BY <1>4, <1>8, <2>1, <2>2, <2>3
<1>. QED
  BY <1>8 DEF Tokens

\* Leaving a block uses up its token and no other one.
LEMMA ExitKeepsTokens ==
  ASSUME ContextInv, ExitBlock
  PROVE  Tokens'
<1>. USE DEF ContextInv, SliceInv
<1>. DEFINE l == Len(blocks[current])
            i == Last(blocks[current]).instance
<1>1. /\ current \in Tasks /\ blocks[current] # <<>> /\ misused' = misused
      /\ Reset(i) /\ blocks' = [blocks EXCEPT ![current] = Front(@)]
  BY InBody DEF ExitBlock, UserOp
<1>2. /\ l \in Nat /\ l >= 1 /\ DOMAIN blocks[current] = 1 .. l /\ blocks[current] \in Seq(Block)
      /\ i = blocks[current][l].instance /\ i \in Instances
  BY <1>1, BlockTypes
<1>3. /\ blocks'[current] = Front(blocks[current])
      /\ \A t \in Tasks : t # current => blocks'[t] = blocks[t]
  BY <1>1 DEF TaskTypes
<1>4. /\ DOMAIN blocks'[current] = 1 .. l - 1
      /\ \A n \in 1 .. l - 1 : blocks'[current][n] = blocks[current][n]
  BY <1>2, <1>3 DEF Front
<1>5. ASSUME NEW j \in Instances, j # i \/ token[i].task # current
      PROVE  token'[j] = token[j]
  BY <1>1, <1>5 DEF Reset, TaskTypes
<1>6. ASSUME NEW t \in Tasks \ misused', NEW n \in DOMAIN blocks'[t]
      PROVE  /\ n \in DOMAIN blocks[t] /\ blocks'[t][n] = blocks[t][n]
             /\ DOMAIN blocks'[t] \subseteq DOMAIN blocks[t]
             /\ \A m \in DOMAIN blocks'[t] : blocks'[t][m] = blocks[t][m]
             /\ token'[blocks[t][n].instance] = token[blocks[t][n].instance]
  <2>1. /\ n \in DOMAIN blocks[t] /\ blocks'[t][n] = blocks[t][n]
        /\ DOMAIN blocks'[t] \subseteq DOMAIN blocks[t]
        /\ \A m \in DOMAIN blocks'[t] : blocks'[t][m] = blocks[t][m]
    BY <1>2, <1>3, <1>4, <1>6
  <2>2. t \in Tasks \ misused /\ blocks[t][n].instance \in Instances
    BY <1>1, <1>6, <2>1, BlockTypes
  <2>3. CASE t = current
    <3>1. n # l /\ l \in DOMAIN blocks[t]
      BY <1>2, <1>4, <1>6, <2>3
    <3>2. blocks[t][n].instance # i
      BY <1>2, <2>1, <2>2, <2>3, <3>1 DEF Tokens
    <3>. QED
      BY <1>5, <2>1, <2>2, <3>2
  <2>4. CASE t # current
    <3>1. token[blocks[t][n].instance].task = t
      BY <2>1, <2>2 DEF Tokens
    <3>. QED
      BY <1>5, <2>1, <2>2, <2>4, <3>1
  <2>. QED
    BY <2>3, <2>4
<1>7. \A t \in Tasks \ misused' : t \in Tasks \ misused
  BY <1>1
<1>8. ASSUME NEW t \in Tasks \ misused', NEW n \in DOMAIN blocks'[t]
      PROVE  /\ token'[blocks'[t][n].instance].task = t
             /\ token'[blocks'[t][n].instance].old = blocks'[t][n].before
             /\ ~token'[blocks'[t][n].instance].used
             /\ \A m \in DOMAIN blocks'[t] : blocks'[t][m].instance = blocks'[t][n].instance => m = n
  <2>1. /\ token[blocks[t][n].instance].task = t
        /\ token[blocks[t][n].instance].old = blocks[t][n].before
        /\ ~token[blocks[t][n].instance].used
        /\ \A m \in DOMAIN blocks[t] : blocks[t][m].instance = blocks[t][n].instance => m = n
    BY <1>6, <1>7, <1>8 DEF Tokens
  <2>2. /\ blocks'[t][n] = blocks[t][n] /\ DOMAIN blocks'[t] \subseteq DOMAIN blocks[t]
        /\ \A m \in DOMAIN blocks'[t] : blocks'[t][m] = blocks[t][m]
        /\ token'[blocks[t][n].instance] = token[blocks[t][n].instance]
    BY <1>6, <1>8
  <2>. QED
    BY <2>1, <2>2
<1>. QED
  BY <1>8 DEF Tokens

LEMMA ContextInvariant == Spec => []ContextInv
<1>1. ASSUME ContextInv, Wrapper
      PROVE  ContextInv'
  <2>1. SliceInv'
    <3>1. ASSUME NEW exception \in BOOLEAN, CallbackEnds(exception) PROVE SliceInv'
      BY <1>1, <3>1, OtherStep DEF ContextInv
    <3>. QED
      BY <1>1, <3>1, RunSliceStep, EnterWrapperStep, LeaveStep DEF ContextInv, Wrapper
  <2>2. UNCHANGED <<token, blocks, misused>>
    BY <1>1 DEF Wrapper, RunSlice, EnterWrapper, Leave, CallbackEnds, taskVars
  <2>. QED
    BY <1>1, <2>1, <2>2 DEF ContextInv, Tokens
<1>2. ASSUME ContextInv, User
      PROVE  ContextInv'
  <2>1. SliceInv'
    <3>1. ASSUME \/ \E t \in Tasks : Create(t)
                 \/ \E b \in BOOLEAN : SetRaising(b)
                 \/ \E i \in Instances : EnterBlock(i)
                 \/ ExitBlock
          PROVE  SliceInv'
      BY <1>2, <3>1, OtherStep DEF ContextInv
    <3>. QED
      BY <1>2, <3>1, SetValueStep, EventsStep DEF ContextInv, User
  <2>2. CASE UNCHANGED <<token, blocks, misused>>
    BY <1>2, <2>1, <2>2 DEF ContextInv, Tokens
  <2>3. \/ UNCHANGED <<token, blocks, misused>>
        \/ \E i \in Instances : EnterBlock(i)
        \/ ExitBlock
    BY <1>2 DEF User, SetValue, BlockingIo, ResetEvents, Create, SetRaising, taskVars
  <2>. QED
    BY <1>2, <2>1, <2>2, <2>3, EnterKeepsTokens, ExitKeepsTokens DEF ContextInv
<1>3. ASSUME ContextInv, UNCHANGED vars
      PROVE  ContextInv'
  BY <1>3
  DEF ContextInv, SliceInv, TaskTypes, SliceTypes, Control, Captured, FirstTaken, OwnContext,
      FirstShown, NoKnownValueLost, Tokens, Depth, vars, taskVars, sliceVars
<1>4. ContextInv /\ [Next]_vars => ContextInv'
  BY <1>1, <1>2, <1>3 DEF Next
<1>. QED
  BY <1>4, ContextInit, PTL DEF Spec

-----------------------------------------------------------------------------
(* What it says.                                                             *)

\* The wrappers a slice is inside of are no more than its handle has, and a list
\* with operations in it has a captured context, providers that block and
\* reset_blocking_events included (slow_tasks.py, blocking_io.py).
THEOREM ContextTypeCorrect == Spec => []TypeOK
<1>1. ContextInv => TypeOK
  BY ConstantsAssumption
  DEF ContextInv, SliceInv, TaskTypes, SliceTypes, Captured, Context, Depth, TypeOK
<1>. QED
  BY <1>1, ContextInvariant, PTL

\* A report shows a value of its own task's context, one that this context held
\* during the very slice, whatever slices of other tasks, failed callbacks and
\* nested wrappers left in the thread's one variable (slow_tasks.py,
\* blocking_io.py).
THEOREM ContextIsOwn == Spec => []OwnContext
<1>1. ContextInv => OwnContext
  BY DEF ContextInv, SliceInv
<1>. QED
  BY <1>1, ContextInvariant, PTL

\* A value that is active at the first of the operations the wrapper next to the
\* callback lists is in its report, whatever the context and the list go through
\* afterwards, unless the slice began with another value or reset_blocking_events
\* was called in it (blocking_io.py, slow_tasks.py).
THEOREM FirstIoContext == Spec => []ContextOfTheFirstIo
<1>1. ContextInv => ContextOfTheFirstIo
  <2>1. FirstShown => ContextOfTheFirstIo
    BY DEF FirstShown, ContextOfTheFirstIo
  <2>. QED
    BY <2>1 DEF ContextInv, SliceInv
<1>. QED
  BY <1>1, ContextInvariant, PTL

\* The merge of the contexts before and after a slice loses no value.
THEOREM MergeKeepsValues == Spec => []NoKnownValueLost
<1>1. ContextInv => NoKnownValueLost
  BY DEF ContextInv, SliceInv
<1>. QED
  BY <1>1, ContextInvariant, PTL

\* Leaving raise_on_violations_context() gives a task back the value it had
\* before, unless an instance was entered while somebody was inside of it: for any
\* nesting, any switches of raise_on_violations in between and tasks that run or
\* are created meanwhile (state.py).
THEOREM BlocksRestore == Spec => RaiseRestored
<1>1. ContextInv /\ ExitBlock /\ current \notin misused =>
        raising'[current] = Last(blocks[current]).before
  <2>. SUFFICES ASSUME ContextInv, ExitBlock, current \notin misused
                PROVE  raising'[current] = Last(blocks[current]).before
    OBVIOUS
  <2>. DEFINE l == Len(blocks[current])
              i == Last(blocks[current]).instance
  <2>1. current \in Tasks \ misused /\ blocks[current] # <<>> /\ Reset(i)
    BY InBody DEF ContextInv, ExitBlock, UserOp
  <2>2. l \in DOMAIN blocks[current] /\ Last(blocks[current]) = blocks[current][l]
    BY <2>1, BlockTypes DEF ContextInv, SliceInv
  <2>3. /\ token[i].task = current /\ ~token[i].used
        /\ token[i].old = Last(blocks[current]).before
    BY <2>1, <2>2 DEF ContextInv, Tokens
  <2>4. raising' = [raising EXCEPT ![current] = token[i].old]
    BY <2>1, <2>3 DEF Reset
  <2>. QED
    BY <2>1, <2>3, <2>4 DEF ContextInv, SliceInv, TaskTypes
<1>2. ContextInv /\ [Next]_vars =>
        [ExitBlock /\ current \notin misused =>
           raising'[current] = Last(blocks[current]).before]_vars
  BY <1>1
<1>. QED
  BY <1>2, ContextInvariant, PTL DEF Spec, RaiseRestored
=============================================================================
