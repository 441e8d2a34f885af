----------------------- MODULE CallbackRegistryProofs ------------------------
(* The invariants of CallbackRegistry for any callbacks, any threads, and    *)
(* any number of dispatches and changes.                                     *)
EXTENDS CallbackRegistry, SequenceTheorems, FiniteSetTheorems, TLAPS

-----------------------------------------------------------------------------
(* The inductive invariants.                                                 *)

Changes == [op : {"append", "remove"}, callback : Callbacks]

Types ==
  /\ callbacks \in Seq(Callbacks)
  /\ pc \in [Threads -> {"outside", "for", "callback"}]
  /\ index \in [Threads -> Nat]
  /\ called \in [Threads -> Seq(Callbacks)]
  /\ pending \in [Threads -> Changes \cup {Nothing}]
  /\ removals \in [Threads -> BOOLEAN]
  /\ stayed \in [Threads -> SUBSET Callbacks]
  /\ \A t \in Threads : index[t] = Len(called[t])

\* What the last dispatch called is what the list begins with: appends change
\* nothing of that.
Told(t) ==
  /\ index[t] <= Len(callbacks)
  /\ \A i \in 1 .. index[t] : called[t][i] = callbacks[i]

WalkInv == Types /\ \A t \in Threads : removals[t] \/ Told(t)

\* The places of d in q, and who has looked for it and is about to append it.
PlacesOf(q, d) == {i \in DOMAIN q : q[i] = d}
Appending(d)   == {t \in Threads : pending[t] = [op |-> "append", callback |-> d]}

\* Who looks finds nothing, and then all registrars may have looked: the copies
\* there are and those to come are no more than that.
CopiesInv ==
  /\ WalkInv
  /\ \A t \in Threads : pending[t] # Nothing => t \in Registrars
  /\ \A d \in Callbacks :
       Cardinality(PlacesOf(callbacks, d)) + Cardinality(Appending(d)) <= Cardinality(Registrars)

-----------------------------------------------------------------------------
(* Lists.                                                                    *)

\* A set of numbers has a smallest element: where list.remove finds its victim.
LEMMA Smallest ==
  ASSUME NEW S \in SUBSET Nat, S # {}
  PROVE  Min(S) \in S /\ \A y \in S : Min(S) <= y
<1>. DEFINE Below == {1 .. x : x \in S}
<1>1. \A x \in S : 1 .. x \in FiniteSubsetsOf(Nat)
  BY FS_Interval DEF FiniteSubsetsOf
<1>2. PICK U \in Below : \A V \in Below : ~(<<V, U>> \in StrictSubsetOrdering(Nat))
  <2>1. IsWellFoundedOn(StrictSubsetOrdering(Nat), FiniteSubsetsOf(Nat))
    BY FS_StrictSubsetOrderingWellFounded
  <2>2. Below \subseteq FiniteSubsetsOf(Nat) /\ Below # {}
    BY <1>1
  <2>. HIDE DEF Below
  <2>. QED
    BY <2>1, <2>2, WFMin
<1>3. PICK x \in S : U = 1 .. x
  BY <1>2
<1>4. ASSUME NEW y \in S, y < x
      PROVE  FALSE
  <2>1. 1 .. y \subseteq 1 .. x /\ x \in 1 .. x /\ x \notin 1 .. y
    BY <1>4
  <2>2. 1 .. y # 1 .. x
    BY <2>1
  <2>3. 1 .. y \in Below
    OBVIOUS
  <2>4. 1 .. y \in SUBSET Nat /\ 1 .. x \in SUBSET Nat
    OBVIOUS
  <2>. QED
    BY <1>2, <1>3, <2>1, <2>2, <2>3, <2>4 DEF StrictSubsetOrdering
<1>5. \A y \in S : x <= y
  BY <1>4
<1>. QED
  BY <1>5 DEF Min

LEMMA CopiesFinite ==
  ASSUME NEW S, NEW s \in Seq(S), NEW d
  PROVE  IsFiniteSet(PlacesOf(s, d)) /\ Cardinality(PlacesOf(s, d)) \in Nat
<1>1. PlacesOf(s, d) \in SUBSET (1 .. Len(s)) /\ Len(s) \in Int
  BY LenProperties DEF PlacesOf
<1>2. IsFiniteSet(1 .. Len(s))
  BY <1>1, FS_Interval
<1>. QED
  BY <1>1, <1>2, FS_Subset, FS_CardinalityType

\* list.remove takes one element out,
LEMMA RemovalShape ==
  ASSUME NEW S, NEW s \in Seq(S), NEW e, Contains(s, e)
  PROVE  \E i \in 1 .. Len(s) : s[i] = e /\ RemoveFirst(s, e) = RemoveAt(s, i)
<1>. DEFINE I == {i \in 1 .. Len(s) : s[i] = e}
<1>1. I # {} /\ I \in SUBSET Nat
  BY LenProperties DEF Contains
<1>2. Min(I) \in I
  BY <1>1, Smallest
<1>3. SelectInSeq(s, LAMBDA v : v = e) = Min(I)
  BY <1>1 DEF SelectInSeq
<1>4. RemoveFirst(s, e) = RemoveAt(s, Min(I))
  BY <1>3 DEF RemoveFirst, Contains
<1>. QED
  BY <1>2, <1>4

\* so that what is left was there before, and as often at most.
LEMMA Removal ==
  ASSUME NEW S, NEW s \in Seq(S), NEW e
  PROVE  /\ RemoveFirst(s, e) \in Seq(S)
         /\ \A d : Contains(RemoveFirst(s, e), d) => Contains(s, d)
         /\ \A d : Cardinality(PlacesOf(RemoveFirst(s, e), d)) <= Cardinality(PlacesOf(s, d))
<1>1. CASE ~Contains(s, e)
  <2>1. RemoveFirst(s, e) = s
    BY <1>1 DEF RemoveFirst, Contains
  <2>2. \A d : Cardinality(PlacesOf(s, d)) \in Nat
    BY CopiesFinite
  <2>. QED
    BY <2>1, <2>2
<1>2. CASE Contains(s, e)
  <2>1. PICK k \in 1 .. Len(s) : RemoveFirst(s, e) = RemoveAt(s, k)
    BY <1>2, RemovalShape
  <2>. DEFINE front == SubSeq(s, 1, k - 1)
              rear  == SubSeq(s, k + 1, Len(s))
              r     == RemoveFirst(s, e)
  <2>2. Len(s) \in Nat /\ s \in [1 .. Len(s) -> S] /\ DOMAIN s = 1 .. Len(s)
    BY LenProperties
  <2>3. /\ front \in Seq(S) /\ Len(front) = k - 1
        /\ \A i \in 1 .. k - 1 : front[i] = s[i]
    <3>1. \A i \in 1 .. k - 1 : s[i] \in S
      BY <2>2
    <3>2. /\ front \in Seq(S) /\ Len(front) = IF 1 <= k - 1 THEN k - 1 - 1 + 1 ELSE 0
          /\ \A i \in 1 .. k - 1 - 1 + 1 : front[i] = s[1 + i - 1]
      BY <2>2, <3>1, SubSeqProperties
    <3>. QED
      BY <2>2, <3>2
  <2>4. /\ rear \in Seq(S) /\ Len(rear) = Len(s) - k
        /\ \A i \in 1 .. Len(s) - k : rear[i] = s[k + i]
    <3>1. \A i \in k + 1 .. Len(s) : s[i] \in S
      BY <2>2
    <3>2. /\ rear \in Seq(S)
          /\ Len(rear) = IF k + 1 <= Len(s) THEN Len(s) - (k + 1) + 1 ELSE 0
          /\ \A i \in 1 .. Len(s) - (k + 1) + 1 : rear[i] = s[k + 1 + i - 1]
      BY <2>2, <3>1, SubSeqProperties
    <3>. HIDE DEF rear
    <3>3. Len(rear) = Len(s) - k
      <4>1. \A n, l \in Nat : l \in 1 .. n =>
              (IF l + 1 <= n THEN n - (l + 1) + 1 ELSE 0) = n - l
        OBVIOUS
      <4>2. k \in Nat
        BY <2>2
      <4>. QED
        BY <2>2, <3>2, <4>1, <4>2
    <3>4. ASSUME NEW i \in 1 .. Len(s) - k PROVE rear[i] = s[k + i]
      <4>1. i \in 1 .. Len(s) - (k + 1) + 1 /\ k + 1 + i - 1 = k + i
        BY <2>2
      <4>. QED
        BY <3>2, <4>1
    <3>. QED
      BY <3>2, <3>3, <3>4
  <2>5. r = front \o rear
    BY <2>1 DEF RemoveAt
  <2>. HIDE DEF front, rear, r
  <2>6. /\ r \in Seq(S) /\ Len(r) = Len(s) - 1
        /\ \A i \in 1 .. Len(s) - 1 : r[i] = IF i < k THEN s[i] ELSE s[i + 1]
    <3>1. /\ front \o rear \in Seq(S) /\ Len(front \o rear) = Len(front) + Len(rear)
          /\ \A i \in 1 .. Len(front) + Len(rear) :
               (front \o rear)[i] = IF i <= Len(front) THEN front[i] ELSE rear[i - Len(front)]
      BY <2>3, <2>4, ConcatProperties
    <3>2. Len(front) + Len(rear) = Len(s) - 1
      BY <2>2, <2>3, <2>4
    <3>3. ASSUME NEW i \in 1 .. Len(s) - 1 PROVE r[i] = IF i < k THEN s[i] ELSE s[i + 1]
      <4>1. r[i] = IF i <= Len(front) THEN front[i] ELSE rear[i - Len(front)]
        BY <2>5, <3>1, <3>2, <3>3
      <4>2. CASE i < k
        <5>1. i \in 1 .. k - 1 /\ i <= Len(front)
          BY <2>3, <4>2
        <5>. QED
          BY <2>3, <4>1, <4>2, <5>1
      <4>3. CASE ~(i < k)
        <5>1. /\ ~(i <= Len(front)) /\ i - Len(front) \in 1 .. Len(s) - k
              /\ k + (i - Len(front)) = i + 1
          BY <2>2, <2>3, <4>3
        <5>. QED
          BY <2>4, <4>1, <4>3, <5>1
      <4>. QED
        BY <4>2, <4>3
    <3>. QED
      BY <2>5, <3>1, <3>2, <3>3
  <2>7. DOMAIN r = 1 .. Len(s) - 1
    BY <2>6, LenProperties
  <2>8. \A d : Contains(r, d) => Contains(s, d)
    BY <2>2, <2>6 DEF Contains
  <2>9. ASSUME NEW d
        PROVE  Cardinality(PlacesOf(r, d)) <= Cardinality(PlacesOf(s, d))
    <3>. DEFINE R == PlacesOf(r, d)
                place == [i \in R |-> IF i < k THEN i ELSE i + 1]
    <3>1. \A i \in R : i \in 1 .. Len(s) - 1 /\ r[i] = d
      BY <2>7 DEF PlacesOf
    <3>2. \A i \in R : place[i] \in PlacesOf(s, d)
      BY <2>2, <2>6, <3>1 DEF PlacesOf
    <3>3. \A i, j \in R : place[i] = place[j] => i = j
      BY <2>2, <3>1
    <3>4. place \in Injection(R, PlacesOf(s, d))
      <4>1. place \in [R -> PlacesOf(s, d)]
        BY <3>2
      <4>. HIDE DEF place, R
      <4>. QED
        BY <3>3, <4>1 DEF Injection, IsInjective
    <3>. HIDE DEF place
    <3>. QED
      BY <3>4, FS_Injection, CopiesFinite
  <2>. QED
    BY <2>6, <2>8, <2>9 DEF r
<1>. QED
  BY <1>1, <1>2

-----------------------------------------------------------------------------
(* Steps.                                                                    *)

LEMMA WalkInit == Init => WalkInv
  BY ConstantsAssumption DEF Init, WalkInv, Types, Told, Nothing

\* One step of a thread: a walk reads the list, the changes move under it.
LEMMA WalkStep ==
  ASSUME WalkInv, NEW t \in Threads, Thread(t)
  PROVE  WalkInv'
<1>. USE DEF WalkInv, Types, Told, walk, seen, bounds
<1>0. Len(callbacks) \in Nat /\ \A u \in Threads : Len(called[u]) \in Nat
  OBVIOUS
<1>1. CASE BeginDispatch(t)
  <2>1. ToSet(callbacks) \in SUBSET Callbacks
    BY LenProperties DEF ToSet
  <2>2. /\ called' = [called EXCEPT ![t] = <<>>] /\ index' = [index EXCEPT ![t] = 0]
        /\ stayed' = [stayed EXCEPT ![t] = ToSet(callbacks)]
        /\ pc' = [pc EXCEPT ![t] = "for"] /\ removals' = [removals EXCEPT ![t] = FALSE]
        /\ UNCHANGED <<callbacks, pending>>
    BY <1>1 DEF BeginDispatch, FirstIndex
  <2>3. Types'
    BY <2>1, <2>2
  <2>4. \A u \in Threads : removals'[u] \/ Told(u)'
    BY <2>2, <1>0
  <2>. QED
    BY <2>3, <2>4
<1>2. CASE CallNext(t)
  <2>1. index[t] + 1 \in 1 .. Len(callbacks) /\ callbacks[index[t] + 1] \in Callbacks
    BY <1>2, <1>0 DEF CallNext
  <2>2. /\ index' = [index EXCEPT ![t] = @ + 1] /\ pc' = [pc EXCEPT ![t] = "callback"]
        /\ called' = [called EXCEPT ![t] = Append(@, callbacks[index[t] + 1])]
        /\ UNCHANGED <<callbacks, pending, removals, stayed>>
    BY <1>2 DEF CallNext
  <2>3. Types'
    BY <2>1, <2>2
  <2>4. ASSUME NEW u \in Threads
        PROVE  removals'[u] \/ Told(u)'
    BY <1>0, <2>1, <2>2
  <2>. QED
    BY <2>3, <2>4
<1>3. CASE CallbackEnds(t)
  BY <1>3 DEF CallbackEnds
<1>4. CASE EndDispatch(t)
  BY <1>4 DEF EndDispatch
<1>5. ASSUME NEW c \in Callbacks, Register(t, c) \/ Unregister(t, c)
      PROVE  WalkInv'
  <2>1. PICK op \in {"append", "remove"} : Decide(t, op, c)
    BY <1>5 DEF Register, Unregister
  <2>2. [op |-> op, callback |-> c] \in Changes
    BY DEF Changes
  <2>. QED
    BY <2>1, <2>2 DEF Decide
<1>6. CASE DoAppend(t)
  <2>1. pending[t].callback \in Callbacks
    BY <1>6 DEF DoAppend, Changes, Nothing
  <2>. QED
    BY <1>0, <1>6, <2>1 DEF DoAppend, With, Done
<1>7. CASE DoRemove(t)
  <2>1. callbacks' \in Seq(Callbacks)
    BY <1>7, Removal DEF DoRemove
  <2>2. /\ removals' = [u \in Threads |-> TRUE]
        /\ stayed' = [u \in Threads |-> stayed[u] \ {pending[t].callback}]
        /\ pending' = [pending EXCEPT ![t] = Nothing]
        /\ UNCHANGED <<index, called, pc>>
    BY <1>7 DEF DoRemove, Done
  <2>. QED
    BY <2>1, <2>2
<1>8. CASE Clear(t)
  BY <1>8 DEF Clear
<1>. QED
  BY <1>1, <1>2, <1>3, <1>4, <1>5, <1>6, <1>7, <1>8 DEF Thread

LEMMA AppendingFinite ==
  ASSUME CopiesInv, IsFiniteSet(Registrars), NEW d
  PROVE  /\ Appending(d) \in SUBSET Registrars
         /\ IsFiniteSet(Appending(d)) /\ Cardinality(Appending(d)) \in Nat
         /\ Cardinality(Appending(d)) <= Cardinality(Registrars)
<1>1. Appending(d) \in SUBSET Registrars
  BY DEF CopiesInv, Appending, Nothing
<1>. QED
  BY <1>1, FS_Subset, FS_CardinalityType

LEMMA CopiesStep ==
  ASSUME CopiesInv, IsFiniteSet(Registrars), NEW t \in Threads, Thread(t)
  PROVE  CopiesInv'
<1>1. WalkInv'
  BY WalkStep DEF CopiesInv
<1>. DEFINE Copies(d) == PlacesOf(callbacks, d)
<1>2. /\ callbacks \in Seq(Callbacks) /\ pending \in [Threads -> Changes \cup {Nothing}]
      /\ \A u \in Threads : pending[u] # Nothing => u \in Registrars
      /\ \A d \in Callbacks :
           Cardinality(Copies(d)) + Cardinality(Appending(d)) <= Cardinality(Registrars)
  BY DEF CopiesInv, WalkInv, Types
<1>3. /\ Cardinality(Registrars) \in Nat
      /\ \A d : Cardinality(Copies(d)) \in Nat /\ Cardinality(Appending(d)) \in Nat
  BY <1>2, CopiesFinite, AppendingFinite, FS_CardinalityType
<1>. SUFFICES /\ \A u \in Threads : pending'[u] # Nothing => u \in Registrars
              /\ \A d \in Callbacks :
                   Cardinality(Copies(d)') + Cardinality(Appending(d)') <= Cardinality(Registrars)
  BY <1>1 DEF CopiesInv
<1>4. CASE BeginDispatch(t) \/ CallNext(t) \/ CallbackEnds(t) \/ EndDispatch(t)
  <2>1. UNCHANGED <<callbacks, pending>>
    BY <1>4 DEF BeginDispatch, CallNext, CallbackEnds, EndDispatch, walk, seen, bounds
  <2>. QED
    BY <1>2, <2>1 DEF Appending
<1>5. ASSUME NEW c \in Callbacks, Register(t, c)
      PROVE  /\ \A u \in Threads : pending'[u] # Nothing => u \in Registrars
             /\ \A d \in Callbacks :
                  Cardinality(Copies(d)') + Cardinality(Appending(d)') <= Cardinality(Registrars)
  <2>1. /\ t \in Registrars /\ pending[t] = Nothing /\ callbacks' = callbacks
        /\ pending' = [pending EXCEPT ![t] = [op |-> "append", callback |-> c]]
        /\ ~Contains(callbacks, c)
    BY <1>5 DEF Register, Decide, MayChange
  <2>2. \A u \in Threads : pending'[u] # Nothing => u \in Registrars
    BY <1>2, <2>1
  <2>3. Cardinality(Copies(c)') = 0
    <3>1. PlacesOf(callbacks, c) = {}
      BY <1>2, <2>1, LenProperties DEF PlacesOf, Contains
    <3>. QED
      BY <2>1, <3>1, FS_EmptySet
  <2>4. Appending(c)' \in SUBSET Registrars
    BY <2>2 DEF Appending, Nothing
  <2>5. Cardinality(Appending(c)') \in Nat /\ Cardinality(Appending(c)') <= Cardinality(Registrars)
    BY <2>4, FS_Subset, FS_CardinalityType
  <2>6. \A d \in Callbacks : d # c => Appending(d)' = Appending(d) /\ Copies(d)' = Copies(d)
    BY <1>2, <2>1 DEF Appending, Nothing
  <2>7. ASSUME NEW d \in Callbacks
        PROVE  Cardinality(Copies(d)') + Cardinality(Appending(d)') <= Cardinality(Registrars)
    <3>1. CASE d = c
      BY <1>3, <2>3, <2>5, <3>1
    <3>2. CASE d # c
      <4>1. Cardinality(Copies(d)') = Cardinality(Copies(d))
        BY <2>6, <3>2, Zenon
      <4>2. Cardinality(Appending(d)') = Cardinality(Appending(d))
        BY <2>6, <3>2, Zenon
      <4>. QED
        BY <1>2, <4>1, <4>2, Zenon
    <3>. QED
      BY <3>1, <3>2
  <2>. QED
    BY <2>2, <2>7
<1>6. ASSUME NEW c \in Callbacks, Unregister(t, c)
      PROVE  /\ \A u \in Threads : pending'[u] # Nothing => u \in Registrars
             /\ \A d \in Callbacks :
                  Cardinality(Copies(d)') + Cardinality(Appending(d)') <= Cardinality(Registrars)
  <2>1. /\ t \in Registrars /\ pending[t] = Nothing /\ callbacks' = callbacks
        /\ pending' = [pending EXCEPT ![t] = [op |-> "remove", callback |-> c]]
    BY <1>6 DEF Unregister, Decide, MayChange
  <2>2. \A d : Appending(d)' = Appending(d) /\ Copies(d)' = Copies(d)
    BY <1>2, <2>1 DEF Appending, Nothing
  <2>. QED
    BY <1>2, <2>1, <2>2
<1>7. CASE DoAppend(t)
  <2>1. PICK c \in Callbacks :
          /\ pending[t] = [op |-> "append", callback |-> c]
          /\ callbacks' = Append(callbacks, c)
          /\ pending' = [pending EXCEPT ![t] = Nothing]
    BY <1>2, <1>7 DEF DoAppend, With, Done, Changes, Nothing
  <2>2. \A u \in Threads : pending'[u] # Nothing => u \in Registrars
    BY <1>2, <2>1
  <2>3. \A d : Copies(d)' = IF d = c THEN Copies(d) \cup {Len(callbacks) + 1} ELSE Copies(d)
    <3>1. /\ Len(callbacks) \in Nat /\ DOMAIN callbacks = 1 .. Len(callbacks)
          /\ DOMAIN callbacks' = 1 .. Len(callbacks) + 1
          /\ \A i \in 1 .. Len(callbacks) : callbacks'[i] = callbacks[i]
          /\ callbacks'[Len(callbacks) + 1] = c
      BY <1>2, <2>1, AppendProperties, LenProperties
    <3>. QED
      BY <3>1 DEF PlacesOf
  <2>4. \A d : Appending(d)' = IF d = c THEN Appending(d) \ {t} ELSE Appending(d)
    BY <1>2, <2>1 DEF Appending, Nothing
  <2>5. Cardinality(Copies(c)') <= Cardinality(Copies(c)) + 1 /\ Cardinality(Copies(c)') \in Nat
    <3>1. IsFiniteSet(Copies(c))
      BY <1>2, CopiesFinite
    <3>. HIDE DEF Copies
    <3>2. \/ Cardinality(Copies(c) \cup {Len(callbacks) + 1}) = Cardinality(Copies(c))
          \/ Cardinality(Copies(c) \cup {Len(callbacks) + 1}) = Cardinality(Copies(c)) + 1
      BY <3>1, FS_AddElement
    <3>3. Copies(c)' = Copies(c) \cup {Len(callbacks) + 1}
      BY <2>3, Zenon
    <3>4. \/ Cardinality(Copies(c)') = Cardinality(Copies(c))
          \/ Cardinality(Copies(c)') = Cardinality(Copies(c)) + 1
      BY <3>2, <3>3, Zenon
    <3>5. Cardinality(Copies(c)) \in Nat
      BY <1>3
    <3>6. \A m, n : n \in Nat /\ (m = n \/ m = n + 1) => m <= n + 1 /\ m \in Nat
      OBVIOUS
    <3>. QED
      BY <3>4, <3>5, <3>6, Zenon
  <2>6. Cardinality(Appending(c)') = Cardinality(Appending(c)) - 1
    <3>1. t \in Appending(c)
      BY <2>1 DEF Appending
    <3>2. Appending(c)' = Appending(c) \ {t}
      BY <2>4, Zenon
    <3>3. IsFiniteSet(Appending(c))
      BY AppendingFinite
    <3>4. Cardinality(Appending(c) \ {t}) = Cardinality(Appending(c)) - 1
      BY <3>1, <3>3, FS_RemoveElement
    <3>. QED
      BY <3>2, <3>4, Zenon
  <2>. HIDE DEF Copies
  <2>7. ASSUME NEW d \in Callbacks
        PROVE  Cardinality(Copies(d)') + Cardinality(Appending(d)') <= Cardinality(Registrars)
    <3>1. CASE d = c
      <4>1. Cardinality(Copies(c)) + Cardinality(Appending(c)) <= Cardinality(Registrars)
        BY <1>2, <2>1
      <4>2. \A k, l, m, n, r \in Int : k <= m + 1 /\ l = n - 1 /\ m + n <= r => k + l <= r
        OBVIOUS
      <4>3. /\ Cardinality(Copies(c)) \in Int /\ Cardinality(Appending(c)) \in Int
            /\ Cardinality(Registrars) \in Int /\ Cardinality(Copies(c)') \in Int
            /\ Cardinality(Appending(c)') \in Int
        BY <1>3, <2>5, <2>6
      <4>4. Cardinality(Copies(c)') + Cardinality(Appending(c)') <= Cardinality(Registrars)
        BY <2>5, <2>6, <4>1, <4>2, <4>3, Zenon
      <4>. QED
        BY <3>1, <4>4, Zenon
    <3>2. CASE d # c
      <4>1. Copies(d)' = Copies(d) /\ Appending(d)' = Appending(d)
        BY <2>3, <2>4, <3>2, Zenon
      <4>2. Cardinality(Copies(d)') = Cardinality(Copies(d))
        BY <4>1, Zenon
      <4>3. Cardinality(Appending(d)') = Cardinality(Appending(d))
        BY <4>1, Zenon
      <4>. QED
        BY <1>2, <4>2, <4>3, Zenon
    <3>. QED
      BY <3>1, <3>2
  <2>. QED
    BY <2>2, <2>7
<1>8. CASE DoRemove(t)
  <2>1. /\ pending[t].op = "remove"
        /\ callbacks' = RemoveFirst(callbacks, pending[t].callback)
        /\ pending' = [pending EXCEPT ![t] = Nothing]
    BY <1>8 DEF DoRemove, Done
  <2>2. \A d : Appending(d)' = Appending(d)
    BY <1>2, <2>1 DEF Appending, Nothing
  <2>3. \A d : Cardinality(Copies(d)') <= Cardinality(Copies(d)) /\ Cardinality(Copies(d)') \in Nat
    <3>1. callbacks' \in Seq(Callbacks)
      BY <1>1 DEF WalkInv, Types
    <3>2. \A d : Cardinality(Copies(d)') \in Nat
      BY <3>1, CopiesFinite
    <3>. QED
      BY <1>2, <2>1, <3>2, Removal
  <2>. HIDE DEF Copies
  <2>. QED
    BY <1>2, <1>3, <2>1, <2>2, <2>3
<1>9. CASE Clear(t)
  <2>1. callbacks' = <<>> /\ pending' = pending
    BY <1>9 DEF Clear
  <2>2. \A d : Copies(d)' = {} /\ Appending(d)' = Appending(d)
    BY <2>1 DEF PlacesOf, Appending
  <2>3. \A d : Cardinality(Copies(d)') = 0 /\ Cardinality(Appending(d)') <= Cardinality(Registrars)
    BY <2>2, FS_EmptySet, AppendingFinite
  <2>. HIDE DEF Copies
  <2>. QED
    BY <1>2, <1>3, <2>1, <2>2, <2>3
<1>. QED
  BY <1>4, <1>5, <1>6, <1>7, <1>8, <1>9 DEF Thread

LEMMA WalkInvariant == Spec => []WalkInv
<1>1. WalkInv /\ UNCHANGED vars => WalkInv'
  BY DEF WalkInv, Types, Told, vars, walk, seen, bounds
<1>2. WalkInv /\ [Next]_vars => WalkInv'
  BY <1>1, WalkStep DEF Next
<1>. QED
  BY <1>2, WalkInit, PTL DEF Spec

-----------------------------------------------------------------------------
(* What they say.                                                            *)

\* A walk's index never runs ahead of what it called (callbacks.py:80): a walk
\* visits positions in order, whatever happens to the list.
THEOREM RegistryTypeCorrect == Spec => []TypeOK
<1>1. WalkInv => TypeOK
  BY DEF WalkInv, Types, TypeOK
<1>. QED
  BY <1>1, WalkInvariant, PTL

\* _invoke_slow_task_callbacks calls every callback of the list, once and in
\* order, if nothing is removed meanwhile: with any number of threads that
\* dispatch and register at once, from callbacks as well (callbacks.py:80-84).
THEOREM DispatchIsComplete == Spec => []CompleteWithoutRemoval
<1>1. WalkInv => CompleteWithoutRemoval
  <2>. SUFFICES ASSUME WalkInv, NEW t \in Threads, index[t] >= Len(callbacks), ~removals[t]
                PROVE  called[t] = callbacks
    BY DEF CompleteWithoutRemoval
  <2>1. called[t] \in Seq(Callbacks) /\ callbacks \in Seq(Callbacks)
    BY DEF WalkInv, Types
  <2>2. Len(called[t]) = Len(callbacks) /\ \A i \in 1 .. Len(called[t]) : called[t][i] = callbacks[i]
    BY LenProperties DEF WalkInv, Types, Told
  <2>. QED
    BY <2>1, <2>2, SeqEqual
<1>. QED
  BY <1>1, WalkInvariant, PTL

\* register_slow_task_callback looks before it appends (callbacks.py:17-18):
\* between look and append the other threads may do the same, so a callback can
\* be there once per registrar, and no history of registrations,
\* removals and clears puts it there more often.
THEOREM CopiesAreBounded ==
  ASSUME IsFiniteSet(Registrars)
  PROVE  Spec => []CopiesBounded
<1>1. CopiesInv /\ [Next]_vars => CopiesInv'
  <2>1. ASSUME CopiesInv, UNCHANGED vars
        PROVE  CopiesInv'
    BY <2>1
    DEF CopiesInv, WalkInv, Types, Told, Appending, vars, walk, seen, bounds
  <2>. QED
    BY <2>1, CopiesStep DEF Next
<1>2. Init => CopiesInv
  <2>. SUFFICES ASSUME Init PROVE CopiesInv
    OBVIOUS
  <2>1. callbacks = <<>> /\ \A t \in Threads : pending[t] = Nothing
    BY DEF Init
  <2>2. Cardinality({}) = 0 /\ Cardinality(Registrars) \in Nat
    BY FS_EmptySet, FS_CardinalityType
  <2>3. ASSUME NEW d \in Callbacks
        PROVE  Cardinality(PlacesOf(callbacks, d)) + Cardinality(Appending(d))
                 <= Cardinality(Registrars)
    <3>1. PlacesOf(callbacks, d) = {}
      BY <2>1 DEF PlacesOf
    <3>2. Appending(d) = {}
      BY <2>1 DEF Appending, Nothing
    <3>. QED
      BY <2>2, <3>1, <3>2
  <2>. QED
    BY <2>1, <2>3, WalkInit DEF CopiesInv
<1>3. CopiesInv => CopiesBounded
  <2>. SUFFICES ASSUME CopiesInv, NEW c \in Callbacks
                PROVE  Cardinality(PlacesOf(callbacks, c)) <= Cardinality(Registrars)
    BY DEF CopiesBounded, PlacesOf
  <2>1. callbacks \in Seq(Callbacks)
    BY DEF CopiesInv, WalkInv, Types
  <2>2. /\ Cardinality(PlacesOf(callbacks, c)) \in Nat /\ Cardinality(Appending(c)) \in Nat
        /\ Cardinality(Registrars) \in Nat
    BY <2>1, CopiesFinite, AppendingFinite, FS_CardinalityType
  <2>. QED
    BY <2>2 DEF CopiesInv
<1>. QED
  BY <1>1, <1>2, <1>3, PTL DEF Spec
=============================================================================
