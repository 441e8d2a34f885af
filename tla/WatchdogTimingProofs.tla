------------------------ MODULE WatchdogTimingProofs -------------------------
(* What WatchdogTiming says of the number, the promptness and the order of   *)
(* samples, for every configuration, every lateness of sleeps and slices of  *)
(* any length.                                                               *)
EXTENDS WatchdogTiming, SequenceTheorems, FiniteSetTheorems, TLAPS

-----------------------------------------------------------------------------
(* The inductive invariant.                                                  *)

Settings ==
  /\ interval \in Intervals /\ armOverride \in Arms /\ idleOverride \in Idles
  /\ threshold \in Thresholds

Clocks ==
  /\ wait \in Int /\ wait >= -Late
  /\ age \in 0 .. MaxAge /\ inF \in 0 .. age
  /\ function \in {"f", "g"}
  /\ samples \in Seq({"f", "g"}) /\ Len(samples) <= MaxSamples
  /\ ~active => age = 0 /\ samples = <<>>

\* A sleep is one that some configuration has,
SomeSleep == \E s \in {MinSleep, IdleCap} \cup Intervals \cup (Idles \ {Derived}) : wait <= s

\* and the present one has, unless it changed during the sleep.
Chosen == ~stale => wait <= LongestSleep

\* The n+1st sample is on its way: the sleep ends before it is due.
Prompt ==
  active /\ steady =>
    /\ samples # <<>> => age >= Arm
    /\ Len(samples) < MaxSamples =>
         age + wait <= FirstSampleBy - Late + Len(samples) * (Every + Late)

\* The n samples that are there took an interval each, and so will the next.
Measured ==
  active /\ steady /\ samples # <<>> =>
    /\ Arm + Len(samples) * Every <= age + wait
    /\ Arm + (Len(samples) - 1) * Every <= age

TimingInv ==
  /\ Settings
  /\ Clocks
  /\ SomeSleep
  /\ Chosen
  /\ Prompt
  /\ Measured

-----------------------------------------------------------------------------
(* Sleeps.                                                                   *)

LEMMA Slack ==
  \A w, longest, first, late \in Int :
    first >= longest + late /\ w <= longest => 0 + w <= first - late + 0
  OBVIOUS

LEMMA SettingTypes ==
  ASSUME Settings
  PROVE  /\ interval \in Nat /\ threshold \in Nat
         /\ armOverride \in Nat \cup {Derived} /\ idleOverride \in Nat \cup {Derived}
         /\ Derived \notin Nat
         /\ IdleCap \in Nat /\ MaxSamples \in Nat /\ Late \in Nat /\ MaxAge \in Nat
  BY ConstantsAssumption DEF Settings

\* The arming age and the sleeps of a configuration.
LEMMA Sleeps ==
  ASSUME Settings
  PROVE  /\ Arm \in Nat /\ Idle \in Nat
         /\ Every \in Nat /\ Every >= 1 /\ Every >= interval
         /\ LongestSleep \in Nat
         /\ LongestSleep >= Every /\ LongestSleep >= Sleep(Idle)
         /\ FirstSampleBy \in Int
         /\ FirstSampleBy >= LongestSleep + Late /\ FirstSampleBy >= Arm - 1 + Every + Late
         /\ Sleep(interval) = Every
<1>. USE SettingTypes
<1>1. Arm \in Nat
  <2>1. threshold \div 2 \in Nat
    BY SMT
  <2>. QED
    BY <2>1 DEF Arm, AtLeast, MinArm
<1>2. Idle \in Nat
  BY <1>1 DEF Idle, AtMost, AtLeast
<1>3. Every \in Nat /\ Every >= 1 /\ Every >= interval /\ Sleep(interval) = Every
  BY DEF Every, Sleep, AtLeast, MinSleep
<1>4. LongestSleep \in Nat /\ LongestSleep >= Every /\ LongestSleep >= Sleep(Idle)
  BY <1>2, <1>3 DEF LongestSleep, Sleep, AtLeast, MinSleep
<1>5. /\ FirstSampleBy \in Int
      /\ FirstSampleBy >= LongestSleep + Late /\ FirstSampleBy >= Arm - 1 + Every + Late
  BY <1>1, <1>3, <1>4 DEF FirstSampleBy, AtLeast
<1>. QED
  BY <1>1, <1>2, <1>3, <1>4, <1>5

\* Nothing of it changes without detect_slow_tasks.
LEMMA SleepsStay ==
  ASSUME UNCHANGED <<sampler, threshold>>
  PROVE  /\ Arm' = Arm /\ Idle' = Idle /\ Every' = Every
         /\ LongestSleep' = LongestSleep /\ FirstSampleBy' = FirstSampleBy
         /\ (Settings => Settings')
  BY DEF sampler, Arm, Idle, Every, LongestSleep, FirstSampleBy, Settings

\* Which sleep a round chooses.
LEMMA SleepChosen ==
  ASSUME Settings
  PROVE  /\ Sleep(NextSleep) \in Nat /\ Sleep(NextSleep) <= LongestSleep
         /\ active => Sleep(NextSleep) = Every
         /\ \A w \in {Sleep(NextSleep), Sleep(Idle)} :
              \E s \in {MinSleep, IdleCap} \cup Intervals \cup (Idles \ {Derived}) : w <= s
<1>. USE SettingTypes
<1>1. \A x \in Nat : Sleep(x) = MinSleep \/ Sleep(x) = x
  BY DEF Sleep, AtLeast, MinSleep
<1>2. Idle \in Nat /\ (Idle <= IdleCap \/ (Idle = idleOverride /\ Idle \in Idles \ {Derived}))
  <2>1. CASE idleOverride = Derived
    BY <2>1, Sleeps DEF Idle, AtMost
  <2>2. CASE idleOverride # Derived
    BY <2>2, Sleeps DEF Idle, Settings
  <2>. QED
    BY <2>1, <2>2
<1>3. interval \in Intervals
  BY DEF Settings
<1>4. NextSleep = interval \/ NextSleep = Idle
  BY DEF NextSleep
<1>5. \A x \in {interval, Idle} : Sleep(x) \in Nat /\ Sleep(x) <= LongestSleep
  BY <1>2, Sleeps DEF Sleep, AtLeast, MinSleep
<1>6. active => Sleep(NextSleep) = Every
  BY Sleeps DEF NextSleep
<1>7. \A x \in {interval, Idle} :
        \E s \in {MinSleep, IdleCap} \cup Intervals \cup (Idles \ {Derived}) : Sleep(x) <= s
  BY <1>1, <1>2, <1>3 DEF MinSleep
<1>. QED
  BY <1>4, <1>5, <1>6, <1>7

\* Products of the two proofs below.
LEMMA NextMultiple ==
  ASSUME NEW n \in Nat, NEW d \in Nat
  PROVE  n * d \in Nat /\ (n + 1) * d = n * d + d /\ (n - 1) * d = n * d - d
  OBVIOUS

-----------------------------------------------------------------------------
(* Steps.                                                                    *)

LEMMA TimingInit == Init => TimingInv
<1>. SUFFICES ASSUME Init PROVE TimingInv
  OBVIOUS
<1>1. Settings
  BY DEF Init, Settings
<1>2. wait = Sleep(Idle) /\ Sleep(Idle) \in Nat
  BY <1>1, Sleeps DEF Init, Sleep, AtLeast, MinSleep
<1>3. Clocks
  BY <1>1, <1>2, SettingTypes DEF Init, Clocks
<1>4. SomeSleep /\ Chosen
  BY <1>1, <1>2, SleepChosen, Sleeps DEF SomeSleep, Chosen
<1>5. Prompt /\ Measured
  BY DEF Init, Prompt, Measured
<1>. QED
  BY <1>1, <1>3, <1>4, <1>5 DEF TimingInv

\* After a change of the threshold, nothing is said of the slice that runs.
LEMMA ChangeStep ==
  ASSUME TimingInv, NEW ms \in Thresholds, DetectSlowTasks(ms)
  PROVE  TimingInv'
<1>1. ~steady' /\ stale'
  BY DEF DetectSlowTasks
<1>2. Settings' /\ Clocks' /\ SomeSleep'
  BY DEF TimingInv, DetectSlowTasks, sampler, Settings, Clocks, SomeSleep
<1>3. Chosen' /\ Prompt' /\ Measured'
  BY <1>1 DEF Chosen, Prompt, Measured
<1>. QED
  BY <1>2, <1>3 DEF TimingInv

\* A slice starts, calls another function, or ends.
LEMMA SliceStep ==
  ASSUME TimingInv, StartSlice \/ CallG \/ EndSlice
  PROVE  TimingInv'
<1>. USE DEF TimingInv
<1>1. UNCHANGED <<sampler, threshold, wait, stale>>
  BY DEF StartSlice, CallG, EndSlice
<1>2. Settings' /\ Clocks'
  <2>1. Settings'
    BY <1>1, SleepsStay
  <2>2. CASE StartSlice \/ CallG
    BY <2>1, <2>2 DEF StartSlice, CallG, Clocks
  <2>3. CASE EndSlice
    <3>1. /\ wait' = wait /\ age' = 0 /\ inF' = 0 /\ function' = "f" /\ samples' = <<>>
      BY <2>3 DEF EndSlice
    <3>2. Len(<<>>) = 0 /\ <<>> \in Seq({"f", "g"}) /\ 0 <= MaxSamples /\ 0 \in 0 .. MaxAge
      BY EmptySeq, SettingTypes
    <3>. QED
      BY <2>1, <3>1, <3>2 DEF Clocks
  <2>. QED
    BY <2>2, <2>3
<1>3. SomeSleep' /\ Chosen'
  BY <1>1, SleepsStay DEF SomeSleep, Chosen
<1>4. CASE StartSlice
  <2>1. /\ age' = 0 /\ samples' = <<>> /\ Len(samples') = 0
    BY <1>4 DEF StartSlice, Clocks
  <2>2. steady' => ~stale
    BY <1>4, Zenon DEF StartSlice
  <2>3. steady' => wait <= LongestSleep
    BY <2>2 DEF Chosen
  <2>4. steady' => age' + wait' <= FirstSampleBy' - Late + Len(samples') * (Every' + Late)
    <3>1. 0 * (Every + Late) = 0
      BY Sleeps, SettingTypes
    <3>. DEFINE none == 0 * (Every + Late)
    <3>. HIDE DEF none
    <3>2. wait <= LongestSleep => 0 + wait <= FirstSampleBy - Late + none
      <4>1. none = 0
        BY <3>1 DEF none
      <4>2. /\ wait \in Int /\ LongestSleep \in Int /\ FirstSampleBy \in Int /\ Late \in Int
            /\ FirstSampleBy >= LongestSleep + Late
        BY Sleeps, SettingTypes DEF Clocks
      <4>. QED
        BY <4>1, <4>2, Slack
    <3>. USE DEF none
    <3>. QED
      BY <1>1, <2>1, <2>3, <3>2, SleepsStay
  <2>. QED
    BY <1>2, <1>3, <2>1, <2>4 DEF Prompt, Measured
<1>5. CASE CallG
  <2>1. UNCHANGED <<active, age, samples, steady>>
    BY <1>5 DEF CallG
  <2>. QED
    BY <1>1, <1>2, <1>3, <2>1, SleepsStay DEF Prompt, Measured
<1>6. CASE EndSlice
  BY <1>2, <1>3, <1>6 DEF EndSlice, Prompt, Measured
<1>. QED
  BY <1>4, <1>5, <1>6

\* A tick brings the slice and the end of the sleep nearer by the same.
LEMMA TickStep ==
  ASSUME TimingInv, Tick
  PROVE  TimingInv'
<1>. USE DEF TimingInv
<1>1. UNCHANGED <<sampler, threshold, stale, active, function, samples, steady>>
  BY DEF Tick
<1>2. wait' = wait - 1 /\ wait \in Int
  BY DEF Tick, Clocks
<1>3. Settings' /\ Clocks'
  BY <1>1, SleepsStay, SettingTypes DEF Tick, Clocks
<1>4. SomeSleep'
  <2>1. PICK s \in {MinSleep, IdleCap} \cup Intervals \cup (Idles \ {Derived}) : wait <= s
    BY DEF SomeSleep
  <2>2. s \in Nat
    BY <2>1, ConstantsAssumption DEF MinSleep
  <2>3. wait' <= s
    BY <1>2, <2>1, <2>2
  <2>. QED
    BY <2>3 DEF SomeSleep
<1>5. Chosen'
  BY <1>1, <1>2, Sleeps, SleepsStay DEF Chosen
<1>6. active => age' + wait' = age + wait /\ age' >= age /\ age' \in Nat
  BY <1>2 DEF Tick, Clocks
<1>7. Prompt'
  <2>1. active => (age >= Arm => age' >= Arm)
    BY <1>6, Sleeps DEF Clocks
  <2>. QED
    BY <1>1, <1>6, <2>1, SleepsStay DEF Prompt
<1>8. Measured'
  <2>1. active /\ samples # <<>> => (Arm + (Len(samples) - 1) * Every <= age
                                       => Arm + (Len(samples) - 1) * Every <= age')
    <3>1. Len(samples) \in Nat
      BY DEF Clocks
    <3>2. Len(samples) * Every \in Nat /\ (Len(samples) - 1) * Every = Len(samples) * Every - Every
      BY <3>1, Sleeps, NextMultiple
    <3>3. Arm \in Int /\ age \in Int /\ (Len(samples) - 1) * Every \in Int
      BY <3>2, Sleeps DEF Clocks
    <3>. DEFINE taken == (Len(samples) - 1) * Every
    <3>. HIDE DEF taken
    <3>4. \A m, t, i, k \in Int : m + t <= i /\ k >= i => m + t <= k
      OBVIOUS
    <3>5. taken \in Int
      BY <3>3 DEF taken
    <3>6. active => (Arm + taken <= age => Arm + taken <= age')
      BY <1>6, <3>3, <3>4, <3>5
    <3>. QED
      BY <3>6 DEF taken
  <2>. QED
    BY <1>1, <1>6, <2>1, SleepsStay DEF Measured
<1>. QED
  BY <1>3, <1>4, <1>5, <1>7, <1>8

\* A round of the watchdog takes a sample of a slice that is old enough.
LEMMA WakeStep ==
  ASSUME TimingInv, Wake
  PROVE  TimingInv'
<1>. USE DEF TimingInv
<1>. DEFINE n == Len(samples)
            d == Every + Late
<1>1. /\ UNCHANGED <<sampler, threshold, active, age, function, inF, steady>>
      /\ wait <= 0 /\ wait' = Sleep(NextSleep)
      /\ samples' = IF active /\ age >= Arm THEN Keep(samples) ELSE samples
  BY DEF Wake
<1>2. n \in Nat /\ n <= MaxSamples /\ MaxSamples \in Nat /\ Late \in Nat /\ age \in Nat
      /\ wait \in Int /\ wait >= -Late
  BY SettingTypes DEF Clocks
<1>3. /\ Keep(samples) \in Seq({"f", "g"}) /\ Len(Keep(samples)) <= MaxSamples
      /\ n < MaxSamples => Len(Keep(samples)) = n + 1
      /\ n = MaxSamples => Keep(samples) = samples
  BY <1>2 DEF Clocks, Keep
<1>4. Settings' /\ Clocks'
  BY <1>1, <1>2, <1>3, SleepsStay, SleepChosen DEF Clocks
<1>5. SomeSleep' /\ Chosen'
  BY <1>1, SleepChosen, SleepsStay DEF SomeSleep, Chosen
<1>6. active => wait' = Every
  BY <1>1, SleepChosen
<1>7. n * d \in Nat /\ (n + 1) * d = n * d + d /\ d \in Nat
  <2>1. d \in Nat
    BY <1>2, Sleeps
  <2>. HIDE DEF d, n
  <2>. QED
    BY <1>2, <2>1, NextMultiple
<1>8. /\ n * Every \in Nat /\ (n + 1) * Every = n * Every + Every
      /\ (n - 1) * Every = n * Every - Every
  BY <1>2, Sleeps, NextMultiple
<1>9. samples = <<>> <=> n = 0
  BY EmptySeq DEF Clocks
<1>10. Prompt'
  <2>. SUFFICES ASSUME active, steady
                PROVE  /\ samples' # <<>> => age >= Arm
                       /\ Len(samples') < MaxSamples =>
                            age + Every <= FirstSampleBy - Late + Len(samples') * d
    BY <1>1, <1>6, SleepsStay DEF Prompt
  <2>1. CASE age >= Arm /\ n < MaxSamples
    <3>1. Len(samples') = n + 1
      BY <1>1, <1>3, <2>1
    <3>2. age + wait <= FirstSampleBy - Late + n * d
      BY <2>1 DEF Prompt
    <3>. HIDE DEF d, n
    <3>3. age + Every <= FirstSampleBy - Late + (n * d + d)
      BY <1>2, <1>7, <3>2, Sleeps DEF d
    <3>. QED
      BY <1>7, <2>1, <3>1, <3>3
  <2>2. CASE age >= Arm /\ n = MaxSamples
    BY <1>1, <1>2, <1>3, <2>2
  <2>3. CASE ~(age >= Arm)
    <3>1. samples' = samples /\ samples = <<>> /\ n = 0
      BY <1>1, <1>9, <2>3 DEF Prompt
    <3>2. age + Every <= FirstSampleBy - Late
      BY <1>2, <2>3, Sleeps
    <3>3. 0 * d = 0
      BY <1>7
    <3>4. age + Every <= FirstSampleBy - Late + 0 * d
      BY <1>2, <3>2, <3>3, Sleeps
    <3>. QED
      BY <3>1, <3>4
  <2>. QED
    BY <1>2, <2>1, <2>2, <2>3
<1>11. Measured'
  <2>. SUFFICES ASSUME active, steady, samples' # <<>>
                PROVE  /\ Arm + Len(samples') * Every <= age + Every
                       /\ Arm + (Len(samples') - 1) * Every <= age
    BY <1>1, <1>6, SleepsStay DEF Measured
  <2>1. CASE n = 0
    <3>1. age >= Arm /\ n < MaxSamples /\ Len(samples') = 1
      BY <1>1, <1>2, <1>3, <1>9, <2>1
    <3>2. 1 * Every = Every /\ (1 - 1) * Every = 0
      BY Sleeps
    <3>. QED
      BY <1>2, <3>1, <3>2, Sleeps
  <2>2. CASE n # 0
    <3>1. age >= Arm /\ Arm + n * Every <= age
      <4>1. Arm + n * Every <= age + wait /\ age >= Arm
        BY <1>9, <2>2 DEF Measured, Prompt
      <4>. DEFINE total == n * Every
      <4>2. total \in Nat
        BY <1>8
      <4>. HIDE DEF total, n
      <4>3. Arm + total <= age + wait => Arm + total <= age
        BY <1>1, <1>2, <4>2, Sleeps
      <4>. QED
        BY <4>1, <4>3 DEF total
    <3>2. CASE n < MaxSamples
      <4>1. Len(samples') = n + 1
        BY <1>1, <1>3, <3>1, <3>2
      <4>2. (n + 1) * Every = n * Every + Every /\ ((n + 1) - 1) * Every = n * Every
        BY <1>2, <1>8
      <4>. DEFINE total == n * Every
      <4>. HIDE DEF total, n
      <4>3. Arm + (n * Every + Every) <= age + Every
        <5>1. total \in Nat /\ Arm + total <= age
          BY <1>8, <3>1 DEF total
        <5>2. Arm + (total + Every) <= age + Every
          BY <1>2, <5>1, Sleeps
        <5>. QED
          BY <5>2 DEF total
      <4>. USE DEF total, n
      <4>. QED
        BY <3>1, <4>1, <4>2, <4>3
    <3>3. CASE n = MaxSamples
      <4>1. samples' = samples
        BY <1>1, <1>3, <3>1, <3>3
      <4>. DEFINE total == n * Every
      <4>. HIDE DEF total, n
      <4>2. Arm + n * Every <= age + Every /\ Arm + (n - 1) * Every <= age
        <5>1. total \in Nat /\ Arm + total <= age /\ (n - 1) * Every = total - Every
          BY <1>8, <3>1 DEF total
        <5>0. \A a, x, e, g \in Nat : a + x <= g => a + x <= g + e /\ a + (x - e) <= g
          OBVIOUS
        <5>2. Arm + total <= age + Every /\ Arm + (total - Every) <= age
          BY <1>2, <5>0, <5>1, Sleeps
        <5>. QED
          BY <5>1, <5>2 DEF total
      <4>. USE DEF total, n
      <4>. QED
        BY <4>1, <4>2
    <3>. QED
      BY <1>2, <3>2, <3>3
  <2>. QED
    BY <2>1, <2>2
<1>. QED
  BY <1>4, <1>5, <1>10, <1>11

LEMMA TimingInvariant == Spec => []TimingInv
<1>1. TimingInv /\ UNCHANGED vars => TimingInv'
  <2>. SUFFICES ASSUME TimingInv, UNCHANGED vars PROVE TimingInv'
    OBVIOUS
  <2>. USE DEF TimingInv, vars, slice
  <2>1. Settings' /\ Clocks' /\ SomeSleep'
    BY SleepsStay DEF Clocks, SomeSleep
  <2>2. Chosen' /\ Prompt' /\ Measured'
    BY SleepsStay DEF Chosen, Prompt, Measured
  <2>. QED
    BY <2>1, <2>2
<1>2. TimingInv /\ [Next]_vars => TimingInv'
  BY <1>1, ChangeStep, SliceStep, TickStep, WakeStep DEF Next
<1>. QED
  BY <1>2, TimingInit, PTL DEF Spec

-----------------------------------------------------------------------------
(* What it says.                                                             *)

\* Division, at the two places where the properties need it.
LEMMA Quotient ==
  ASSUME NEW x \in Nat, NEW d \in Nat \ {0}, NEW n \in Nat
  PROVE  /\ x < n * d => x \div d < n
         /\ n * d <= x => n <= x \div d
<1>. DEFINE q == x \div d
            r == x % d
<1>1. q \in Nat /\ r \in Nat /\ r < d /\ x = d * q + r
  BY SMT
<1>. HIDE DEF q, r
<1>2. ASSUME x < n * d, n <= q PROVE FALSE
  <2>1. n * d <= q * d
    BY <1>1, <1>2
  <2>. QED
    BY <1>1, <1>2, <2>1
<1>3. ASSUME n * d <= x, q < n PROVE FALSE
  <2>1. (q + 1) * d <= n * d
    BY <1>1, <1>3
  <2>2. (q + 1) * d = q * d + d
    BY <1>1
  <2>. QED
    BY <1>1, <1>3, <2>1, <2>2
<1>. QED
  BY <1>1, <1>2, <1>3 DEF q

\* The watchdog never waits longer than some configuration says, keeps no more
\* than max_samples_per_slice samples, and a slice that is published begins with
\* none (cpu_sampler.py:140-161, 219-255).
THEOREM TimingTypeCorrect == Spec => []TypeOK
<1>1. TimingInv => TypeOK
  BY DEF TimingInv, Clocks, SomeSleep, TypeOK
<1>. QED
  BY <1>1, TimingInvariant, PTL

\* "Sampling begins around the midpoint of any slice that goes on to violate"
\* (cpu_sampler.py:92): for every threshold of at least twice the interval and
\* the lateness of sleeps, every derived setting and every moment of the idle
\* sleep at which the slice may begin, provided samples are kept at all.
THEOREM ViolationIsSampled ==
  ASSUME MaxSamples > 0
  PROVE  Spec => []ViolatorsSampled
<1>1. ASSUME TimingInv, active, steady, age >= threshold,
             armOverride = Derived, idleOverride = Derived,
             2 * (Every + Late) <= threshold,
             samples = <<>>
      PROVE  FALSE
  <2>1. Settings /\ Clocks /\ Prompt
    BY <1>1 DEF TimingInv
  <2>2. /\ Arm \in Nat /\ Idle \in Nat /\ Every \in Nat /\ Every >= 1 /\ Every >= interval
        /\ interval \in Nat /\ IdleCap \in Nat /\ Late \in Nat /\ threshold \in Nat
        /\ FirstSampleBy \in Int
    BY <2>1, Sleeps, SettingTypes
  <2>3. wait \in Int /\ wait >= -Late /\ age \in Int
    BY <2>1, SettingTypes DEF Clocks
  <2>4. age + wait <= FirstSampleBy - Late
    <3>1. Len(samples) = 0 /\ MaxSamples \in Nat
      BY <1>1, <2>1, SettingTypes
    <3>2. age + wait <= FirstSampleBy - Late + Len(samples) * (Every + Late)
      BY <1>1, <2>1, <3>1 DEF Prompt
    <3>3. 0 * (Every + Late) = 0
      BY <2>2
    <3>4. age + wait <= FirstSampleBy - Late + 0
      BY <3>1, <3>2, <3>3, Zenon
    <3>. QED
      BY <2>2, <2>3, <3>4
  <2>5. \A a, w, first \in Int, late \in Nat : w >= -late /\ a + w <= first - late => a <= first
    OBVIOUS
  <2>6. age <= FirstSampleBy
    BY <2>2, <2>3, <2>4, <2>5
  <2>7. 2 * Arm <= threshold
    <3>1. 2 * (threshold \div 2) <= threshold /\ threshold \div 2 \in Nat
      BY <2>2, SMT
    <3>2. \A e, l, m \in Nat : e >= 1 /\ 2 * (e + l) <= m => 2 <= m
      OBVIOUS
    <3>3. 2 <= threshold
      BY <1>1, <2>2, <3>2
    <3>4. Arm = IF threshold \div 2 < 1 THEN 1 ELSE threshold \div 2
      BY <1>1 DEF Arm, AtLeast, MinArm
    <3>. QED
      BY <2>2, <3>1, <3>3, <3>4
  <2>8. Idle <= Every \/ Idle <= Arm
    <3>1. Idle <= interval \/ Idle <= Arm
      BY <1>1, <2>2 DEF Idle, AtMost, AtLeast
    <3>. QED
      BY <2>2, <3>1
  <2>9. /\ LongestSleep \in Nat
        /\ LongestSleep <= Every \/ LongestSleep <= Arm
    BY <2>2, <2>8 DEF LongestSleep, AtLeast, MinSleep
  <2>10. FirstSampleBy < threshold
    <3>1. \A e, l, m, a, s \in Nat :
            e >= 1 /\ 2 * (e + l) <= m /\ 2 * a <= m /\ (s <= e \/ s <= a) =>
              s + l < m /\ a - 1 + e + l < m
      OBVIOUS
    <3>2. LongestSleep + Late < threshold /\ Arm - 1 + Every + Late < threshold
      BY <1>1, <2>2, <2>7, <2>9, <3>1
    <3>3. FirstSampleBy = LongestSleep + Late \/ FirstSampleBy = Arm - 1 + Every + Late
      BY DEF FirstSampleBy, AtLeast
    <3>. QED
      BY <3>2, <3>3
  <2>11. age >= threshold
    BY <1>1
  <2>. QED
    BY <2>2, <2>3, <2>6, <2>10, <2>11
<1>2. TimingInv => ViolatorsSampled
  BY <1>1 DEF ViolatorsSampled
<1>. QED
  BY <1>2, TimingInvariant, PTL

\* "Few samples for a long slice is itself a signal" (cpu_sampler.py:21): when
\* sleeps end at most Late late, each interval brings a sample up to the cap, in
\* every configuration.
THEOREM SamplesKeepComing == Spec => []FewSamplesMeanStarvation
<1>1. ASSUME TimingInv, active, steady, age > FirstSampleBy
      PROVE  Len(samples) >=
               AtMost(MaxSamples, 1 + (age - 1 - FirstSampleBy) \div (Every + Late))
  <2>. USE <1>1 DEF TimingInv
  <2>. DEFINE n == Len(samples)
              d == Every + Late
              x == age - 1 - FirstSampleBy
  <2>0. age \in Int /\ FirstSampleBy \in Int /\ age > FirstSampleBy
    BY Sleeps DEF Clocks
  <2>1. n \in Nat /\ d \in Nat \ {0} /\ x \in Nat /\ MaxSamples \in Nat
    <3>1. n \in Nat /\ MaxSamples \in Nat
      BY SettingTypes DEF Clocks
    <3>2. d \in Nat \ {0}
      BY Sleeps, SettingTypes
    <3>3. \A a, b \in Int : a > b => a - 1 - b \in Nat
      OBVIOUS
    <3>. QED
      BY <2>0, <3>1, <3>2, <3>3
  <2>2. x \div d \in Nat
    <3>. HIDE DEF x, d
    <3>. QED
      BY <2>1, SMT
  <2>3. CASE n < MaxSamples
    <3>1. age + wait <= FirstSampleBy - Late + n * d
      BY <2>3 DEF Prompt
    <3>2. n * d \in Nat
      BY <2>1, NextMultiple
    <3>3. x < n * d
      <4>. DEFINE total == n * d
      <4>1. total \in Nat /\ age + wait <= FirstSampleBy - Late + total
        BY <3>1, <3>2
      <4>. HIDE DEF total, n, d
      <4>2. wait \in Int /\ wait >= -Late /\ Late \in Nat
        BY SettingTypes DEF Clocks
      <4>3. \A a, b, w, l, t \in Int : w >= -l /\ a + w <= b - l + t => a - 1 - b < t
        OBVIOUS
      <4>4. x < total
        BY <2>0, <4>1, <4>2, <4>3
      <4>. QED
        BY <4>4 DEF total
    <3>. HIDE DEF n, d, x
    <3>4. x \div d < n
      BY <2>1, <3>3, Quotient
    <3>5. AtMost(MaxSamples, 1 + x \div d) <= n
      BY <2>1, <2>2, <3>4 DEF AtMost
    <3>. QED
      BY <2>1, <2>2, <3>5 DEF n, d, x, AtMost
  <2>4. CASE n = MaxSamples
    <3>. HIDE DEF d, x
    <3>1. AtMost(MaxSamples, 1 + x \div d) <= n
      BY <2>1, <2>2, <2>4 DEF AtMost
    <3>. QED
      BY <2>1, <2>2, <3>1 DEF d, x, AtMost
  <2>. QED
    BY <2>1, <2>3, <2>4 DEF Clocks
<1>2. TimingInv => FewSamplesMeanStarvation
  BY <1>1 DEF FewSamplesMeanStarvation
<1>. QED
  BY <1>2, TimingInvariant, PTL

\* A count of samples is a measure of time: no configuration, zeros included,
\* takes more than one each interval or each millisecond, the first at the arming
\* age (cpu_sampler.py:219-255).
THEOREM CountsAreTime == Spec => []CountsMeasureTime
<1>1. ASSUME TimingInv, active, steady
      PROVE  Len(samples) <= IF age < Arm THEN 0 ELSE 1 + (age - Arm) \div Every
  <2>. USE <1>1 DEF TimingInv
  <2>. DEFINE n == Len(samples)
  <2>1. n \in Nat /\ Every \in Nat \ {0} /\ Arm \in Nat /\ age \in Nat
    BY Sleeps DEF Clocks
  <2>2. n = 0 <=> samples = <<>>
    BY EmptySeq DEF Clocks
  <2>3. CASE n = 0
    <3>1. ~(age < Arm) => age - Arm \in Nat
      BY <2>1
    <3>2. \A x, d \in Nat : d # 0 => x \div d \in Nat
      BY SMT
    <3>. QED
      BY <2>1, <2>3, <3>1, <3>2
  <2>4. CASE n # 0
    <3>1. age >= Arm /\ Arm + (n - 1) * Every <= age
      BY <2>2, <2>4 DEF Prompt, Measured
    <3>2. n - 1 \in Nat /\ age - Arm \in Nat
      BY <2>1, <2>4, <3>1
    <3>3. (n - 1) * Every <= age - Arm
      <4>. DEFINE total == (n - 1) * Every
      <4>1. total \in Nat
        BY <2>1, <3>2, NextMultiple
      <4>2. Arm + total <= age
        BY <3>1
      <4>. HIDE DEF total
      <4>3. total <= age - Arm
        BY <2>1, <4>1, <4>2
      <4>. QED
        BY <4>3 DEF total
    <3>4. n - 1 <= (age - Arm) \div Every
      BY <2>1, <3>2, <3>3, Quotient
    <3>5. (age - Arm) \div Every \in Nat
      BY <2>1, <3>2, SMT
    <3>. HIDE DEF n
    <3>6. n <= 1 + (age - Arm) \div Every
      BY <2>1, <3>4, <3>5
    <3>. QED
      BY <2>1, <3>1, <3>6 DEF n
  <2>. QED
    BY <2>3, <2>4
<1>2. TimingInv => CountsMeasureTime
  BY <1>1 DEF CountsMeasureTime
<1>. QED
  BY <1>2, TimingInvariant, PTL

-----------------------------------------------------------------------------
(* How the samples divide between the two functions: what LongestFirst needs *)
(* besides TimingInv.                                                        *)

\* p samples in f, and then q in g.
Parts(p, q) ==
  /\ Len(samples) = p + q
  /\ \A i \in 1 .. p + q : samples[i] = IF i <= p THEN "f" ELSE "g"

\* f comes first in a slice.
Stretch == (function = "f" => inF = age) /\ (~active => function = "f")

\* Once a slice was sampled, no sleep is an idle one.
Awake == active /\ steady /\ samples # <<>> => wait <= Every

\* The samples in f are about as many as its time,
InF(p, q) ==
  /\ p > 0 => Arm + (p - 1) * Every <= inF
  /\ p + q < MaxSamples => inF <= FirstSampleBy + p * (Every + Late)

\* and so are those in g: the first is due an interval after the call of g,
\* unless the slice is not even old enough for a sample.
DueInG == AtLeast(FirstSampleBy - Late, inF + Every)
InG(p, q) ==
  /\ function = "f" => q = 0
  /\ q > 0 => inF + (q - 1) * Every <= age /\ inF + q * Every <= age + wait
  /\ function = "g" /\ p + q < MaxSamples => age + wait <= DueInG + q * (Every + Late)

Divided == active /\ steady => \E p, q \in Nat : Parts(p, q) /\ InF(p, q) /\ InG(p, q)

DividedInv == Stretch /\ Awake /\ Divided

\* The products above.
LEMMA Multiples ==
  ASSUME NEW n \in Nat, NEW d \in Nat, NEW l \in Nat
  PROVE  /\ n * d \in Nat /\ n * l \in Nat /\ n * (d + l) \in Nat
         /\ n * (d + l) = n * d + n * l
         /\ (n + 1) * d = n * d + d /\ (n + 1) * (d + l) = n * (d + l) + d + l
         /\ (n - 1) * d = n * d - d
         /\ 0 * d = 0 /\ 0 * (d + l) = 0
         /\ l <= d => n * l <= n * d
<1>1. /\ n * d \in Nat /\ n * l \in Nat
      /\ (n + 1) * d = n * d + d /\ (n - 1) * d = n * d - d
      /\ 0 * d = 0
  OBVIOUS
<1>2. n * (d + l) = n * d + n * l
  OBVIOUS
<1>3. (n + 1) * (d + l) = n * (d + l) + d + l /\ n * (d + l) \in Nat /\ 0 * (d + l) = 0
  OBVIOUS
<1>4. l <= d => n * l <= n * d
  OBVIOUS
<1>. QED
  BY <1>1, <1>2, <1>3, <1>4

\* What both invariants give of a slice that runs.
LEMMA RunningTypes ==
  ASSUME TimingInv
  PROVE  /\ age \in Nat /\ inF \in Nat /\ inF <= age /\ wait \in Int /\ wait >= -Late
         /\ Late \in Nat /\ MaxSamples \in Nat /\ Arm \in Nat /\ Every \in Nat /\ Every >= 1
         /\ FirstSampleBy \in Nat /\ FirstSampleBy >= Every + Late
         /\ FirstSampleBy >= Arm - 1 + Every + Late
         /\ function \in {"f", "g"}
         /\ samples \in Seq({"f", "g"}) /\ Len(samples) \in Nat /\ Len(samples) <= MaxSamples
         /\ samples = <<>> <=> Len(samples) = 0
         /\ DueInG \in Int /\ DueInG >= FirstSampleBy - Late /\ DueInG >= inF + Every
         /\ DueInG = FirstSampleBy - Late \/ DueInG = inF + Every
<1>1. Settings /\ Clocks
  BY DEF TimingInv
<1>2. /\ age \in Nat /\ inF \in Nat /\ inF <= age /\ wait \in Int /\ wait >= -Late
      /\ Late \in Nat /\ MaxSamples \in Nat /\ function \in {"f", "g"}
      /\ samples \in Seq({"f", "g"}) /\ Len(samples) \in Nat /\ Len(samples) <= MaxSamples
  BY <1>1, SettingTypes DEF Clocks
<1>3. /\ Arm \in Nat /\ Every \in Nat /\ Every >= 1
      /\ LongestSleep \in Nat /\ LongestSleep >= Every /\ FirstSampleBy \in Int
      /\ FirstSampleBy >= LongestSleep + Late /\ FirstSampleBy >= Arm - 1 + Every + Late
  BY <1>1, Sleeps
<1>4. FirstSampleBy \in Nat /\ FirstSampleBy >= Every + Late
  BY <1>2, <1>3
<1>5. samples = <<>> <=> Len(samples) = 0
  BY <1>2, EmptySeq
<1>6. \A a, b \in Int : /\ AtLeast(a, b) \in Int /\ AtLeast(a, b) >= a /\ AtLeast(a, b) >= b
                        /\ AtLeast(a, b) = a \/ AtLeast(a, b) = b
  BY DEF AtLeast
<1>7. FirstSampleBy - Late \in Int /\ inF + Every \in Int
  BY <1>2, <1>3, <1>4
<1>. QED
  BY <1>2, <1>3, <1>4, <1>5, <1>6, <1>7 DEF DueInG

LEMMA DividedInit == Init => DividedInv
  BY DEF Init, DividedInv, Stretch, Awake, Divided

\* A slice starts, calls g, or ends.
LEMMA DividedSlice ==
  ASSUME TimingInv, DividedInv, StartSlice \/ CallG \/ EndSlice
  PROVE  DividedInv'
<1>. USE DEF DividedInv
<1>1. UNCHANGED <<sampler, threshold, wait>>
  BY DEF StartSlice, CallG, EndSlice
<1>2. /\ Arm' = Arm /\ Every' = Every /\ FirstSampleBy' = FirstSampleBy
      /\ Every \in Nat /\ Every >= 1 /\ Late \in Nat
  BY <1>1, SleepsStay, RunningTypes
<1>3. 0 * Every = 0 /\ 0 * (Every + Late) = 0
  BY <1>2, Multiples
<1>4. CASE StartSlice
  <2>1. /\ UNCHANGED <<age, function, inF, samples>>
        /\ function = "f" /\ age = 0 /\ inF = 0 /\ samples = <<>> /\ active'
    BY <1>4 DEF StartSlice, Stretch, TimingInv, Clocks
  <2>2. Parts(0, 0)'
    BY <2>1 DEF Parts
  <2>3. InF(0, 0)'
    BY <1>2, <1>3, <2>1, RunningTypes DEF InF
  <2>4. InG(0, 0)'
    BY <2>1 DEF InG
  <2>5. Divided'
    BY <2>2, <2>3, <2>4 DEF Divided
  <2>. QED
    BY <2>1, <2>5 DEF Stretch, Awake
<1>5. CASE CallG
  <2>1. /\ UNCHANGED <<active, age, inF, samples, steady>>
        /\ active /\ function = "f" /\ function' = "g" /\ inF = age
    BY <1>5 DEF CallG, Stretch
  <2>2. Stretch' /\ Awake'
    BY <1>1, <1>2, <2>1 DEF Stretch, Awake
  <2>3. ASSUME steady, NEW p \in Nat, NEW q \in Nat, Parts(p, q), InF(p, q), InG(p, q)
        PROVE  Divided'
    <3>1. q = 0 /\ Len(samples) = p
      BY <2>1, <2>3 DEF InG, Parts
    <3>2. Parts(p, 0)' /\ InF(p, 0)'
      BY <1>2, <2>1, <2>3, <3>1 DEF Parts, InF
    <3>3. DueInG' = DueInG
      BY <1>2, <2>1 DEF DueInG
    <3>4. p < MaxSamples => age + wait <= DueInG
      <4>1. CASE p = 0
        <5>1. 0 < MaxSamples => age + wait <= FirstSampleBy - Late + 0 * (Every + Late)
          BY <2>1, <2>3, <3>1, <4>1 DEF TimingInv, Prompt
        <5>2. 0 < MaxSamples => age + wait <= FirstSampleBy - Late + 0
          BY <1>3, <5>1, Zenon
        <5>. QED
          BY <4>1, <5>2, RunningTypes
      <4>2. CASE p # 0
        <5>1. wait <= Every
          BY <2>1, <2>3, <3>1, <4>2, RunningTypes DEF Awake
        <5>. QED
          BY <2>1, <5>1, RunningTypes
      <4>. QED
        BY <4>1, <4>2
    <3>5. p + 0 < MaxSamples => age + wait <= DueInG + 0 * (Every + Late)
      BY <1>3, <3>4, RunningTypes
    <3>6. InG(p, 0)'
      BY <1>1, <1>2, <2>1, <3>3, <3>5 DEF InG
    <3>. QED
      BY <3>2, <3>6 DEF Divided
  <2>. QED
    BY <2>1, <2>2, <2>3 DEF Divided
<1>6. CASE EndSlice
  BY <1>6 DEF EndSlice, Stretch, Awake, Divided
<1>. QED
  BY <1>4, <1>5, <1>6

\* A tick makes the time in f, or in g, longer.
LEMMA DividedTick ==
  ASSUME TimingInv, DividedInv, Tick, TimingInv'
  PROVE  DividedInv'
<1>. USE DEF DividedInv
<1>1. UNCHANGED <<sampler, threshold, active, function, samples, steady>>
  BY DEF Tick
<1>2. /\ Arm' = Arm /\ Every' = Every /\ FirstSampleBy' = FirstSampleBy
  BY <1>1, SleepsStay
<1>3. /\ wait' = wait - 1
      /\ active => age' = age + 1 /\ inF' = IF function = "f" THEN inF + 1 ELSE inF
      /\ ~active => age' = 0 /\ inF' = inF
  BY DEF Tick
<1>4. Stretch'
  BY <1>1, <1>3, RunningTypes DEF Stretch, TimingInv, Clocks
<1>5. Awake'
  BY <1>1, <1>2, <1>3, RunningTypes DEF Awake
<1>6. ASSUME active, steady, NEW p \in Nat, NEW q \in Nat, Parts(p, q), InF(p, q), InG(p, q)
      PROVE  Parts(p, q)' /\ InF(p, q)' /\ InG(p, q)'
  <2>1. Parts(p, q)'
    BY <1>1, <1>6 DEF Parts
  <2>2. Len(samples) = p + q /\ p * (Every + Late) \in Nat /\ (p - 1) * Every \in Int
        /\ q * Every \in Nat /\ (q - 1) * Every \in Int /\ q * (Every + Late) \in Nat
    <3>1. Every \in Nat /\ Late \in Nat
      BY RunningTypes
    <3>2. /\ p * Every \in Nat /\ (p - 1) * Every = p * Every - Every
          /\ p * (Every + Late) \in Nat
      BY <1>6, <3>1, Multiples
    <3>3. /\ q * Every \in Nat /\ (q - 1) * Every = q * Every - Every
          /\ q * (Every + Late) \in Nat
      BY <1>6, <3>1, Multiples
    <3>4. \A a, b \in Nat : a - b \in Int
      OBVIOUS
    <3>. QED
      BY <1>6, <3>1, <3>2, <3>3, <3>4 DEF Parts
  <2>3. CASE function = "f"
    <3>1. q = 0 /\ inF' = age' /\ inF' = inF + 1
      BY <1>3, <1>6, <2>3 DEF InG, Stretch
    <3>2. p < MaxSamples => age' + wait' <= FirstSampleBy - Late + p * (Every + Late)
      BY <1>1, <1>2, <1>6, <2>2, <3>1 DEF TimingInv, Prompt
    <3>. DEFINE due == p * (Every + Late)
                taken == (p - 1) * Every
    <3>. HIDE DEF due, taken
    <3>3. p < MaxSamples => inF' <= FirstSampleBy + due
      <4>1. wait' \in Int /\ wait' >= -Late /\ age' \in Int
        BY RunningTypes DEF TimingInv, Clocks
      <4>2. due \in Nat /\ (p < MaxSamples => age' + wait' <= FirstSampleBy - Late + due)
        BY <2>2, <3>2 DEF due
      <4>3. \A a, w, f, l, d \in Int : w >= -l /\ a + w <= f - l + d => a <= f + d
        OBVIOUS
      <4>. QED
        <5>1. FirstSampleBy \in Int /\ Late \in Int /\ due \in Int
          BY <4>2, RunningTypes
        <5>2. p < MaxSamples => age' <= FirstSampleBy + due
          BY <4>1, <4>2, <4>3, <5>1
        <5>. QED
          BY <3>1, <5>2
    <3>4. p > 0 => Arm + taken <= inF'
      <4>1. taken \in Int /\ (p > 0 => Arm + taken <= inF)
        BY <1>6, <2>2 DEF InF, taken
      <4>2. \A m, t, i \in Int : m + t <= i => m + t <= i + 1
        OBVIOUS
      <4>3. Arm \in Int /\ inF \in Int
        BY RunningTypes
      <4>. QED
        BY <3>1, <4>1, <4>2, <4>3
    <3>5. InF(p, q)'
      BY <1>2, <3>1, <3>3, <3>4 DEF InF, due, taken
    <3>6. InG(p, q)'
      BY <1>1, <2>3, <3>1 DEF InG
    <3>. QED
      BY <2>1, <3>5, <3>6
  <2>4. CASE function = "g"
    <3>1. inF' = inF /\ age' = age + 1 /\ age' + wait' = age + wait /\ DueInG' = DueInG
      BY <1>2, <1>3, <1>6, <2>4, RunningTypes DEF DueInG
    <3>2. InF(p, q)'
      BY <1>2, <1>6, <3>1 DEF InF
    <3>3. q > 0 => inF + (q - 1) * Every <= age'
      <4>. DEFINE taken == (q - 1) * Every
      <4>1. taken \in Int /\ (q > 0 => inF + taken <= age)
        BY <1>6, <2>2 DEF InG
      <4>. HIDE DEF taken
      <4>2. \A i, t, a \in Int : i + t <= a => i + t <= a + 1
        OBVIOUS
      <4>3. age \in Int /\ inF \in Int
        BY RunningTypes
      <4>4. q > 0 => inF + taken <= age'
        BY <3>1, <4>1, <4>2, <4>3
      <4>. QED
        BY <4>4 DEF taken
    <3>4. InG(p, q)'
      BY <1>1, <1>2, <1>6, <2>4, <3>1, <3>3 DEF InG
    <3>. QED
      BY <2>1, <3>2, <3>4
  <2>. QED
    BY <2>3, <2>4, RunningTypes
<1>. QED
  BY <1>1, <1>4, <1>5, <1>6 DEF Divided

\* A round adds a sample to the part of the function that runs.
LEMMA DividedWake ==
  ASSUME TimingInv, DividedInv, Wake, TimingInv'
  PROVE  DividedInv'
<1>. USE DEF DividedInv
<1>1. /\ UNCHANGED <<sampler, threshold, active, age, function, inF, steady>>
      /\ wait <= 0 /\ (active => wait' = Every)
      /\ samples' = IF active /\ age >= Arm THEN Keep(samples) ELSE samples
  BY SleepChosen DEF Wake, TimingInv
<1>2. /\ Arm' = Arm /\ Every' = Every /\ FirstSampleBy' = FirstSampleBy /\ DueInG' = DueInG
  BY <1>1, SleepsStay DEF DueInG
<1>3. Stretch' /\ Awake'
  BY <1>1, <1>2, RunningTypes DEF Stretch, Awake
<1>4. ASSUME active, steady, NEW p \in Nat, NEW q \in Nat, Parts(p, q), InF(p, q), InG(p, q)
      PROVE  Divided'
  <2>. DEFINE ep == p * Every        eq == q * Every
              tp == p * (Every + Late) tq == q * (Every + Late)
  <2>1. /\ ep \in Nat /\ eq \in Nat /\ tp \in Nat /\ tq \in Nat
        /\ (p - 1) * Every = ep - Every /\ (q - 1) * Every = eq - Every
        /\ (p + 1) * (Every + Late) = tp + Every + Late
        /\ (q + 1) * (Every + Late) = tq + Every + Late
        /\ (q + 1) * Every = eq + Every
    <3>1. Every \in Nat /\ Late \in Nat
      BY RunningTypes
    <3>2. ASSUME NEW n \in Nat
          PROVE  /\ n * Every \in Nat /\ n * (Every + Late) \in Nat
                 /\ (n - 1) * Every = n * Every - Every
                 /\ (n + 1) * Every = n * Every + Every
                 /\ (n + 1) * (Every + Late) = n * (Every + Late) + Every + Late
      BY <3>1, Multiples
    <3>. QED
      BY <1>4, <3>2
  <2>2. Len(samples) = p + q /\ p + q <= MaxSamples
    BY <1>4, RunningTypes DEF Parts
  <2>. HIDE DEF ep, eq, tp, tq
  <2>3. q > 0 => inF + eq <= age + wait /\ inF + eq <= age
    <3>1. q > 0 => inF + eq <= age + wait
      BY <1>4 DEF InG, eq
    <3>2. \A i, k, a, w \in Int : w <= 0 /\ i + k <= a + w => i + k <= a
      OBVIOUS
    <3>. QED
      <4>1. inF \in Int /\ eq \in Int /\ age \in Int /\ wait \in Int /\ wait <= 0
        BY <1>1, <2>1, RunningTypes
      <4>. QED
        BY <3>1, <3>2, <4>1
  <2>4. CASE samples' = samples
    <3>1. Parts(p, q)' /\ InF(p, q)'
      BY <1>1, <1>2, <1>4, <2>4 DEF Parts, InF
    <3>2. q > 0 => inF + (q - 1) * Every <= age /\ inF + eq <= age + Every
      <4>1. \A i, k, a, e \in Nat : i + k <= a => i + k <= a + e
        OBVIOUS
      <4>2. q > 0 => inF + (q - 1) * Every <= age
        BY <1>4 DEF InG
      <4>. QED
        BY <2>1, <2>3, <4>1, <4>2, RunningTypes
    <3>3. function = "g" /\ p + q < MaxSamples => age + Every <= DueInG + tq
      <4>1. ASSUME function = "g", p + q < MaxSamples PROVE age + Every <= DueInG + tq
        <5>1. age < Arm
          <6>1. ASSUME age >= Arm PROVE FALSE
            <7>1. samples' = Append(samples, function)
              BY <1>1, <1>4, <2>2, <4>1, <6>1 DEF Keep
            <7>2. Len(samples') = Len(samples) + 1
              BY <7>1, RunningTypes
            <7>. QED
              BY <2>4, <7>2, RunningTypes
          <6>. QED
            BY <6>1, RunningTypes
        <5>2. \A a, m, e, f, l, g, k \in Int :
                a < m /\ f >= m - 1 + e + l /\ g >= f - l /\ k >= 0 => a + e <= g + k
          OBVIOUS
        <5>3. DueInG >= FirstSampleBy - Late /\ FirstSampleBy >= Arm - 1 + Every + Late
          BY RunningTypes
        <5>4. /\ age \in Int /\ Arm \in Int /\ Every \in Int /\ FirstSampleBy \in Int
              /\ Late \in Int /\ DueInG \in Int /\ tq \in Int /\ tq >= 0
          BY <2>1, RunningTypes
        <5>. QED
          BY <5>1, <5>2, <5>3, <5>4
      <4>. QED
        BY <4>1
    <3>4. InG(p, q)'
      BY <1>1, <1>2, <1>4, <3>2, <3>3 DEF InG, eq, tq
    <3>. QED
      BY <3>1, <3>4 DEF Divided
  <2>5. CASE samples' # samples
    <3>1. age >= Arm /\ p + q < MaxSamples /\ samples' = Append(samples, function)
      BY <1>1, <1>4, <2>2, <2>5 DEF Keep
    <3>2. /\ Len(samples') = p + q + 1 /\ samples'[p + q + 1] = function
          /\ \A i \in 1 .. p + q : samples'[i] = samples[i]
          /\ \A i \in 1 .. p + q + 1 : i \in 1 .. p + q \/ i = p + q + 1
      <4>1. samples \in Seq({"f", "g"}) /\ function \in {"f", "g"}
        BY RunningTypes
      <4>2. /\ Len(samples') = Len(samples) + 1 /\ samples'[Len(samples) + 1] = function
            /\ \A i \in 1 .. Len(samples) : samples'[i] = samples[i]
        BY <3>1, <4>1, AppendProperties
      <4>3. \A i \in 1 .. p + q + 1 : i \in 1 .. p + q \/ i = p + q + 1
        BY <1>4
      <4>. QED
        BY <2>2, <4>2, <4>3
    <3>3. CASE function = "f"
      <4>1. q = 0 /\ inF = age
        BY <1>4, <3>3 DEF InG, Stretch
      <4>2. Parts(p + 1, 0)'
        <5>1. Len(samples') = p + 1 + 0
          BY <3>2, <4>1
        <5>2. ASSUME NEW i \in 1 .. p + 1 + 0 PROVE samples'[i] = "f" /\ i <= p + 1
          <6>1. i \in 1 .. p + q \/ i = p + q + 1
            BY <3>2, <4>1
          <6>2. CASE i \in 1 .. p + q
            BY <1>4, <3>2, <4>1, <6>2 DEF Parts
          <6>3. CASE i = p + q + 1
            BY <3>2, <3>3, <4>1, <6>3
          <6>. QED
            BY <6>1, <6>2, <6>3
        <5>. QED
          BY <5>1, <5>2 DEF Parts
      <4>3. Arm + (p + 1 - 1) * Every <= inF
        <5>1. Len(samples') = p + 1 /\ samples' # <<>>
          <6>1. samples' \in Seq({"f", "g"})
            BY DEF TimingInv, Clocks
          <6>. QED
            BY <3>2, <4>1, <6>1, EmptySeq
        <5>2. Arm + (Len(samples') - 1) * Every <= age
          BY <1>1, <1>2, <1>4, <5>1 DEF TimingInv, Measured
        <5>. QED
          BY <4>1, <5>1, <5>2
      <4>4. p + 1 + 0 < MaxSamples => inF <= FirstSampleBy + (p + 1) * (Every + Late)
        <5>1. inF <= FirstSampleBy + tp
          BY <1>4, <3>1 DEF InF, tp
        <5>2. \A i, f, t, e, l \in Nat : i <= f + t => i <= f + (t + e + l)
          OBVIOUS
        <5>. QED
          BY <2>1, <5>1, <5>2, RunningTypes
      <4>5. InF(p + 1, 0)'
        BY <1>1, <1>2, <4>3, <4>4 DEF InF
      <4>6. InG(p + 1, 0)'
        BY <1>1, <3>3 DEF InG
      <4>. QED
        BY <4>2, <4>5, <4>6 DEF Divided
    <3>4. CASE function = "g"
      <4>1. Parts(p, q + 1)'
        <5>1. Len(samples') = p + (q + 1)
          BY <3>2
        <5>2. ASSUME NEW i \in 1 .. p + (q + 1)
              PROVE  samples'[i] = IF i <= p THEN "f" ELSE "g"
          <6>1. i \in 1 .. p + q \/ i = p + q + 1
            BY <3>2
          <6>2. CASE i \in 1 .. p + q
            BY <1>4, <3>2, <6>2 DEF Parts
          <6>3. CASE i = p + q + 1
            BY <3>2, <3>4, <6>3
          <6>. QED
            BY <6>1, <6>2, <6>3
        <5>. QED
          BY <5>1, <5>2 DEF Parts
      <4>2. InF(p, q + 1)'
        <5>1. p > 0 => Arm + (p - 1) * Every <= inF
          BY <1>4 DEF InF
        <5>2. inF <= FirstSampleBy + p * (Every + Late)
          BY <1>4, <3>1 DEF InF
        <5>. QED
          BY <1>1, <1>2, <5>1, <5>2 DEF InF
      <4>3. inF + (q + 1 - 1) * Every <= age /\ inF + (q + 1) * Every <= age + Every
        <5>1. inF + eq <= age
          <6>1. CASE q = 0
            BY <6>1, RunningTypes, Multiples DEF eq
          <6>. QED
            BY <2>3, <6>1
        <5>2. \A i, k, a, e \in Nat : i + k <= a => i + (k + e) <= a + e
          OBVIOUS
        <5>3. q + 1 - 1 = q
          OBVIOUS
        <5>4. inF + (eq + Every) <= age + Every
          BY <2>1, <5>1, <5>2, RunningTypes
        <5>. QED
          BY <2>1, <5>1, <5>3, <5>4 DEF eq
      <4>4. age + Every <= DueInG + (q + 1) * (Every + Late)
        <5>1. age + wait <= DueInG + tq
          BY <1>4, <3>1, <3>4 DEF InG, tq
        <5>2. \A a, w, g, t, e, l \in Int : w >= -l /\ a + w <= g + t => a + e <= g + (t + e + l)
          OBVIOUS
        <5>3. /\ age \in Int /\ wait \in Int /\ wait >= -Late /\ DueInG \in Int /\ tq \in Int
              /\ Every \in Int /\ Late \in Int
          BY <2>1, RunningTypes
        <5>4. age + Every <= DueInG + (tq + Every + Late)
          BY <5>1, <5>2, <5>3
        <5>. QED
          BY <2>1, <5>4
      <4>5. InG(p, q + 1)'
        BY <1>1, <1>2, <1>4, <3>4, <4>3, <4>4 DEF InG
      <4>. QED
        BY <4>1, <4>2, <4>5 DEF Divided
    <3>. QED
      BY <3>3, <3>4, RunningTypes
  <2>. QED
    BY <2>4, <2>5
<1>. QED
  BY <1>1, <1>3, <1>4 DEF Divided

LEMMA DividedInvariant == Spec => [](TimingInv /\ DividedInv)
<1>1. ASSUME TimingInv, DividedInv, NEW ms \in Thresholds, DetectSlowTasks(ms)
      PROVE  DividedInv'
  BY <1>1 DEF DetectSlowTasks, DividedInv, Stretch, Awake, Divided
<1>2. ASSUME DividedInv, UNCHANGED vars
      PROVE  DividedInv'
  <2>1. UNCHANGED <<sampler, threshold, wait, active, age, function, inF, samples, steady>>
    BY <1>2 DEF vars, slice
  <2>2. Arm' = Arm /\ Every' = Every /\ FirstSampleBy' = FirstSampleBy /\ DueInG' = DueInG
    BY <2>1, SleepsStay DEF DueInG
  <2>3. Stretch' /\ Awake'
    BY <1>2, <2>1, <2>2 DEF DividedInv, Stretch, Awake
  <2>4. Divided'
    BY <1>2, <2>1, <2>2 DEF DividedInv, Divided, Parts, InF, InG
  <2>. QED
    BY <2>3, <2>4 DEF DividedInv
<1>3. TimingInv /\ TimingInv' /\ DividedInv /\ [Next]_vars => DividedInv'
  BY <1>1, <1>2, DividedSlice, DividedTick, DividedWake DEF Next
<1>. QED
  BY <1>3, DividedInit, TimingInvariant, PTL DEF Spec

-----------------------------------------------------------------------------
(* Sorting two functions by their counts.                                    *)

\* What the parts say of counts and of the functions seen.
LEMMA PartCounts ==
  ASSUME NEW p \in Nat, NEW q \in Nat, samples \in Seq({"f", "g"}), Parts(p, q)
  PROVE  /\ Count(samples, "f") = p /\ Count(samples, "g") = q
         /\ Range(samples) = (IF p = 0 THEN {} ELSE {"f"}) \cup (IF q = 0 THEN {} ELSE {"g"})
<1>1. DOMAIN samples = 1 .. p + q
  BY LenProperties DEF Parts
<1>2. {i \in DOMAIN samples : samples[i] = "f"} = 1 .. p
  BY <1>1 DEF Parts
<1>3. {i \in DOMAIN samples : samples[i] = "g"} = p + 1 .. p + q
  BY <1>1 DEF Parts
<1>4. Cardinality(1 .. p) = p
  BY FS_Interval
<1>5. Cardinality(p + 1 .. p + q) = q
  BY FS_Interval
<1>6. Count(samples, "f") = p /\ Count(samples, "g") = q
  BY <1>2, <1>3, <1>4, <1>5 DEF Count
<1>7. \A x : x \in Range(samples) <=> \E i \in 1 .. p + q : samples[i] = x
  BY <1>1 DEF Range
<1>8. ASSUME NEW x \in Range(samples)
      PROVE  (x = "f" /\ p # 0) \/ (x = "g" /\ q # 0)
  <2>1. PICK i \in 1 .. p + q : samples[i] = x
    BY <1>7
  <2>2. (i <= p /\ p # 0) \/ (~(i <= p) /\ q # 0)
    OBVIOUS
  <2>. QED
    BY <2>1, <2>2 DEF Parts
<1>9. p # 0 => "f" \in Range(samples)
  <2>1. p # 0 => 1 \in 1 .. p + q /\ 1 <= p
    OBVIOUS
  <2>. QED
    BY <1>7, <2>1 DEF Parts
<1>10. q # 0 => "g" \in Range(samples)
  <2>1. q # 0 => p + q \in 1 .. p + q /\ ~(p + q <= p)
    OBVIOUS
  <2>. QED
    BY <1>7, <2>1 DEF Parts
<1>. QED
  BY <1>6, <1>8, <1>9, <1>10

\* One function that was seen alone is listed first,
LEMMA OnlyOne ==
  ASSUME NEW run, NEW x, Range(run) = {x}
  PROVE  Aggregated(run)[1] = x
<1>. DEFINE sorted(order) == \A i, j \in DOMAIN order : i < j => Before(run, order[i], order[j])
            order1 == [i \in 1 .. 1 |-> x]
<1>1. Cardinality({x}) = 1
  BY FS_Singleton
<1>2. SetToSeqs(Range(run)) = {f \in [1 .. 1 -> {x}] : \A i, j \in 1 .. 1 : i # j => f[i] # f[j]}
  BY <1>1 DEF SetToSeqs
<1>3. order1 \in SetToSeqs(Range(run)) /\ sorted(order1)
  BY <1>2
<1>4. Aggregated(run) \in SetToSeqs(Range(run))
  <2>. HIDE DEF order1
  <2>. QED
    BY <1>3 DEF Aggregated
<1>. QED
  BY <1>2, <1>4

\* and so is, of two, the one seen more often.
LEMMA MoreOften ==
  ASSUME NEW run, NEW x, NEW y, x # y, Range(run) = {x, y},
         Count(run, x) \in Nat, Count(run, y) \in Nat, Count(run, x) > Count(run, y)
  PROVE  Aggregated(run)[1] = x
<1>. DEFINE sorted(order) == \A i, j \in DOMAIN order : i < j => Before(run, order[i], order[j])
            order2 == [i \in 1 .. 2 |-> IF i = 1 THEN x ELSE y]
            best == Aggregated(run)
<1>1. Cardinality({x, y}) = 2
  <2>1. IsFiniteSet({x}) /\ Cardinality({x}) = 1
    BY FS_Singleton
  <2>2. Cardinality({x} \cup {y}) = 1 + 1
    BY <2>1, FS_AddElement
  <2>3. {x} \cup {y} = {x, y}
    OBVIOUS
  <2>. QED
    BY <2>2, <2>3
<1>2. SetToSeqs(Range(run))
        = {f \in [1 .. 2 -> {x, y}] : \A i, j \in 1 .. 2 : i # j => f[i] # f[j]}
  BY <1>1 DEF SetToSeqs
<1>3. Before(run, x, y) /\ ~Before(run, y, x)
  BY DEF Before
<1>4. 1 .. 2 = {1, 2} /\ 1 < 2 /\ ~(2 < 1) /\ ~(1 < 1) /\ ~(2 < 2)
  OBVIOUS
<1>5. order2 \in SetToSeqs(Range(run)) /\ sorted(order2)
  BY <1>2, <1>3, <1>4
<1>6. best \in SetToSeqs(Range(run)) /\ sorted(best)
  <2>. HIDE DEF order2
  <2>. QED
    BY <1>5 DEF Aggregated
<1>. HIDE DEF best
<1>7. /\ DOMAIN best = {1, 2} /\ best[1] \in {x, y} /\ best[2] \in {x, y} /\ best[1] # best[2]
  BY <1>2, <1>4, <1>6
<1>8. Before(run, best[1], best[2])
  BY <1>4, <1>6, <1>7
<1>9. best[1] = x
  BY <1>3, <1>7, <1>8
<1>. QED
  BY <1>9 DEF best

\* "The first entry is where the slice most likely spent its CPU time"
\* (cpu_sampler.py:261): for every configuration with sleeps at most an interval
\* late, a function with more than twice the time of the other, by three
\* intervals and the age of the first sample, is listed first, at whichever
\* moment the slice went from one to the other.
THEOREM LongestIsFirst == Spec => []LongestFirst
<1>1. ASSUME TimingInv, DividedInv, active, steady, Len(samples) < MaxSamples, Late <= Every,
             NEW p \in Nat, NEW q \in Nat, Parts(p, q), InF(p, q), InG(p, q)
      PROVE  /\ (age - inF) - FirstSampleBy >= 2 * inF + 3 * Every => Aggregated(samples)[1] = "g"
             /\ inF - FirstSampleBy >= 2 * (age - inF) + 3 * Every => Aggregated(samples)[1] = "f"
  <2>. DEFINE ep == p * Every  eq == q * Every
              tp == p * (Every + Late)  tq == q * (Every + Late)
  <2>1. /\ age \in Nat /\ inF \in Nat /\ inF <= age /\ wait \in Int /\ wait >= -Late
        /\ Late \in Nat /\ Arm \in Nat /\ Every \in Nat /\ Every >= 1
        /\ FirstSampleBy \in Nat /\ FirstSampleBy >= Every + Late
        /\ DueInG = FirstSampleBy - Late \/ DueInG = inF + Every
    BY <1>1, RunningTypes
  <2>2. /\ p + q < MaxSamples /\ samples \in Seq({"f", "g"})
    BY <1>1, RunningTypes DEF Parts
  <2>3. ASSUME NEW n \in Nat
        PROVE  /\ n * Every \in Nat /\ n * (Every + Late) \in Nat
               /\ n * (Every + Late) <= 2 * (n * Every)
               /\ (n - 1) * Every = n * Every - Every
    <3>1. /\ n * Every \in Nat /\ n * Late \in Nat /\ n * (Every + Late) \in Nat
          /\ n * (Every + Late) = n * Every + n * Late /\ n * Late <= n * Every
          /\ (n - 1) * Every = n * Every - Every
      BY <1>1, <2>1, Multiples
    <3>2. \A a, b \in Nat : b <= a => a + b <= 2 * a
      OBVIOUS
    <3>. QED
      BY <3>1, <3>2
  <2>4. /\ ep \in Nat /\ eq \in Nat /\ tp \in Nat /\ tq \in Nat
        /\ tp <= 2 * ep /\ tq <= 2 * eq
        /\ (p - 1) * Every = ep - Every /\ (q - 1) * Every = eq - Every
    BY <1>1, <2>3
  <2>5. /\ p <= q => ep <= eq
        /\ q <= p => eq <= ep
    <3>1. \A n, m, d \in Nat : n <= m => n * d <= m * d
      OBVIOUS
    <3>. QED
      BY <1>1, <2>1, <3>1
  <2>. HIDE DEF ep, eq, tp, tq
  <2>6. ep <= inF + Every
    <3>1. CASE p = 0
      <4>1. ep = 0
        BY <2>1, <3>1, Multiples DEF ep
      <4>. QED
        BY <2>1, <4>1
    <3>2. CASE p > 0
      <4>1. Arm + (ep - Every) <= inF
        BY <1>1, <2>4, <3>2 DEF InF
      <4>. QED
        BY <2>1, <2>4, <4>1
    <3>. QED
      BY <1>1, <3>1, <3>2
  <2>7. eq <= (age - inF) + Every
    <3>1. CASE q = 0
      <4>1. eq = 0
        BY <2>1, <3>1, Multiples DEF eq
      <4>. QED
        BY <2>1, <4>1
    <3>2. CASE q > 0
      <4>1. inF + (eq - Every) <= age
        BY <1>1, <2>4, <3>2 DEF InG
      <4>. QED
        BY <2>1, <2>4, <4>1
    <3>. QED
      BY <1>1, <3>1, <3>2
  <2>8. /\ Count(samples, "f") = p /\ Count(samples, "g") = q
        /\ Range(samples) = (IF p = 0 THEN {} ELSE {"f"}) \cup (IF q = 0 THEN {} ELSE {"g"})
    BY <1>1, <2>2, PartCounts
  <2>9. CASE (age - inF) - FirstSampleBy >= 2 * inF + 3 * Every
    <3>1. function = "g"
      <4>1. function # "f"
        BY <1>1, <2>1, <2>9 DEF DividedInv, Stretch
      <4>. QED
        BY <1>1, <4>1, RunningTypes
    <3>2. age + wait <= DueInG + tq
      BY <1>1, <2>2, <3>1 DEF InG, tq
    <3>3. age - Late <= DueInG + 2 * eq
      BY <2>1, <2>4, <3>2
    <3>4. 2 * inF + 3 * Every <= 2 * eq
      BY <2>1, <2>4, <2>9, <3>3
    <3>5. ~(q <= p)
      BY <2>1, <2>4, <2>5, <2>6, <3>4
    <3>6. q > p /\ q # 0
      BY <1>1, <3>5
    <3>7. p = 0 => Aggregated(samples)[1] = "g"
      <4>1. p = 0 => Range(samples) = {"g"}
        BY <2>8, <3>6
      <4>. QED
        BY <4>1, OnlyOne
    <3>8. p # 0 => Aggregated(samples)[1] = "g"
      <4>1. p # 0 => Range(samples) = {"g", "f"}
        BY <2>8, <3>6
      <4>2. /\ Count(samples, "g") \in Nat /\ Count(samples, "f") \in Nat
            /\ Count(samples, "g") > Count(samples, "f")
        BY <1>1, <2>8, <3>6
      <4>. QED
        BY <4>1, <4>2, MoreOften
    <3>9. Aggregated(samples)[1] = "g"
      BY <3>7, <3>8
    <3>10. ~(inF - FirstSampleBy >= 2 * (age - inF) + 3 * Every)
      BY <2>1, <2>9
    <3>. QED
      BY <3>9, <3>10
  <2>10. CASE inF - FirstSampleBy >= 2 * (age - inF) + 3 * Every
    <3>1. inF <= FirstSampleBy + tp
      BY <1>1, <2>2 DEF InF, tp
    <3>2. 2 * (age - inF) + 3 * Every <= 2 * ep
      BY <2>1, <2>4, <2>10, <3>1
    <3>3. ~(p <= q)
      BY <2>1, <2>4, <2>5, <2>7, <3>2
    <3>4. p > q /\ p # 0
      BY <1>1, <3>3
    <3>5. q = 0 => Aggregated(samples)[1] = "f"
      <4>1. q = 0 => Range(samples) = {"f"}
        BY <2>8, <3>4
      <4>. QED
        BY <4>1, OnlyOne
    <3>6. q # 0 => Aggregated(samples)[1] = "f"
      <4>1. q # 0 => Range(samples) = {"f", "g"}
        BY <2>8, <3>4
      <4>2. /\ Count(samples, "f") \in Nat /\ Count(samples, "g") \in Nat
            /\ Count(samples, "f") > Count(samples, "g")
        BY <1>1, <2>8, <3>4
      <4>. QED
        BY <4>1, <4>2, MoreOften
    <3>7. Aggregated(samples)[1] = "f"
      BY <3>5, <3>6
    <3>8. ~((age - inF) - FirstSampleBy >= 2 * inF + 3 * Every)
      BY <2>1, <2>10
    <3>. QED
      BY <3>7, <3>8
  <2>. QED
    BY <2>9, <2>10
<1>2. TimingInv /\ DividedInv => LongestFirst
  BY <1>1 DEF LongestFirst, DividedInv, Divided
<1>. QED
  BY <1>2, DividedInvariant, PTL
=============================================================================
