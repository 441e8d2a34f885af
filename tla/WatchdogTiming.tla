--------------------------- MODULE WatchdogTiming ---------------------------
(* aiocop/core/cpu_sampler.py: how long the watchdog sleeps, from the live   *)
(* configuration, and which samples a slice therefore ends up with.          *)
(*                                                                           *)
(* Time is discrete, one tick a millisecond, and relative: the age of the    *)
(* slice that runs and what is left of the watchdog's sleep.  A sleep ends up *)
(* to Late ticks late.  A round of the watchdog takes no time (its steps are *)
(* CpuSampler's).  The slice calls one function, f, and then another, g.     *)
EXTENDS Integers, Sequences, SequencesExt

CONSTANTS
  Intervals,    \* interval_ms
  Arms,         \* arm_after_ms, Derived for None
  Idles,        \* idle_interval_ms, Derived for None
  Thresholds,   \* threshold_ms, of detect_slow_tasks and by default
  Derived,
  IdleCap,      \* the 50ms above which no derived idle sleep goes
  MaxSamples,   \* max_samples_per_slice
  Late,         \* bound: how late a sleep ends
  MaxAge        \* bound: a slice takes no longer

MinSleep == 1   \* _MIN_SLEEP_S
MinArm   == 1   \* of a derived arming age

ASSUME ConstantsAssumption ==
  /\ Intervals \cup (Arms \ {Derived}) \cup (Idles \ {Derived}) \cup Thresholds \subseteq Nat
  /\ Derived \notin Nat
  /\ {IdleCap, MaxSamples, Late, MaxAge} \subseteq Nat

VARIABLES
  interval, armOverride, idleOverride,   \* of start_cpu_sampling
  threshold,    \* _slow_task_threshold_ns
  configured,   \* _detect_slow_tasks_configured
  wait,         \* what is left of the watchdog's sleep
  stale,        \* that sleep was chosen before the threshold changed
  active,       \* a slice is published
  age,          \* how long it has been running
  function,     \* the function it is in
  inF,          \* how much of its age it spent in f
  samples,      \* its samples, each the function it was taken in
  steady        \* nothing was reconfigured since the sleep it began in

sampler == <<interval, armOverride, idleOverride>>
slice   == <<active, age, function, inF, samples, steady>>
vars    == <<sampler, threshold, configured, wait, stale, slice>>

AtLeast(floor, x) == IF x < floor THEN floor ELSE x
AtMost(cap, x)    == IF x > cap THEN cap ELSE x

\* How often a function was sampled in a run of samples.
Count(run, x) == Cardinality({i \in DOMAIN run : run[i] = x})

-----------------------------------------------------------------------------
(* Faults the properties must catch, each a changed form of a definition     *)
(* below.                                                                    *)

\* Idle sleeps have one length.
IdleFixed == IF idleOverride = Derived THEN IdleCap ELSE idleOverride

\* Zeros are taken at their word.
SleepAsTold(s) == s

\* The list of stacks is not reversed.
ByCountAscending(run) ==
  CHOOSE order \in SetToSeqs(Range(run)) :
    \A i, j \in DOMAIN order : i < j => Count(run, order[i]) <= Count(run, order[j])

\* One sample too many.
KeepOneMore(run) == IF Len(run) <= MaxSamples THEN Append(run, function) ELSE run

-----------------------------------------------------------------------------
(* _effective_arm_and_idle, from the live threshold.                         *)

Arm  == IF armOverride = Derived THEN AtLeast(MinArm, threshold \div 2) ELSE armOverride

Idle == IF idleOverride = Derived THEN AtMost(IdleCap, AtLeast(interval, Arm)) ELSE idleOverride

\* A fault: a running slice does not shorten the sleeps.
NextSleepIdle == Idle

NextSleep == IF active THEN interval ELSE Idle

Sleep(s) == AtLeast(MinSleep, s)

\* Samples beyond the cap are dropped: the earliest ones stay.
Keep(run) == IF Len(run) < MaxSamples THEN Append(run, function) ELSE run

\* format_cpu_samples: each stack once, the most frequent first; sorted() is
\* stable, so of equals the one seen first.
Before(run, s, u) ==
  \/ Count(run, s) > Count(run, u)
  \/ /\ Count(run, s) = Count(run, u)
     /\ \E i \in DOMAIN run : run[i] = s /\ \A j \in 1 .. i : run[j] # u

Aggregated(run) ==
  CHOOSE order \in SetToSeqs(Range(run)) :
    \A i, j \in DOMAIN order : i < j => Before(run, order[i], order[j])

-----------------------------------------------------------------------------
\* start_cpu_sampling has started the watchdog, which goes to sleep.
Init ==
  /\ interval \in Intervals /\ armOverride \in Arms /\ idleOverride \in Idles
  /\ threshold \in Thresholds
  /\ configured = FALSE
  /\ wait = Sleep(Idle)
  /\ stale = FALSE
  /\ active = FALSE
  /\ age = 0
  /\ function = "f"
  /\ inF = 0
  /\ samples = <<>>
  /\ steady = TRUE

\* detect_slow_tasks after start_cpu_sampling: the first call sets the threshold.
DetectSlowTasks(ms) ==
  /\ ~configured
  /\ configured' = TRUE
  /\ threshold' = ms
  /\ stale' = TRUE
  /\ steady' = FALSE
  /\ UNCHANGED <<sampler, wait, active, age, function, inF, samples>>

StartSlice ==
  /\ ~active
  /\ active' = TRUE
  /\ steady' = ~stale
  /\ UNCHANGED <<sampler, threshold, configured, wait, stale, age, function, inF, samples>>

CallG ==
  /\ active /\ function = "f"
  /\ function' = "g"
  /\ UNCHANGED <<sampler, threshold, configured, wait, stale, active, age, inF, samples, steady>>

\* The samples go to the event, and the next slice starts with none.
EndSlice ==
  /\ active
  /\ active' = FALSE /\ age' = 0 /\ function' = "f" /\ inF' = 0 /\ samples' = <<>>
  /\ UNCHANGED <<sampler, threshold, configured, wait, stale, steady>>

\* One round of _watchdog_loop: look, and choose the next sleep.
Wake ==
  /\ wait <= 0
  /\ stale' = FALSE
  /\ wait' = Sleep(NextSleep)
  /\ samples' = IF active /\ age >= Arm THEN Keep(samples) ELSE samples
  /\ UNCHANGED <<sampler, threshold, configured, active, age, function, inF, steady>>

Tick ==
  /\ wait > -Late
  /\ wait' = wait - 1
  /\ active => age < MaxAge
  /\ age' = IF active THEN age + 1 ELSE 0
  /\ inF' = IF active /\ function = "f" THEN inF + 1 ELSE inF
  /\ UNCHANGED <<sampler, threshold, configured, stale, active, function, samples, steady>>

Next ==
  \/ \E ms \in Thresholds : DetectSlowTasks(ms)
  \/ StartSlice \/ CallG \/ EndSlice \/ Wake \/ Tick

Spec == Init /\ [][Next]_vars

-----------------------------------------------------------------------------
(* Properties, of the slice that runs: it may end at any moment, and is then *)
(* reported with what it has.  Those about promptness are for slices that    *)
(* began in a sleep chosen under the threshold in force: the one sleep during *)
(* which detect_slow_tasks is called keeps its length.                       *)

\* How often a running slice is looked at, and the latest age of the first sample.
Every         == AtLeast(MinSleep, interval)
LongestSleep  == AtLeast(Every, AtLeast(MinSleep, Idle))
FirstSampleBy == AtLeast(LongestSleep + Late, Arm - 1 + Every + Late)

TypeOK ==
  /\ wait >= -Late
  /\ \E s \in {MinSleep, IdleCap} \cup Intervals \cup (Idles \ {Derived}) : wait <= s
  /\ age \in 0 .. MaxAge /\ inF \in 0 .. age
  /\ samples \in Seq({"f", "g"}) /\ Len(samples) <= MaxSamples
  /\ ~active => age = 0 /\ samples = <<>>

\* "Sampling begins around the midpoint of any slice that goes on to violate"
\* (cpu_sampler.py:92): with derived settings and a threshold of at least twice
\* the interval, sleeps being late included, no slice reaches the threshold
\* without a sample, however the idle sleep it began in fell.
ViolatorsSampled ==
  /\ active /\ steady /\ age >= threshold
  /\ armOverride = Derived /\ idleOverride = Derived
  /\ 2 * (Every + Late) <= threshold
  => samples # <<>>

\* "Few samples for a long slice is itself a signal" (cpu_sampler.py:21): while
\* the watchdog gets to run, every configuration keeps samples coming, one each
\* interval from the arming age or the first look on.
FewSamplesMeanStarvation ==
  active /\ steady /\ age > FirstSampleBy =>
    Len(samples) >= AtMost(MaxSamples, 1 + (age - 1 - FirstSampleBy) \div (Every + Late))

\* No configuration, zeros included, takes samples faster than one a millisecond
\* or one an interval: a count is a measure of time.
CountsMeasureTime ==
  active /\ steady =>
    Len(samples) <= IF age < Arm THEN 0 ELSE 1 + (age - Arm) \div Every

\* "The first entry is where the slice most likely spent its CPU time"
\* (cpu_sampler.py:261): a function that had more than twice the time of the
\* other is listed first, when that is by three intervals and the time the first
\* sample may take to come, and the cap has not cut samples off.
LongestFirst ==
  active /\ steady /\ samples # <<>> /\ Len(samples) < MaxSamples /\ Late <= Every =>
    /\ (age - inF) - FirstSampleBy >= 2 * inF + 3 * Every => Aggregated(samples)[1] = "g"
    /\ inF - FirstSampleBy >= 2 * (age - inF) + 3 * Every => Aggregated(samples)[1] = "f"
=============================================================================
