--------------------------- MODULE CadenceProofs ---------------------------
(***************************************************************************)
(* Proofs about the two timers, for every interval, slice, grace, duration *)
(* and cost of scans, and with no bound on the time explored.              *)
(***************************************************************************)
EXTENDS Cadence, TLAPS

(* The counters follow the thread through its cycle. *)
Counted ==
  /\ sampler = "scanning" => cycles = samples + 1
  /\ sampler \in {"check", "sleeping"} => cycles = samples
  /\ sampler = "sleeping" => cycles > 0

(* Where the clock stands in each phase of a cycle. *)
Timed ==
  /\ sampler = "scanning" => startAt <= clock /\ clock <= due /\ due <= startAt + MaxCost
  /\ sampler = "sleeping" => clock <= due /\ due <= deadline /\ deadline = startAt + Interval
  /\ sampler = "sleeping" => due <= clock + Slice
  /\ startAt <= clock

(* A new cycle is begun on time: it may be late by the overruns so far. *)
OnTime ==
  sampler = "check" =>
    /\ clock >= cycles * Interval
    /\ clock <= cycles * Interval + overruns * Excess

(* Outputs come one interval apart, and none after the last. *)
Printing ==
  /\ main = "waiting" <=> stopAt = Forever
  /\ main = "waiting" =>
       /\ clock <= mainDue /\ FirstOutput <= mainDue
       /\ mainDue = FirstOutput \/ ~ Once
       /\ mainDue = FirstOutput \/ Duration = Forever \/ mainDue - FirstOutput < Duration + Interval

(* The last output comes when the duration has passed since the first, and *)
(* before another interval has.                                            *)
LastPrint ==
  ~ Once /\ stopAt # Forever /\ Duration # Forever =>
    /\ stopAt - FirstOutput >= Duration
    /\ stopAt - FirstOutput < Duration + Interval

(* What is left of a slice of sleep, or of a scan, when the flag is set. *)
Stopping ==
  main = "joining" =>
    /\ sampler = "sleeping" => due <= stopAt + Slice \/ clock = due
    /\ sampler = "scanning" => startAt <= stopAt
    /\ sampler \in {"check", "done"} => clock <= stopAt + Slice \/ clock = due

(* Main never waits longer for the thread than for a slice or a scan. *)
Joining == main # "waiting" => clock <= stopAt + Longest

(* Between two cycles an interval has passed since the last one began. *)
Spaced == sampler = "check" /\ cycles > 0 => clock >= startAt + Interval

IInv ==
  /\ TypeOK
  /\ Counted /\ Timed /\ OnTime /\ NoDrift
  /\ Printing /\ LastPrint /\ Stopping /\ Joining /\ Spaced

-----------------------------------------------------------------------------
LEMMA Constants ==
  /\ Interval \in Nat /\ Interval >= 1 /\ Slice \in Nat /\ Slice >= 1
  /\ Grace \in Nat /\ FirstOutput \in Nat
  /\ Longest \in Nat /\ Slice <= Longest /\ MaxCost <= Longest
  /\ MaxCost \in Nat /\ Excess \in Nat /\ MaxCost <= Interval + Excess
  /\ Forever \notin Nat
  /\ Duration # Forever => Duration \in Nat
BY CadenceAssumption DEF FirstOutput, Excess, Longest

(* The counters and the instants stay numbers. *)
LEMMA TypeStep ==
  ASSUME TypeOK, Counted, [Next]_vars
  PROVE  TypeOK'
<1>. USE Constants DEF TypeOK, Counted, vars, samplerVars, mainVars
<1>1. CASE BeginCycle
  BY <1>1 DEF BeginCycle
<1>2. CASE LeaveLoop
  BY <1>2 DEF LeaveLoop
<1>3. CASE Rest
  BY <1>3 DEF Rest
<1>4. CASE Overrun
  BY <1>4 DEF Overrun
<1>5. CASE SleepSlice
  BY <1>5 DEF SleepSlice
<1>6. CASE StopInSleep
  BY <1>6 DEF StopInSleep
<1>7. CASE WakeUp
  BY <1>7 DEF WakeUp
<1>8. CASE Output
  BY <1>8 DEF Output
<1>9. CASE Exit
  BY <1>9 DEF Exit
<1>10. CASE Pass
  BY <1>10 DEF Pass
<1>11. CASE UNCHANGED vars
  BY <1>11 DEF vars
<1>. QED  BY <1>1, <1>2, <1>3, <1>4, <1>5, <1>6, <1>7, <1>8, <1>9, <1>10, <1>11 DEF Next

(* Each cycle begun is one scan. *)
LEMMA CountedStep ==
  ASSUME TypeOK, Counted, [Next]_vars
  PROVE  Counted'
<1>. USE Constants DEF TypeOK, Counted, vars, samplerVars, mainVars
<1>1. CASE BeginCycle
  BY <1>1 DEF BeginCycle
<1>2. CASE LeaveLoop
  BY <1>2 DEF LeaveLoop
<1>3. CASE Rest
  BY <1>3 DEF Rest
<1>4. CASE Overrun
  BY <1>4 DEF Overrun
<1>5. CASE SleepSlice
  BY <1>5 DEF SleepSlice
<1>6. CASE StopInSleep
  BY <1>6 DEF StopInSleep
<1>7. CASE WakeUp
  BY <1>7 DEF WakeUp
<1>8. CASE Output
  BY <1>8 DEF Output
<1>9. CASE Exit
  BY <1>9 DEF Exit
<1>10. CASE Pass
  BY <1>10 DEF Pass
<1>11. CASE UNCHANGED vars
  BY <1>11 DEF vars
<1>. QED  BY <1>1, <1>2, <1>3, <1>4, <1>5, <1>6, <1>7, <1>8, <1>9, <1>10, <1>11 DEF Next

(* The clock never passes what the thread waits for. *)
LEMMA TimedStep ==
  ASSUME TypeOK, Timed, [Next]_vars
  PROVE  Timed'
<1>. USE Constants DEF TypeOK, Timed, vars, samplerVars, mainVars
<1>1. CASE BeginCycle
  BY <1>1 DEF BeginCycle
<1>2. CASE LeaveLoop
  BY <1>2 DEF LeaveLoop
<1>3. CASE Rest
  BY <1>3 DEF Rest
<1>4. CASE Overrun
  BY <1>4 DEF Overrun
<1>5. CASE SleepSlice
  BY <1>5 DEF SleepSlice
<1>6. CASE StopInSleep
  BY <1>6 DEF StopInSleep
<1>7. CASE WakeUp
  BY <1>7 DEF WakeUp
<1>8. CASE Output
  BY <1>8 DEF Output
<1>9. CASE Exit
  BY <1>9 DEF Exit
<1>10. CASE Pass
  BY <1>10 DEF Pass
<1>11. CASE UNCHANGED vars
  BY <1>11 DEF vars
<1>. QED  BY <1>1, <1>2, <1>3, <1>4, <1>5, <1>6, <1>7, <1>8, <1>9, <1>10, <1>11 DEF Next

(* One more interval, and one more overrun. *)
LEMMA OneMore ==
  ASSUME NEW n \in Nat, NEW k \in Nat
  PROVE  n * k \in Nat /\ (n + 1) * k = n * k + k
OBVIOUS

(* The period holds: a rest ends one interval after the cycle began, and an overrun is charged with its excess. *)
LEMMA DriftStep ==
  ASSUME TypeOK, Counted, Timed, OnTime, NoDrift, [Next]_vars
  PROVE  OnTime' /\ NoDrift'
<1>. USE Constants DEF TypeOK, Counted, Timed, OnTime, NoDrift, vars, samplerVars, mainVars
<1>1. CASE BeginCycle
  <2>1. cycles' - 1 = cycles /\ startAt' = clock /\ overruns' = overruns /\ sampler' = "scanning"
    BY <1>1 DEF BeginCycle
  <2>. QED  BY <1>1, <2>1 DEF BeginCycle
<1>2. CASE LeaveLoop
  BY <1>2 DEF LeaveLoop
<1>3. CASE Rest
  BY <1>3 DEF Rest
<1>4. CASE Overrun
  <2>1. cycles - 1 \in Nat /\ cycles = (cycles - 1) + 1
    BY <1>4 DEF Overrun
  <2>2. cycles * Interval = (cycles - 1) * Interval + Interval
    BY <2>1, OneMore
  <2>3. (overruns + 1) * Excess = overruns * Excess + Excess
    BY OneMore
  <2>4. overruns * Excess \in Nat /\ (cycles - 1) * Interval \in Nat
    BY <2>1, OneMore
  <2>5. clock >= startAt + Interval /\ clock <= startAt + Interval + Excess
    BY <1>4 DEF Overrun
  <2>6. sampler' = "check" /\ clock' = clock /\ cycles' = cycles /\ startAt' = startAt /\ overruns' = overruns + 1
    BY <1>4 DEF Overrun
  <2>. QED  BY <2>1, <2>2, <2>3, <2>4, <2>5, <2>6
<1>5. CASE SleepSlice
  BY <1>5 DEF SleepSlice
<1>6. CASE StopInSleep
  BY <1>6 DEF StopInSleep
<1>7. CASE WakeUp
  <2>1. cycles - 1 \in Nat /\ cycles = (cycles - 1) + 1
    BY <1>7 DEF WakeUp
  <2>2. cycles * Interval = (cycles - 1) * Interval + Interval
    BY <2>1, OneMore
  <2>3. overruns * Excess \in Nat /\ (cycles - 1) * Interval \in Nat
    BY <2>1, OneMore
  <2>4. clock = startAt + Interval
    <3>1. clock = due /\ due <= deadline /\ clock >= deadline /\ deadline = startAt + Interval
      BY <1>7 DEF WakeUp
    <3>2. {clock, deadline, startAt} \subseteq Nat
      OBVIOUS
    <3>. QED  BY <3>1, <3>2, Constants
  <2>5. sampler' = "check" /\ clock' = clock /\ cycles' = cycles /\ startAt' = startAt /\ overruns' = overruns
    BY <1>7 DEF WakeUp
  <2>. QED  BY <2>1, <2>2, <2>3, <2>4, <2>5
<1>8. CASE Output
  BY <1>8 DEF Output
<1>9. CASE Exit
  BY <1>9 DEF Exit
<1>10. CASE Pass
  BY <1>10 DEF Pass
<1>11. CASE UNCHANGED vars
  BY <1>11 DEF vars
<1>. QED  BY <1>1, <1>2, <1>3, <1>4, <1>5, <1>6, <1>7, <1>8, <1>9, <1>10, <1>11 DEF Next

(* The flag is set by the last output only, and that one comes within an interval of the duration. *)
LEMMA PrintingStep ==
  ASSUME TypeOK, Printing, LastPrint, [Next]_vars
  PROVE  Printing' /\ LastPrint'
<1>. USE Constants DEF TypeOK, Printing, LastPrint, FirstOutput, vars, samplerVars, mainVars
<1>1. CASE BeginCycle
  BY <1>1 DEF BeginCycle
<1>2. CASE LeaveLoop
  BY <1>2 DEF LeaveLoop
<1>3. CASE Rest
  BY <1>3 DEF Rest
<1>4. CASE Overrun
  BY <1>4 DEF Overrun
<1>5. CASE SleepSlice
  BY <1>5 DEF SleepSlice
<1>6. CASE StopInSleep
  BY <1>6 DEF StopInSleep
<1>7. CASE WakeUp
  BY <1>7 DEF WakeUp
<1>8. CASE Output
  <2>1. CASE LastOutput
    BY <1>8, <2>1 DEF Output, LastOutput
  <2>2. CASE ~ LastOutput
    BY <1>8, <2>2 DEF Output, LastOutput
  <2>. QED  BY <2>1, <2>2
<1>9. CASE Exit
  BY <1>9 DEF Exit
<1>10. CASE Pass
  BY <1>10 DEF Pass
<1>11. CASE UNCHANGED vars
  BY <1>11 DEF vars
<1>. QED  BY <1>1, <1>2, <1>3, <1>4, <1>5, <1>6, <1>7, <1>8, <1>9, <1>10, <1>11 DEF Next

(* Once the flag is set the thread finishes a scan or a slice, and begins neither. *)
LEMMA StoppingStep ==
  ASSUME TypeOK, Timed, Printing, Stopping, [Next]_vars
  PROVE  Stopping'
<1>. USE Constants DEF TypeOK, Timed, Printing, Stopping, vars, samplerVars, mainVars
<1>1. CASE BeginCycle
  BY <1>1 DEF BeginCycle
<1>2. CASE LeaveLoop
  BY <1>2 DEF LeaveLoop
<1>3. CASE Rest
  BY <1>3 DEF Rest
<1>4. CASE Overrun
  BY <1>4 DEF Overrun
<1>5. CASE SleepSlice
  BY <1>5 DEF SleepSlice
<1>6. CASE StopInSleep
  BY <1>6 DEF StopInSleep
<1>7. CASE WakeUp
  BY <1>7 DEF WakeUp
<1>8. CASE Output
  BY <1>8 DEF Output
<1>9. CASE Exit
  BY <1>9 DEF Exit
<1>10. CASE Pass
  BY <1>10 DEF Pass
<1>11. CASE UNCHANGED vars
  BY <1>11 DEF vars
<1>. QED  BY <1>1, <1>2, <1>3, <1>4, <1>5, <1>6, <1>7, <1>8, <1>9, <1>10, <1>11 DEF Next

(* While main waits, time passes only to the end of a slice or of a scan. *)
LEMMA JoiningStep ==
  ASSUME TypeOK, Timed, Printing, Stopping, Joining, [Next]_vars
  PROVE  Joining'
<1>. USE Constants DEF TypeOK, Timed, Printing, Stopping, Joining, vars, samplerVars, mainVars
<1>1. CASE BeginCycle
  BY <1>1 DEF BeginCycle
<1>2. CASE LeaveLoop
  BY <1>2 DEF LeaveLoop
<1>3. CASE Rest
  BY <1>3 DEF Rest
<1>4. CASE Overrun
  BY <1>4 DEF Overrun
<1>5. CASE SleepSlice
  BY <1>5 DEF SleepSlice
<1>6. CASE StopInSleep
  BY <1>6 DEF StopInSleep
<1>7. CASE WakeUp
  BY <1>7 DEF WakeUp
<1>8. CASE Output
  BY <1>8 DEF Output
<1>9. CASE Exit
  BY <1>9 DEF Exit
<1>10. CASE Pass
  BY <1>10 DEF Pass
<1>11. CASE UNCHANGED vars
  BY <1>11 DEF vars
<1>. QED  BY <1>1, <1>2, <1>3, <1>4, <1>5, <1>6, <1>7, <1>8, <1>9, <1>10, <1>11 DEF Next

(* A sleep ends an interval after its cycle began, and an overrun is longer than that. *)
LEMMA SpacedStep ==
  ASSUME TypeOK, Counted, Timed, Spaced, [Next]_vars
  PROVE  Spaced'
<1>. USE Constants DEF TypeOK, Counted, Timed, Spaced, vars, samplerVars, mainVars
<1>1. CASE BeginCycle
  BY <1>1 DEF BeginCycle
<1>2. CASE LeaveLoop
  BY <1>2 DEF LeaveLoop
<1>3. CASE Rest
  BY <1>3 DEF Rest
<1>4. CASE Overrun
  BY <1>4 DEF Overrun
<1>5. CASE SleepSlice
  BY <1>5 DEF SleepSlice
<1>6. CASE StopInSleep
  BY <1>6 DEF StopInSleep
<1>7. CASE WakeUp
  BY <1>7 DEF WakeUp
<1>8. CASE Output
  BY <1>8 DEF Output
<1>9. CASE Exit
  BY <1>9 DEF Exit
<1>10. CASE Pass
  BY <1>10 DEF Pass
<1>11. CASE UNCHANGED vars
  BY <1>11 DEF vars
<1>. QED  BY <1>1, <1>2, <1>3, <1>4, <1>5, <1>6, <1>7, <1>8, <1>9, <1>10, <1>11 DEF Next

-----------------------------------------------------------------------------
LEMMA Initially == Init => IInv
<1>. SUFFICES ASSUME Init PROVE IInv
  OBVIOUS
<1>. USE Constants DEF Init
<1>1. TypeOK /\ Counted /\ Timed
  BY DEF TypeOK, Counted, Timed
<1>2. OnTime
  <2>1. overruns * Excess \in Nat /\ 0 * Interval = 0
    BY OneMore
  <2>. QED  BY <2>1 DEF OnTime
<1>3. NoDrift
  BY DEF NoDrift
<1>4. Printing /\ LastPrint /\ Stopping /\ Joining /\ Spaced
  BY DEF Printing, LastPrint, Stopping, Joining, Spaced
<1>. QED  BY <1>1, <1>2, <1>3, <1>4 DEF IInv

LEMMA Inductive == IInv /\ [Next]_vars => IInv'
BY TypeStep, CountedStep, TimedStep, DriftStep, PrintingStep, StoppingStep, JoiningStep, SpacedStep DEF IInv

LEMMA Prompt == IInv => StopsPromptly
<1>. SUFFICES ASSUME IInv, main = "joining"
              PROVE  \/ clock <= stopAt + Slice
                     \/ sampler = "scanning" /\ startAt <= stopAt
                     \/ clock = due
  BY DEF StopsPromptly
<1>1. stopAt \in Nat /\ clock \in Nat /\ due \in Nat
  BY Constants DEF IInv, TypeOK, Printing
<1>. QED  BY <1>1, Constants DEF IInv, TypeOK, Timed, Stopping

LEMMA Lasts == IInv => RunsForDuration
<1>. SUFFICES ASSUME IInv, ~ Once, Duration # Forever, main = "exited"
              PROVE  /\ clock >= FirstOutput + Duration
                     /\ clock < FirstOutput + Duration + Interval + Longest
  BY DEF RunsForDuration
<1>1. stopAt \in Nat /\ stopAt <= clock /\ clock \in Nat
  BY Constants DEF IInv, TypeOK, Printing
<1>2. clock <= stopAt + Longest
  BY DEF IInv, Joining
<1>3. stopAt - FirstOutput >= Duration /\ stopAt - FirstOutput < Duration + Interval
  BY <1>1, Constants DEF IInv, LastPrint
<1>. QED  BY <1>1, <1>2, <1>3, Constants

(* A cycle begins where Spaced says enough time has passed. *)
LEMMA NoSoonerStep ==
  ASSUME IInv, [Next]_vars, cycles' > cycles, cycles > 0
  PROVE  startAt' >= startAt + Interval
<1>1. BeginCycle
  BY DEF IInv, TypeOK, Next, LeaveLoop, Rest, Overrun, SleepSlice, StopInSleep, WakeUp,
         Output, Exit, Pass, vars, samplerVars, mainVars
<1>2. sampler = "check" /\ startAt' = clock
  BY <1>1 DEF BeginCycle
<1>. QED  BY <1>2 DEF IInv, Spaced

LEMMA Invariance == Spec => []IInv
BY Initially, Inductive, PTL DEF Spec

(* Every scan belongs to a cycle and every overrun to a scan, and the stop   *)
(* flag is never set for a later time than now (sampler.rs, the counters).   *)
THEOREM TypeCorrectness == Spec => []TypeOK
<1>1. IInv => TypeOK
  BY DEF IInv
<1>. QED  BY <1>1, Invariance, PTL

(* The sampler's period is the interval, not interval plus work: cycle n     *)
(* begins n-1 intervals after the first, late by overruns only.              *)
THEOREM PeriodHolds == Spec => []NoDrift
<1>1. IInv => NoDrift
  BY DEF IInv
<1>. QED  BY <1>1, Invariance, PTL

(* Once main has asked the sampler to stop, it is through with its sleep     *)
(* within a slice, or with its scan, and begins no other.                    *)
THEOREM StopIsPrompt == Spec => []StopsPromptly
BY Prompt, Invariance, PTL

(* --duration, from the start of the program to its exit: longer than D by   *)
(* the interval and the grace before the first output, by less than another  *)
(* interval, and by the slice or the scan that main waits for.               *)
THEOREM DurationHolds == Spec => []RunsForDuration
BY Lasts, Invariance, PTL

(* An overrun is not made up for: the next cycle begins at once, but an      *)
(* interval or more after the one before it (sampler.rs, the overrun branch).*)
THEOREM NoCatchingUp == Spec => NeverCatchesUp
<1>1. IInv /\ [Next]_vars => [cycles' > cycles /\ cycles > 0 => startAt' >= startAt + Interval]_vars
  BY NoSoonerStep
<1>. QED  BY <1>1, Invariance, PTL DEF Spec, NeverCatchesUp
=============================================================================
