------------------------------ MODULE Cadence ------------------------------
(***************************************************************************)
(* When things happen: the sampler thread of src/sampler.rs, which starts  *)
(* a scan every interval however long the scans take, and the main loop of *)
(* src/bin/vitals.rs, which prints on a timer of its own and finally stops *)
(* the sampler.  The two share only the snapshot and the stop flag.        *)
(* A clock counts units of time; timers are exact; printing takes no time. *)
(***************************************************************************)
EXTENDS Integers

CONSTANTS
  Interval,   \* --interval
  Grace,      \* what main waits beyond the interval before it first prints (120 ms)
  Slice,      \* the longest sleep that does not look at the stop flag (50 ms)
  Once,       \* --once
  Duration,   \* --duration, or Forever
  Forever,
  MaxCost,    \* the longest a scan takes
  MaxClock    \* bound: time explored

ASSUME CadenceAssumption ==
  /\ Interval \in Nat \ {0} /\ Grace \in Nat /\ Slice \in Nat \ {0}
  /\ Once \in BOOLEAN
  /\ Forever \notin Nat
  /\ Duration = Forever \/ Duration \in Nat
  /\ MaxCost \in Nat /\ MaxClock \in Nat

VARIABLES
  clock,
  sampler,   \* the thread: "check", "scanning", "sleeping" or "done"
  due,       \* when the scan in progress ends, or the present slice of sleep
  deadline,  \* when the sleep ends
  startAt,   \* cycle_start of the present cycle
  cycles,    \* cycles begun
  samples,   \* scans completed
  overruns,  \* SamplerHandle.overruns
  main,      \* the main thread: "waiting", "joining" or "exited"
  mainDue,   \* when main prints next
  shown,     \* outputs that had a snapshot to show
  stopAt     \* when the stop flag was set, or Forever

samplerVars == <<sampler, due, deadline, startAt, cycles, samples, overruns>>
mainVars    == <<main, mainDue, shown, stopAt>>
vars        == <<clock, samplerVars, mainVars>>

TypeOK ==
  /\ sampler \in {"check", "scanning", "sleeping", "done"}
  /\ main \in {"waiting", "joining", "exited"}
  /\ {clock, due, deadline, startAt, cycles, samples, overruns, mainDue, shown} \subseteq Nat
  /\ samples <= cycles /\ overruns <= samples
  /\ stopAt = Forever \/ stopAt \in 0 .. clock

-----------------------------------------------------------------------------
(* Plausible defects, each in place of the definition of the same shape. *)
RestWholeInterval ==
  /\ sampler = "scanning" /\ clock = due
  /\ clock - startAt < Interval
  /\ samples' = samples + 1
  /\ deadline' = clock + Interval
  /\ due' = clock
  /\ sampler' = "sleeping"
  /\ UNCHANGED <<clock, startAt, cycles, overruns, mainVars>>

RestToTheGrid ==
  /\ sampler = "scanning" /\ clock = due
  /\ clock - startAt < Interval
  /\ samples' = samples + 1
  /\ deadline' = cycles * Interval
  /\ due' = clock
  /\ sampler' = "sleeping"
  /\ UNCHANGED <<clock, startAt, cycles, overruns, mainVars>>

OverrunDropsSample ==
  /\ sampler = "scanning" /\ clock = due
  /\ clock - startAt >= Interval
  /\ overruns' = overruns + 1
  /\ sampler' = "check"
  /\ UNCHANGED <<clock, due, deadline, startAt, cycles, samples, mainVars>>

SleepWhole ==
  /\ sampler = "sleeping" /\ clock = due
  /\ clock < deadline /\ stopAt = Forever
  /\ due' = deadline
  /\ UNCHANGED <<clock, sampler, deadline, startAt, cycles, samples, overruns, mainVars>>

LastOutputLate ==
  Once \/ (Duration # Forever /\ clock - (Interval + Grace) > Duration)

-----------------------------------------------------------------------------
(* Rates need two samples, so main first prints one interval away. *)
FirstOutput == Interval + Grace

Init ==
  /\ clock = 0
  /\ sampler = "check" /\ due = 0 /\ deadline = 0 /\ startAt = 0
  /\ cycles = 0 /\ samples = 0 /\ overruns = 0
  /\ main = "waiting" /\ mainDue = FirstOutput
  /\ shown = 0 /\ stopAt = Forever

BeginCycle ==
  /\ sampler = "check" /\ stopAt = Forever
  /\ sampler' = "scanning"
  /\ startAt' = clock
  /\ cycles' = cycles + 1
  /\ \E cost \in 0 .. MaxCost : due' = clock + cost
  /\ UNCHANGED <<clock, deadline, samples, overruns, mainVars>>

LeaveLoop ==
  /\ sampler = "check" /\ stopAt # Forever
  /\ sampler' = "done"
  /\ UNCHANGED <<clock, due, deadline, startAt, cycles, samples, overruns, mainVars>>

(* The scan has been handed over; what is left of the interval is slept. *)
Rest ==
  /\ sampler = "scanning" /\ clock = due
  /\ clock - startAt < Interval
  /\ samples' = samples + 1
  /\ deadline' = clock + (Interval - (clock - startAt))
  /\ due' = clock
  /\ sampler' = "sleeping"
  /\ UNCHANGED <<clock, startAt, cycles, overruns, mainVars>>

Overrun ==
  /\ sampler = "scanning" /\ clock = due
  /\ clock - startAt >= Interval
  /\ samples' = samples + 1
  /\ overruns' = overruns + 1
  /\ sampler' = "check"
  /\ UNCHANGED <<clock, due, deadline, startAt, cycles, mainVars>>

SleepSlice ==
  /\ sampler = "sleeping" /\ clock = due
  /\ clock < deadline /\ stopAt = Forever
  /\ due' = IF clock + Slice < deadline THEN clock + Slice ELSE deadline
  /\ UNCHANGED <<clock, sampler, deadline, startAt, cycles, samples, overruns, mainVars>>

StopInSleep ==
  /\ sampler = "sleeping" /\ clock = due
  /\ clock < deadline /\ stopAt # Forever
  /\ sampler' = "done"
  /\ UNCHANGED <<clock, due, deadline, startAt, cycles, samples, overruns, mainVars>>

WakeUp ==
  /\ sampler = "sleeping" /\ clock = due
  /\ clock >= deadline
  /\ sampler' = "check"
  /\ UNCHANGED <<clock, due, deadline, startAt, cycles, samples, overruns, mainVars>>

-----------------------------------------------------------------------------
(* Duration is measured from the first output. *)
LastOutput ==
  Once \/ (Duration # Forever /\ clock - FirstOutput >= Duration)

(* There is a snapshot from the second sample on. *)
Output ==
  /\ main = "waiting" /\ clock = mainDue
  /\ shown' = IF samples >= 2 THEN shown + 1 ELSE shown
  /\ IF LastOutput
       THEN main' = "joining" /\ stopAt' = clock /\ UNCHANGED mainDue
       ELSE mainDue' = clock + Interval /\ UNCHANGED <<main, stopAt>>
  /\ UNCHANGED <<clock, samplerVars>>

Exit ==
  /\ main = "joining" /\ sampler = "done"
  /\ main' = "exited"
  /\ UNCHANGED <<clock, samplerVars, mainDue, shown, stopAt>>

(* Time passes when nobody has anything to do now. *)
Pass ==
  /\ clock < MaxClock
  /\ sampler \in {"scanning", "sleeping"} => due > clock
  /\ sampler # "check"
  /\ main = "waiting" => mainDue > clock
  /\ main = "joining" => sampler # "done"
  /\ main # "exited"
  /\ clock' = clock + 1
  /\ UNCHANGED <<samplerVars, mainVars>>

Next ==
  \/ BeginCycle \/ LeaveLoop \/ Rest \/ Overrun \/ SleepSlice \/ StopInSleep \/ WakeUp
  \/ Output \/ Exit
  \/ Pass

Spec == Init /\ [][Next]_vars

-----------------------------------------------------------------------------
(* By how much a scan can outlast the interval. *)
Excess == IF MaxCost > Interval THEN MaxCost - Interval ELSE 0

(* The period does not drift: the n-th cycle begins n-1 intervals after    *)
(* the first, plus at most the excess of the scans counted as overruns.    *)
(* Without the correction a period would be interval plus work.            *)
NoDrift ==
  cycles > 0 =>
    /\ startAt >= (cycles - 1) * Interval
    /\ startAt <= (cycles - 1) * Interval + overruns * Excess

(* A stop request is honoured within one slice of sleep, whatever the      *)
(* interval, or when the scan in progress ends; none begins after it.      *)
StopsPromptly ==
  main = "joining" =>
    \/ clock <= stopAt + Slice
    \/ sampler = "scanning" /\ startAt <= stopAt
    \/ clock = due

(* --once: "one snapshot to stdout", "print one snapshot and exit". *)
OncePrintsSnapshot == Once /\ main = "exited" => shown = 1

(* What main can have to wait for once it has set the flag. *)
Longest == IF MaxCost > Slice THEN MaxCost ELSE Slice

(* --duration D, without --once, from the start of the program to its end. *)
(* Not "run for D then exit" (vitals.rs:38): D is counted from the first   *)
(* output, which comes after the interval and the grace; it is over at the *)
(* next output, less than an interval away; and then main waits for the    *)
(* thread.                                                                 *)
RunsForDuration ==
  ~ Once /\ Duration # Forever /\ main = "exited" =>
    /\ clock >= FirstOutput + Duration
    /\ clock < FirstOutput + Duration + Interval + Longest

(* A late cycle is not made up for: the next one begins an interval after  *)
(* it at the earliest, whatever the grid of the first says.                *)
NeverCatchesUp ==
  [][cycles' > cycles /\ cycles > 0 => startAt' >= startAt + Interval]_vars
=============================================================================
