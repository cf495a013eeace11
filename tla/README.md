# A verification project for vitals

`vitals` samples a Linux machine from `/proc`, turns pairs of samples into
rates, keeps a short history and raises alerts from user-written rules. This
directory holds TLA+ models of its logic, TLC configurations that check them on
small instances, and TLAPS proofs of the properties that matter most, for every
value of the constants. Paths in this file are relative to the root of the
repository; `PROJECT.json` maps every definition to the lines it models.

## The system

| Component | Code | State | Operations | Hard behaviour | What makes it correct |
|---|---|---|---|---|---|
| Alert engine | `src/rules.rs` 278-531 | map subject -> (phase, since, seen), tick counter | `evaluate`, `active` | sustain timers that restart, deadband, subjects that disappear mid-alert | one Fired when a breach was held without a gap, one end for each alert, nothing left of a subject that is gone |
| Rule parser | `src/rules.rs` 40-274, `src/units.rs` 111-151 | rules and errors so far | `parse_rules`, `parse_value`, `parse_size`, `parse_duration` | twelve checks in order; one bad line must not take the others with it | each line gives its rule or its error; accepted rules are usable |
| Ring | `src/ring.rs` | slots, head, len, pushed | `push`, `get`, `newest`, `oldest`, `iter_chrono`, `clear` | the push that wraps, the full ring, capacity 0, clear then push | it is a log of the last n pushes |
| Sampler | `src/sampler.rs` | snapshot, history, events, alerts, error behind one RwLock; stop flag; counters | `spawn`, one cycle, `stop`, `Drop` | a thread against readers of the lock, a stop request in every phase, failed scans | readers see whole cycles and never wait on a scan; stop returns, loses no result and freezes the state |
| Cadence | `src/sampler.rs` 127-198, `src/bin/vitals.rs` 90-140 | clocks and deadlines | the cycle's sleep, main's loop | overruns, a stop during a sleep, two threads synchronised by time alone | no drift and no catching up; prompt stop; a run with `--duration` lasts neither too short nor too long |
| Collector | `src/sample.rs` | none between scans | `collect` | processes are born, die and are recycled between two file reads | nobody missed whose entry was read, nobody invented |
| Delta | `src/delta.rs` | none | `diff` | counters that go backwards, new processes, unreadable io files, cores and interfaces that come and go | a rate is what was measured, of one process, core or machine |
| `/proc` parsers | `src/procfs.rs` | none | `parse_*`, `CpuTimes::total`, `busy` | a command name may hold parentheses and spaces; guest time is counted twice; old kernels lack fields | fields are counted from the last parenthesis; the sums mean what their names say |
| Command line | `src/bin/vitals.rs` | the handle, the clock | `main`, `render_*` | it polls a thread it does not wait for | see Cadence |

The sampler thread owns the collector, the engine and the previous sample. Each
cycle it calls `collect`, `diff` and `evaluate` without a lock, then takes the
write lock and hands the results to `Shared`, whose two rings hold the history
and the event log. The main thread, and any other reader, takes the read lock.
The stop flag is the only thing main writes. The parser runs once, before the
engine is built.

## Modules

    RuleTypes ── RuleParser ── MCRuleParser            LogOps ── BoundedLog
        │            └──────── RuleParserProofs           │          ▲ implements
    RuleEngine ── RuleEngineHistory ── MCRuleEngine       ├── Ring ──┘── RingProofs
        │               │  └────────── RuleEngineProofs   └── Sampler ── SamplerProofs
        │               ▼ implements                             ▼ implements
        │         AlertContract                             Publication
        ▼ instance
    Monitor ── MCMonitor     ProcFiles ── Kernel ── Collector ── Monitor ── MonitorProofs
        ▲ instance             │ └─────── Delta ── SystemRates ── MCSystemRates
      Delta                    └ ProcFilesProofs ──── SystemRatesProofs
                             Cadence ── CadenceProofs

- **RuleEngine.** One action, `Evaluate`, is one call of `Engine::evaluate`:
  every rule, every subject, then the reaping pass. A snapshot is any
  assignment of readings to the live processes; the guard on `sampled` says
  that it is computed against the sample before it, so that the snapshot's `is_new` is what
  `diff` makes of it. Readings are integers, since only their order is used.
- **RuleEngineHistory** adds two history variables, the instant since when each
  subject has breached and whether it has stayed beyond its clear boundary
  since its alert began. **AlertContract** is the abstract specification in those terms: an alert
  begins when a breach has lasted its sustain without a gap, ends when the
  reading leaves the deadband or is no longer there, and each of these is
  announced once.
- **RuleParser.** One line per step: blank, refused or accepted. `Refusal` is
  the sequence of checks of the code; a token is opaque, and the constants
  `Numeral` and `Pattern` say what the conversions see in it. `Said` gives the
  grammar of the file's header again, field by field and in no order, as the
  reference: eight words, or ten with a clear value. Fractions, NaN and infinity
  are left out.
- **Ring** keeps `slots`, `head` and `len` as the code does and maps to
  **BoundedLog**, a sequence, by `IterChrono`. **LogOps** holds the bounded
  append they share with the sampler.
- **Sampler** has one action per step of the thread that another thread can
  tell apart: the flag check, the scan (three outcomes), the request for the
  lock, its grant, each push under it, the swap, the rest. Readers request,
  hold and release; the owner stops and joins. The lock is the standard
  library's on Linux, where a waiting writer keeps new readers out. The engine
  appears as a set of active alerts and an event per change.
  **Publication** is what all this promises: whole cycles, one following from
  the other, until the state is closed. A cycle counts as published when the
  write lock is taken, since nobody can look before the hand-over is done.
- **Cadence** is the same thread and main's loop on a clock, with scan costs
  chosen freely; `Pass` lets time go by when nobody has anything to do.
- **ProcFiles** has the parsers. The stat file of a process is a sequence of
  tokens, so that a name may hold the very marks the parser looks for; the
  other files are lines of a key and a number or of a label and its columns.
- **Kernel** is external: the process table, from the ways the collector reads
  it, and the text of a process's files. **Collector** has one action per file
  read, so that the table may change between any two, and takes each stat line
  through `ParsePidStat`. Listing is one step per entry; `SkipEntry` is the
  entry at which `readdir` fails and the scan goes on. `stayed`, the processes a
  scan owes, are those that lived through it but for the ones skipped.
- **Delta** is `diff` as operators: for a process newness and one io counter,
  for the system CPU, cores, memory and network.
- **Monitor** is the sampler's loop put together: a scan of **Collector**, then
  `ProcRates`, then `Evaluate` of an instance of **RuleEngine** on what comes
  out, with failed scans in between. What `RuleEngineHistory` chooses freely,
  missing readings and newness, here comes from the process table and from the
  `is_new` that `ProcRates` computes: the engine reads it off the snapshot.
- **SystemRates** sets the system-wide rates against a machine whose cores and
  interfaces come and go. Its scans are one step: no property relates one of
  the three files to another.

## Runs

| Run | What it shows | Bounds, and why they are enough |
|---|---|---|
| `engine_mixed` | the contract, with deadbands and a zero sustain: a rising system rule that waits, and a falling rule on a write rate | readings 0..2 are below, at and above each boundary; a sustain of 2 and steps up to `MaxStep` reach, skip and miss the due instant; one process that exits, returns, changes name and whose io file comes and goes. More rules and processes are covered by the proofs |
| `rule_parser` | the parser against its grammar, and what the engine assumes of rules | lines that differ from a good one in one or two fields, since a check reads at most two; files of two lines; tails of no, one, two and three tokens. The last is accepted against the grammar, and the property says so |
| `ring_three` | the ring is a bounded log | three slots and enough pushes to wrap twice, with clears between; every other capacity, the clamped 0 included, is covered by the proofs |
| `sampler` | it implements `Publication`; readers see whole cycles and always get in; stop returns, nothing changes afterwards, and no result that was measured is lost by it, in whatever phase it comes | two readers; more events than the log holds; failed scans between good ones; a stop in every phase |
| `cadence_watch` | no drift, no catching up, prompt stop, and the length of a run with `--duration` from start to exit | interval 100 ms, grace 120 ms, slice 50 ms in units of 10 ms; scans up to 130 ms, so both rest and overrun occur |
| `monitor` | nobody missed or invented under churn; rates, newness and alerts are earned; dead processes lose theirs and new ones have none, also after scans that fail half way | `Churn`: one scan of two pids with four births, so that both may be recycled under it, and stat files of every kind. `Long`: four scans of one pid with two owners that write up to two bytes, any scan failing: one more than baseline, pending and due need. `Halfway`: three scans of two pids, of which the second may have a stat file that cannot be read when the first has been, or be skipped by the listing: a sample, a failure and a sample again. Names hold parentheses, spaces and digits, or nothing |
| `system` | percentages, cores, network and memory against the machine | two cores and one link besides `lo`, which have been in use before; three events between any scans, one more than a core leaving and another working needs; counters modulo 2, so that they wrap; memory with, without and with none available |

The runs below are expected to be violated; each is a place where the code and
what the repository says of it differ.

| Run | What the trace shows |
|---|---|
| `engine_gone` | `ClearedGone` ("The process being watched exited", `rules.rs:304`) for a live process whose io file became unreadable or whose name changed |
| `cadence_once_slow` | `--once` exits with nothing printed when the first two scans are not finished by interval + 120 ms |
| `monitor_recycled` | a pid recycled between its stat and io reads: a delta across two processes (`sample.rs:12`). The result saturates, so traffic is hidden, never invented: `NoPhantomTraffic` |
| `monitor_unmeasured` | a falling rule fires on the rate of 0 of a process whose io file has only just become readable (`delta.rs:170`, `sample.rs:18`) |
| `system_net` | all traffic since boot in one interval after a failed read of `net/dev` (`delta.rs:26` speaks of no garbage spike) |

Differences that a passing property states as the code has them:

- `... clear 2 please` is accepted: trailing tokens are looked for only where
  `clear` is expected (`rules.rs:250`), and the grammar (`rules.rs:6`) has none.
  `RulesSayWhatLinesSay` has it that such a line says nothing by the grammar and
  is taken for its first ten tokens.
- `--duration D` is "run for D then exit" (`vitals.rs:38`). D is counted from the
  first output, interval + 120 ms after the start (`vitals.rs:100-102`), and only
  compared at outputs (`vitals.rs:133`); then main waits for the thread. A run
  lasts between D + interval + 120 ms and an interval and a scan more, which is
  `RunsForDuration`: `--interval 100ms --duration 200ms` stops after 420 ms.
- A reported `MemAvailable: 0` is taken for "very old kernels" without the field
  (`procfs.rs:285`), so that used memory is not "total minus MemAvailable"
  (`procfs.rs:241`) but less by what is shared: `UsedCannotBeHandedOut`.

Smaller differences, not run:

- `rules.rs:260` says that an alert with its clear value on the wrong side would
  latch; by `still_active` it would clear at once and flap.
- A reading equal to the clear value clears, though the header says below.
- `system rss` is accepted and never evaluated; NaN and infinity parse.
- Main writes its output under the read guard. Once the sampler waits for the
  lock, other readers wait for main too ("readers must not block each other",
  `sampler.rs:19`). `LockFairSpec` assumes that a guard is dropped in the end.
- After an overrun the next scan starts at once, without the rest that
  `docs/DESIGN.md:78` speaks of. `NoDrift` and `NeverCatchesUp` say what this does
  to the period: it is late by the excess, and is not shortened afterwards.
- One stat file that gives EACCES fails the whole scan (`sample.rs:145`), though
  `README.md:66` says that the collector tolerates it; a `/proc` mounted with
  `hidepid=1` answers so for every process of another user. `monitor` has it as
  `StatUnreadable`.
- A process whose directory entry `readdir` fails at is left out of a scan that
  succeeds, and not counted in `vanished`, which is there so that a loss is
  "surfaced rather than hidden" (`sample.rs:49`). Its alerts end as
  `ClearedGone`, and it is new in the next snapshot though it lived all along.
- `iowait` may go back, so that busy time is not bounded by the total as
  `delta.rs:20` has it; the clamp hides this (`PercentsAreBounded`).
- `--interval 0` is accepted; it is outside `CadenceAssumption`.
- An io file that is gone is not counted in `io_denied`.
- A negative threshold is accepted. A process without a reading then counts as
  above it, so `AlertsAreEarned` speaks of thresholds from 0 up.

`CHECK_DEADLOCK FALSE` is given where a bound ends the run or the program
stops. `ring_three` and `sampler` are checked for deadlock.

## Fairness

Safety needs none. `LockFairSpec` of Sampler assumes of the lock that a
hand-over once begun goes on (the code between `write()` and the end of the
block has no wait but the lock), that readers drop their guards, and that a
reader which finds the lock free again and again gets it (strong fairness: the
futex lock wakes its waiting readers when no writer is queued). Nothing is
assumed of scans and sleeps, so `ReadersGetIn` holds even if one never ends.
`StopReturns` needs more, and says so: its premise `ThreadFairness` is that
scans and sleeps end and the thread is scheduled. A reader is never made to
read, nor the owner to stop. The collector needs none: its loop runs over a list
fixed beforehand and tries nothing twice.

## Proofs

All are for every value of the constants that meets the named assumptions.

- **RuleEngineProofs.** The inductive invariant `IInv` is `TypeOK` with
  `LiveSubjects`: every entry of the map was seen in the present tick. That
  is what makes the reaping pass exact: `NextMap` shows that an evaluation
  leaves the subjects it observed and did not drop, and no other.
  `TypeCorrectness`, `SubjectsAreLive` and `Newcomers` follow. `HInv` adds the
  types of the history variables and `MapMatchesReadings` (`MapMatches`):
  Pending entries are exactly the breaches not due yet, Firing ones those still
  beyond the clear boundary. `HistoryOnlyWatches` shows that the history
  constrains nothing, and `EngineImplementsContract` that each evaluation is
  one step of `AlertContract`. The assumption on the rules is
  `RulesAssumption`: each is in `UsableRule`.
- **RuleParserProofs.** `AcceptedRulesAreUsable`: every accepted rule is in
  `UsableRule`, which discharges that assumption. The lemma `RuleOfType` goes
  through the checks of `Refusal` one by one. `LinesAreAnswered`, from `AInv`,
  counts answers against the lines that say something, in files of any length.
  `ParserFollowsTheGrammar` has two halves. `VerdictIsTheGrammars` is about one
  line: by `RefusedUnlessPasses` the first failing check is the same as all
  checks together (`Passes`), and these are what the grammar asks for
  (`PassingIsSaid`, `SaidPasses`, with `ParseIsMeant` for the numbers); a line of
  more than ten tokens is read as its first ten (`TailIgnored`). `RInv` is
  about the file: the k-th rule is that of the k-th accepted line, which needs
  the count of accepted lines up to each. It assumes that a line is a sequence
  (`LinesAssumption`).
- **RingProofs.** `TypeCorrectness` and `LiveRange` from `IInv`, `Ends`, and
  `RingImplementsLog` by a lemma on sums modulo the capacity.
- **SamplerProofs.** For any number of readers, any finite set of alerts and any
  lengths of the logs. `ReadersSeeWholeCycles` speaks of moments when somebody
  reads and says nothing of the hand-over, so `IInv` follows it: `Locked`, who
  holds the lock in which phase; `Linked`, how far history and snapshot have
  got; and `Told`, that the log followed by the events still queued says last of
  each alert whether it will be on. `PushTells` shows that moving one event
  keeps this, though a full log drops its oldest entry, and `TransitionsTell`
  that an evaluation's events establish it. `WholeCycles` and
  `FrozenOnceJoined` follow. `NothingLostByStop` needs `Numbered` besides: between
  a scan and its hand-over the thread does not look at the flag, so that the
  baseline is the last sample taken whenever it ends. The finite set of alerts is
  in `SamplerAssumption`;
  it holds because rules and processes are finite in number.
- **CadenceProofs.** For every interval, slice, duration and cost of scans, and
  without `MaxClock` mattering. `IInv` says where the clock stands in each phase
  (`Timed`), that a cycle is begun on time up to the overruns so far (`OnTime`),
  that an interval has passed since it began when the next one does (`Spaced`),
  how outputs are spaced (`Printing`) and when the last one comes (`LastPrint`),
  what is left to do when the flag is set (`Stopping`) and how long main waits for
  that (`Joining`). `PeriodHolds`, `NoCatchingUp`, `StopIsPrompt` and
  `DurationHolds` follow, the last from the start of the program to its exit; the
  products of counters and intervals are handled by `OneMore`.

- **ProcFilesProofs.** `AnyNameParses`: whatever tokens a process's name is made
  of, parentheses and spaces included, `ParsePidStat` gives that name and counts
  the fields after it, provided only that no column holds a space or a closing
  parenthesis. Its lemmas say what `Find`, `RFind` and `Words` return; `Words` is
  defined by counting, so that no induction over the text is needed.
- **MonitorProofs.** For any number of pids, births, scans and rules, any names,
  any sizes of `Sizes`, under `KernelAssumption` and `MonitorAssumption` (the
  rules are usable ones; `System` is no process). The scan needs `CInv`, since
  `NothingMissed` speaks only of its end: `Met`, that who stayed through the scan
  and was not skipped was met by it; `Listed`, that the pids still to read ascend and were met;
  `Current`, that the stat line in hand is of the pid at the head; `Awaited`, that
  who stayed and is readable is in the sample or still to be read; `Counted`, that
  `vanished` is at most the number of processes met and gone whose pid has been
  passed, and that what is counted leaves room for the pids left; and `Dated`,
  that no process is born after the last birth. `ParsedIs` goes from the text of
  a process's file to its fields by `AnyNameParses`. The loop needs `MInv`:
  `Numbered` and `Baselined` date the samples; `Witnessed`, that a sample agrees
  with what the process table saw while it was taken; `Metered`, that under a pid
  no more has been written since its io file was read than the process that has
  it now may add to the reading, and `Follows`, the same between two samples;
  `Compared`, that the snapshot is their difference; `Earned`, that a pending
  alert has not waited for longer than its process has been writing. For the
  engine's part the lemmas of
  `RuleEngineProofs` are instantiated (`Facts`); they hold for any snapshot, so
  also for those that come out of `ProcRates`. `NoneMissed`, `NoneInvented` and
  `VanishedAreDead` are theorems of the collector alone and `MonitorCollects`
  carries them over; `RatesAreTraffic`, `NewIsNew`, `FiredAlertsAreEarned`,
  `TheDeadAreReaped` and `TheNewAreIgnored` are of the whole.

- **SystemRatesProofs.** For any finite number of cores and interfaces, coming
  and going as they like, any width of the counters, any states of the memory and
  any number of events between two scans, under `SystemAssumption`. The sums are
  folds over finite sets, which nothing in the library speaks of; the library's
  induction takes a predicate as a parameter, so `AllNumbers` and `AllSubsets`
  state it for sets of numbers and of subsets instead, and `SumApart`, `SumOfSums`,
  `SumsCompare` and `SumAlong` rest on them. `StatParsed`, `NetCounted` and
  `MemoryParsed` take the text of each file through its parser, whatever order
  the interfaces are listed in; `Remainders` and `CounterGrows` are the argument
  about counters: one that lost its turns, or was started anew, shows at most what
  was really received since the earlier sample. The inductive invariant `SInv` is
  `Sound`, what the machine can be, where `Wired` says that an interface which is
  not there has received all that it ever did before its next counter starts;
  `Remembered`, that the sample held gives the columns and the bytes of the
  machine at the last scan, from which it can only have gone on (`Since`); and
  `Typed` and `Reported`, the properties, since the rates stay while the machine
  goes on. `CpuIsBusy`, `CoresReported`, `NetRateIsReal`, `UsedIsInUse` and
  `PercentagesAre` follow.

Only model-checked: that the sampler implements `Publication`; the runs that are
expected to be violated; and everything temporal with fairness, which the
provers installed do not reach.

## Not modelled

Rendering, the auxiliary vector and CPU count, the wording of errors and
numbers: pure output or input. Socket attribution is a count nothing else reads,
and `parse_net_tcp_inodes` is called by tests only. Of a process the CPU rate
and the other counters are the code of the modelled ones once more, with the
clamp and the saturation covered by `Pct` and `IoRate`; the sort by load changes
an order no property looks at. `ticks` is only counted. Numbers are whole: the
division by the seconds between two samples is left out, so rates are amounts
per interval.

## Plan

1. Done: the engine, its history and contract; the parser; the ring; the sampler
   and the publication it implements; the cadence; the `/proc` parsers; the
   collector, `diff` and the engine composed; the system-wide rates. Proofs of
   every safety invariant that a run checks.
2. Left: the proof that the sampler implements `Publication`; the per-process
   CPU rate.
