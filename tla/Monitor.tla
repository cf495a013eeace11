------------------------------ MODULE Monitor ------------------------------
(***************************************************************************)
(* One cycle after another, as the loop of src/sampler.rs runs them: the   *)
(* collector scans a process table that changes meanwhile, diff compares   *)
(* the sample with the one before, and the alert engine evaluates what     *)
(* comes out.  A failed scan leaves the earlier sample in place and the    *)
(* engine alone.  Time is counted in scans.                                *)
(***************************************************************************)
EXTENDS Collector

CONSTANTS
  Rules,  \* the rules of the engine: process rules on write_bps
  System  \* the subject of a system-wide rule; there is none here

INSTANCE Delta

VARIABLES
  before,      \* the sample the last snapshot was computed against
  snapshot,    \* the last snapshot, or None
  states,      \* Engine.states
  tick,        \* Engine.tick
  events,      \* what the last cycle's evaluate returned
  then, last,  \* history: what the process table saw of before and of sample
  since        \* history: key -> the scan since which its pid has written
               \* something between every two samples

mvars == <<vars, before, snapshot, states, tick, events, then, last, since>>

(* The snapshots come from diff: the engine's own choice of them, Snapshots*)
(* and its Values, is not used.                                            *)
Engine ==
  INSTANCE RuleEngine WITH
    Comms   <- Seq(Token),
    Keys    <- (1 .. MostPids) \X (1 .. MostBirths),
    Values  <- {},
    MaxStep <- MostScans,
    MaxTick <- MostScans,
    now     <- IF sample = None THEN 0 ELSE sample.scan,
    sampled <- IF sample = None THEN {} ELSE DOMAIN sample.procs

ASSUME MonitorAssumption ==
  /\ Rules \in Seq(Engine!UsableRule)
  /\ System \notin (1 .. MostPids) \X (1 .. MostBirths)

-----------------------------------------------------------------------------
(* What evaluate reads of a snapshot: an unreadable io file gives no value. *)
Observation(snap) ==
  [system |-> <<>>,
   procs  |-> [k \in DOMAIN snap |->
                 [comm     |-> snap[k].comm,
                  is_new   |-> snap[k].is_new,
                  readings |-> IF snap[k].write_bps = None THEN <<>>
                               ELSE [metric \in {"write_bps"} |-> snap[k].write_bps]]]]

(* Of a scan: how many processes had started when it returned, which were  *)
(* alive during it, and which had lived all through it, were not hidden by *)
(* an error of readdir and had a stat file it could read.                  *)
Witness ==
  [born |-> births, met |-> met, lasted |-> {k \in stayed : table[k[1]].stat = "good"}]

(* Bytes were written under the pid between the two io readings. *)
WroteBetween(prev, now, k) ==
  /\ k \in DOMAIN prev.procs \cap DOMAIN now.procs
  /\ prev.procs[k].io # None /\ now.procs[k].io # None
  /\ prev.procs[k].io.odometer < now.procs[k].io.odometer

Since(prev, now) ==
  [k \in {j \in DOMAIN now.procs : WroteBetween(prev, now, j)} |->
     IF k \in DOMAIN since THEN since[k] ELSE now.scan]

MInit ==
  /\ Init
  /\ before = None
  /\ snapshot = None
  /\ Engine!Init
  /\ then = None
  /\ last = None
  /\ since = <<>>

(* The first sample is only a baseline. *)
Baseline ==
  /\ Return
  /\ sample = None
  /\ UNCHANGED <<before, snapshot, states, tick, since>>
  /\ events' = {}
  /\ then' = last
  /\ last' = Witness

DiffAndEvaluate ==
  /\ Return
  /\ sample # None
  /\ before' = sample
  /\ snapshot' = ProcRates(sample, cur)
  /\ Engine!Evaluate(Observation(snapshot'), cur.scan)
  /\ then' = last
  /\ last' = Witness
  /\ since' = Since(sample, cur)

(* A failed scan ends its cycle without events. *)
MReadFile ==
  /\ ReadFile
  /\ events' = IF pc' = "idle" THEN {} ELSE events
  /\ UNCHANGED <<before, snapshot, states, tick, then, last, since>>

Elsewhere ==
  /\ BeginScan \/ KernelStep
  /\ UNCHANGED <<before, snapshot, states, tick, events, then, last, since>>

MNext == Baseline \/ DiffAndEvaluate \/ MReadFile \/ Elsewhere

MSpec == MInit /\ [][MNext]_mvars

-----------------------------------------------------------------------------
MTypeOK ==
  /\ TypeOK
  /\ before = None \/ IsSample(before)
  /\ snapshot # None =>
       /\ DOMAIN snapshot \subseteq Keys
       /\ \A k \in DOMAIN snapshot :
            /\ snapshot[k].is_new \in BOOLEAN
            /\ snapshot[k].write_bps \in (0 .. size.bytes) \cup {None}
  /\ \A id \in DOMAIN states : states[id].phase \in Engine!Phases
  /\ \A k \in DOMAIN since : since[k] \in 1 .. scans

(* A rate is never more than what was really written under the pid between *)
(* the two readings, even when the pid changed hands between stat and io:  *)
(* the worst a recycled pid does is hide traffic.                          *)
NoPhantomTraffic ==
  snapshot # None =>
    \A k \in DOMAIN snapshot :
      snapshot[k].write_bps \notin {None, 0} =>
        /\ WroteBetween(before, sample, k)
        /\ snapshot[k].write_bps <=
             sample.procs[k].io.odometer - before.procs[k].io.odometer

(* is_new tells the processes apart as the process table does: one that    *)
(* started after the earlier sample is new, even under a pid that sample   *)
(* knows, and one that lived all through the earlier scan is not, unless   *)
(* readdir failed at its entry (delta.rs:150-153, sample.rs:102-105).  A   *)
(* process wrongly new is not evaluated by the engine; one wrongly old is  *)
(* compared with another's counters.                                       *)
NewMeansStartedSince ==
  snapshot # None =>
    \A k \in DOMAIN snapshot :
      IF snapshot[k].is_new THEN k \notin then.lasted ELSE k[2] <= then.born

RuleOf(e) == Rules[e.subject.rule]

(* An alert on a high write rate is earned: by the time it fires, bytes    *)
(* have been written under that pid between every two samples of the       *)
(* sustain, whatever io files could be read, scans failed and pids changed *)
(* hands meanwhile.  (The parser takes a negative threshold too, which an  *)
(* idle process is over.)                                                  *)
AlertsAreEarned ==
  \A e \in events :
    e.kind = "Fired" /\ RuleOf(e).op = ">" /\ RuleOf(e).threshold >= 0 =>
      /\ e.subject.proc_key \in DOMAIN since
      /\ sample.scan - since[e.subject.proc_key] >= RuleOf(e).sustain

(* No process keeps an alert, or the timer of one, beyond the scan after   *)
(* its death: whatever the engine holds was alive during the last scan     *)
(* that succeeded.                                                         *)
DeadAlertsAreReaped == \A id \in DOMAIN states : id.proc_key \in last.met

(* No process has an alert, or the timer of one, from its first snapshot:  *)
(* whatever the engine holds was alive during the scan before the last     *)
(* too, however pids are recycled (the is_new of delta.rs, which the       *)
(* evaluate of rules.rs skips).                                            *)
NewProcessesAreIgnored == \A id \in DOMAIN states : id.proc_key \in then.met

(* sample.rs, of the key: "a recycled PID never has a delta computed       *)
(* against its predecessor's counters".  The io file is opened by pid      *)
(* after stat was read, and may be the successor's.                        *)
DeltasWithinOneProcess ==
  snapshot # None =>
    \A k \in DOMAIN snapshot \cap DOMAIN before.procs :
      LET now == sample.procs[k].io  earlier == before.procs[k].io IN
      now # None /\ earlier # None => now.owner = earlier.owner

(* delta.rs: "Present but no prior sample: a rate is not yet defined", and *)
(* rules.rs: "unreadable, not zero".  No alert is raised on the rate of a  *)
(* process whose io file was read in one sample only.                      *)
NoAlertOnUnmeasured ==
  \A e \in events :
    e.kind = "Fired" => before.procs[e.subject.proc_key].io # None
=============================================================================
