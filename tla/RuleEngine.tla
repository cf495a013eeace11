----------------------------- MODULE RuleEngine -----------------------------
(***************************************************************************)
(* The alert engine of src/rules.rs.  Engine::evaluate is called once per  *)
(* snapshot; for every rule and every subject of that rule it runs one     *)
(* step of a small state machine, then reaps the subjects it did not meet. *)
(*                                                                         *)
(*    absent --breach--> Pending --held for the sustain--> Firing          *)
(*      ^                   | not breaching                   | reading    *)
(*      +-------------------+---------------------------------+ at clear   *)
(*                                                                         *)
(* A subject is a rule together with a process, or with System for a       *)
(* system-wide rule.  Rule names, subject labels and the numbers repeated  *)
(* in an event for display are left out.                                   *)
(***************************************************************************)
EXTENDS RuleTypes, Sequences, Functions

CONSTANTS
  Rules,     \* Engine.rules: the accepted rules, in file order
  Keys,      \* process identities, (pid, starttime) in the code
  Values,    \* the readings a metric may give
  System,    \* the proc_key of a system-wide subject (None in the code)
  MaxStep,   \* bound: time units between two evaluations
  MaxTick    \* bound: evaluations explored

ASSUME RulesAssumption == Rules \in Seq(UsableRule)
ASSUME DomainAssumption ==
  /\ System \notin Keys
  /\ Values \subseteq Int
  /\ MaxStep \in Nat
  /\ MaxTick \in Nat

SubjectIds == [rule : DOMAIN Rules, proc_key : Keys \cup {System}]

VARIABLES
  states,    \* Engine.states: subject -> [phase, since, seen]
  tick,      \* Engine.tick
  now,       \* the instant passed to the last evaluate
  sampled,   \* keys of the sample the next snapshot is computed against
  events     \* what the last evaluate returned, its order forgotten

vars == <<states, tick, now, sampled, events>>

(***************************************************************************)
(* The snapshots delta::diff can hand to evaluate, cut down to the metrics *)
(* some rule reads.  A process whose io file was unreadable has no reading *)
(* for the two io metrics; one is new if the sample before did not know it.*)
(***************************************************************************)
ReadBy(target) ==
  {Rules[i].metric : i \in {j \in DOMAIN Rules : Rules[j].target = target}}

ProcessReadings ==
  [ReadBy("process") -> Values] \cup [ReadBy("process") \ IoMetrics -> Values]

Snapshots ==
  {s \in [system : [ReadBy("system") \cap SystemMetrics -> Values],
          procs  : UNION {[live -> [comm : Comms, is_new : BOOLEAN, readings : ProcessReadings]]
                            : live \in SUBSET Keys}] :
     \A k \in DOMAIN s.procs : s.procs[k].is_new <=> k \notin sampled}

Phases     == {"Pending", "Firing"}
EventKinds == {"Fired", "Cleared", "ClearedGone"}

TypeOK ==
  /\ DOMAIN states \subseteq SubjectIds
  /\ \A id \in DOMAIN states :
       states[id] \in [phase : Phases, since : Nat, seen : Nat]
  /\ tick \in 0 .. MaxTick
  /\ now \in Nat
  /\ sampled \subseteq Keys
  /\ events \subseteq [kind : EventKinds, subject : SubjectIds, held_for : Nat]

-----------------------------------------------------------------------------
(* Plausible defects, one per property, put in place of the definition     *)
(* that follows them.                                                      *)
ElapsedBackwards(from, to) == from - to

ObservedEvenIfNew(id, s) ==
  LET rule == Rules[id.rule] IN
  IF rule.target = "system"
    THEN id.proc_key = System /\ rule.metric \in DOMAIN s.system
    ELSE /\ id.proc_key \in DOMAIN s.procs
         /\ rule.pattern \in {AnyComm, s.procs[id.proc_key].comm}
         /\ rule.metric \in DOMAIN s.procs[id.proc_key].readings

NoDeadband(id, s) ==
  LET rule  == Rules[id.rule]
      value == IF rule.target = "system"
                 THEN s.system[rule.metric]
                 ELSE s.procs[id.proc_key].readings[rule.metric]
  IN IF rule.op = ">" THEN value > rule.threshold ELSE value < rule.threshold

TimerOutlivesDropout(id, s) == FALSE

LatchedFiring(stepped) ==
  {id \in DOMAIN stepped : stepped[id].seen # tick + 1 /\ stepped[id].phase = "Pending"}

-----------------------------------------------------------------------------
(* Instant::saturating_duration_since *)
Elapsed(from, to) == IF to > from THEN to - from ELSE 0

Matches(rule, comm) == rule.pattern = AnyComm \/ rule.pattern = comm

(* evaluate reaches step for this subject: the metric has a value, and a   *)
(* process is matched by name and is not new.                              *)
Observed(id, s) ==
  LET rule == Rules[id.rule] IN
  \/ /\ rule.target = "system"
     /\ id.proc_key = System
     /\ rule.metric \in DOMAIN s.system
  \/ /\ rule.target = "process"
     /\ id.proc_key \in DOMAIN s.procs
     /\ Matches(rule, s.procs[id.proc_key].comm)
     /\ ~ s.procs[id.proc_key].is_new
     /\ rule.metric \in DOMAIN s.procs[id.proc_key].readings

Reading(id, s) ==
  IF Rules[id.rule].target = "system"
    THEN s.system[Rules[id.rule].metric]
    ELSE s.procs[id.proc_key].readings[Rules[id.rule].metric]

Beyond(rule, value, boundary) ==
  IF rule.op = ">" THEN value > boundary ELSE value < boundary

Breaching(id, s)   == Beyond(Rules[id.rule], Reading(id, s), Rules[id.rule].threshold)
StillActive(id, s) == Beyond(Rules[id.rule], Reading(id, s), Rules[id.rule].clear)

InPhase(id, phase) == id \in DOMAIN states /\ states[id].phase = phase
Held(id, t)        == Elapsed(states[id].since, t)

(* The outcomes of one step, by what it does to the subject's state. *)
Opens(id, s) ==
  id \notin DOMAIN states /\ Breaching(id, s) /\ Rules[id.rule].sustain # 0
FiresAtOnce(id, s) ==
  id \notin DOMAIN states /\ Breaching(id, s) /\ Rules[id.rule].sustain = 0
FiresHeld(id, s, t) ==
  InPhase(id, "Pending") /\ Breaching(id, s) /\ Held(id, t) >= Rules[id.rule].sustain
Drops(id, s)  == InPhase(id, "Pending") /\ ~ Breaching(id, s)
Clears(id, s) == InPhase(id, "Firing") /\ ~ StillActive(id, s)

Fires(id, s, t) == FiresAtOnce(id, s) \/ FiresHeld(id, s, t)

(* The state a subject that was stepped and stays in the map is left in. *)
StateAfter(id, s, t) ==
  IF Opens(id, s)         THEN [phase |-> "Pending", since |-> t, seen |-> tick + 1]
  ELSE IF Fires(id, s, t) THEN [phase |-> "Firing",  since |-> t, seen |-> tick + 1]
  ELSE [states[id] EXCEPT !.seen = tick + 1]

(* The map once every observed subject has been stepped. *)
Stepped(s, t) ==
  LET observed == {id \in SubjectIds : Observed(id, s)}
      added    == {id \in observed : Opens(id, s) \/ FiresAtOnce(id, s)}
      removed  == {id \in observed : Drops(id, s) \/ Clears(id, s)}
  IN [id \in (DOMAIN states \cup added) \ removed |->
        IF id \in observed THEN StateAfter(id, s, t) ELSE states[id]]

(* Subjects the retain at the end of evaluate throws away. *)
Unseen(stepped) == {id \in DOMAIN stepped : stepped[id].seen # tick + 1}

Event(kind, id, held) == [kind |-> kind, subject |-> id, held_for |-> held]

EventsOf(s, t) ==
  LET observed == {id \in SubjectIds : Observed(id, s)}
      stepped  == Stepped(s, t)
  IN {Event("Fired", id, 0) : id \in {x \in observed : FiresAtOnce(x, s)}}
     \cup
     {Event("Fired", id, Held(id, t)) : id \in {x \in observed : FiresHeld(x, s, t)}}
     \cup
     {Event("Cleared", id, Held(id, t)) : id \in {x \in observed : Clears(x, s)}}
     \cup
     {Event("ClearedGone", id, Elapsed(stepped[id].since, t))
        : id \in {x \in Unseen(stepped) : stepped[x].phase = "Firing"}}

-----------------------------------------------------------------------------
(* Engine::new, handed to a sampler whose first scan, which yields no      *)
(* snapshot, has already found some processes.                             *)
Init ==
  /\ states = [id \in {} |-> {}]
  /\ tick = 0
  /\ now = 0
  /\ sampled \in SUBSET Keys
  /\ events = {}

Evaluate(s, t) ==
  /\ tick < MaxTick
  /\ tick' = tick + 1
  /\ now' = t
  /\ states' = LET stepped == Stepped(s, t)
               IN  Restrict(stepped, DOMAIN stepped \ Unseen(stepped))
  /\ events' = EventsOf(s, t)
  /\ sampled' = DOMAIN s.procs

Next == \E s \in Snapshots, d \in 0 .. MaxStep : Evaluate(s, now + d)

Spec == Init /\ [][Next]_vars

-----------------------------------------------------------------------------
FiringSubjects == {id \in DOMAIN states : states[id].phase = "Firing"}

(* No alert state outlives its subject: whatever the map holds was stepped *)
(* by the last evaluate, and a process in it is in the latest sample (the  *)
(* reaping pass, "rather than latch forever" on a dead pid).               *)
LiveSubjects ==
  \A id \in DOMAIN states :
    /\ states[id].seen = tick
    /\ id.proc_key # System => id.proc_key \in sampled

(* The snapshot a process first appears in, whose rates mean nothing,      *)
(* neither raises an alert nor starts the timer of one: whatever the map   *)
(* holds after an evaluation was in the previous sample too (the is_new    *)
(* check of evaluate).                                                     *)
NewcomersAreIgnored ==
  [][\A id \in DOMAIN states' :
       id.proc_key # System => id.proc_key \in sampled]_vars

(* The documentation of ClearedGone: "The process being watched exited     *)
(* while the alert was active".  The code also sends it for a live process *)
(* that this evaluation passed over.                                       *)
GoneMeansExited ==
  [][\A e \in events' :
       e.kind = "ClearedGone" => e.subject.proc_key \notin sampled']_vars
=============================================================================
