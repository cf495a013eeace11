-------------------------- MODULE RuleEngineProofs --------------------------
(***************************************************************************)
(* Proofs about the alert engine, for any rules, processes, readings and   *)
(* bounds.  NextMap and the two Events lemmas say in one line each what an *)
(* evaluation does; the theorems follow from them.                         *)
(***************************************************************************)
EXTENDS RuleEngineHistory, TLAPS

IInv == TypeOK /\ LiveSubjects

Kept(id, s) == id \in DOMAIN states /\ ~ Drops(id, s) /\ ~ Clears(id, s)

-----------------------------------------------------------------------------
(* The clock only moves forward. *)
LEMMA ElapsedNat ==
  ASSUME NEW a \in Nat, NEW b \in Nat
  PROVE  Elapsed(a, b) \in Nat /\ (a <= b => Elapsed(a, b) = b - a)
BY DEF Elapsed

(* A snapshot is of known processes. *)
LEMMA SnapshotKeys ==
  ASSUME NEW s \in Snapshots
  PROVE  DOMAIN s.procs \subseteq Keys
BY DEF Snapshots

(* Only a process of the snapshot that is not new in it is evaluated. *)
LEMMA ObservedKeys ==
  ASSUME NEW s, NEW id \in SubjectIds, Observed(id, s)
  PROVE  id.proc_key # System =>
           id.proc_key \in DOMAIN s.procs /\ ~ s.procs[id.proc_key].is_new
BY DEF Observed

(* The entry an evaluation leaves for a subject it stepped. *)
LEMMA StateAfterType ==
  ASSUME TypeOK, NEW s, NEW t \in Nat, NEW id \in SubjectIds,
         Opens(id, s) \/ FiresAtOnce(id, s) \/ id \in DOMAIN states
  PROVE  /\ StateAfter(id, s, t) \in [phase : Phases, since : Nat, seen : Nat]
         /\ StateAfter(id, s, t).seen = tick + 1
<1>1. tick + 1 \in Nat
  BY DomainAssumption DEF TypeOK
<1>2. CASE Opens(id, s)
  BY <1>1, <1>2 DEF StateAfter, Phases
<1>3. CASE ~ Opens(id, s) /\ Fires(id, s, t)
  BY <1>1, <1>3 DEF StateAfter, Phases
<1>4. CASE ~ Opens(id, s) /\ ~ Fires(id, s, t)
  <2>1. id \in DOMAIN states
    BY <1>4 DEF Fires
  <2>2. states[id] \in [phase : Phases, since : Nat, seen : Nat]
    BY <2>1 DEF TypeOK
  <2>. QED  BY <1>1, <1>4, <2>2 DEF StateAfter
<1>. QED  BY <1>2, <1>3, <1>4

(* What Stepped holds: a subject that was not observed is untouched. *)
LEMMA SteppedMap ==
  ASSUME TypeOK, LiveSubjects, NEW s, NEW t \in Nat
  PROVE  /\ \A id : id \in DOMAIN Stepped(s, t) <=>
              \/ id \in DOMAIN states /\ ~ Observed(id, s)
              \/ /\ id \in SubjectIds
                 /\ Observed(id, s)
                 /\ Opens(id, s) \/ FiresAtOnce(id, s) \/ Kept(id, s)
         /\ \A id \in DOMAIN Stepped(s, t) :
              Stepped(s, t)[id] =
                IF Observed(id, s) THEN StateAfter(id, s, t) ELSE states[id]
<1>. DOMAIN states \subseteq SubjectIds
  BY DEF TypeOK
<1>. \A id \in SubjectIds : Opens(id, s) \/ FiresAtOnce(id, s) =>
       id \notin DOMAIN states /\ ~ Drops(id, s) /\ ~ Clears(id, s)
  BY DEF Opens, FiresAtOnce, Drops, Clears, InPhase
<1>. QED  BY DEF Stepped, Kept

(* After an evaluation the map holds exactly the subjects it stepped and did *)
(* not drop: the reaping pass keeps nothing else.                            *)
LEMMA NextMap ==
  ASSUME TypeOK, LiveSubjects, NEW s, NEW t \in Nat, Evaluate(s, t)
  PROVE  /\ \A id : id \in DOMAIN states' <=>
              /\ id \in SubjectIds
              /\ Observed(id, s)
              /\ Opens(id, s) \/ FiresAtOnce(id, s) \/ Kept(id, s)
         /\ \A id \in DOMAIN states' : states'[id] = StateAfter(id, s, t)
<1>. DEFINE stepped == Stepped(s, t)
<1>1. states' = [id \in DOMAIN stepped \ Unseen(stepped) |-> stepped[id]]
  BY DEF Evaluate, Restrict
<1>2. \A id \in DOMAIN stepped : id \in Unseen(stepped) <=> ~ Observed(id, s)
  <2>. SUFFICES ASSUME NEW id \in DOMAIN stepped
                PROVE  stepped[id].seen = tick + 1 <=> Observed(id, s)
    BY DEF Unseen
  <2>1. CASE Observed(id, s)
    <3>1. id \in SubjectIds
      BY <2>1, SteppedMap
    <3>2. Opens(id, s) \/ FiresAtOnce(id, s) \/ id \in DOMAIN states
      BY <2>1, SteppedMap DEF Kept
    <3>. QED  BY <2>1, <3>1, <3>2, SteppedMap, StateAfterType
  <2>2. CASE ~ Observed(id, s)
    <3>1. id \in DOMAIN states /\ stepped[id] = states[id]
      BY <2>2, SteppedMap
    <3>2. states[id].seen = tick /\ tick \in Nat
      BY <3>1, DomainAssumption DEF LiveSubjects, TypeOK
    <3>. QED  BY <2>2, <3>1, <3>2
  <2>. QED  BY <2>1, <2>2
<1>3. \A id : id \in DOMAIN states' <=> id \in DOMAIN stepped /\ Observed(id, s)
  BY <1>1, <1>2
<1>4. \A id \in DOMAIN states' : states'[id] = stepped[id]
  BY <1>1
<1>. QED  BY <1>3, <1>4, SteppedMap

(* The alerts an evaluation announces as on. *)
LEMMA FiredEvents ==
  ASSUME NEW s, NEW t \in Nat, Evaluate(s, t)
  PROVE  \A id : (\E e \in events' : e.kind = "Fired" /\ e.subject = id)
                   <=> id \in SubjectIds /\ Observed(id, s) /\ Fires(id, s, t)
<1>1. ASSUME NEW e \in events', e.kind = "Fired"
      PROVE  e.subject \in SubjectIds /\ Observed(e.subject, s) /\ Fires(e.subject, s, t)
  BY <1>1 DEF Evaluate, EventsOf, Event, Fires
<1>2. ASSUME NEW id \in SubjectIds, Observed(id, s), FiresAtOnce(id, s)
      PROVE  Event("Fired", id, 0) \in events'
  BY <1>2 DEF Evaluate, EventsOf
<1>3. ASSUME NEW id \in SubjectIds, Observed(id, s), FiresHeld(id, s, t)
      PROVE  Event("Fired", id, Held(id, t)) \in events'
  BY <1>3 DEF Evaluate, EventsOf
<1>4. \A id, h : Event("Fired", id, h).kind = "Fired" /\ Event("Fired", id, h).subject = id
  BY DEF Event
<1>. QED  BY <1>1, <1>2, <1>3, <1>4 DEF Fires

(* The alerts an evaluation announces as off, for either reason. *)
LEMMA EndedEvents ==
  ASSUME TypeOK, LiveSubjects, NEW s, NEW t \in Nat, Evaluate(s, t)
  PROVE  \A id : (\E e \in events' : e.kind # "Fired" /\ e.subject = id)
                   <=> InPhase(id, "Firing") /\ (Observed(id, s) => ~ StillActive(id, s))
<1>. DEFINE stepped == Stepped(s, t)
            Gone    == {x \in Unseen(stepped) : stepped[x].phase = "Firing"}
<1>1. \A id : id \in Gone <=> InPhase(id, "Firing") /\ ~ Observed(id, s)
  <2>1. ASSUME NEW id \in Gone
        PROVE  InPhase(id, "Firing") /\ ~ Observed(id, s)
    <3>1. id \in DOMAIN stepped /\ stepped[id].seen # tick + 1 /\ stepped[id].phase = "Firing"
      BY DEF Unseen
    <3>2. ~ Observed(id, s)
      <4>. SUFFICES ASSUME Observed(id, s) PROVE FALSE
        OBVIOUS
      <4>1. id \in SubjectIds /\ (Opens(id, s) \/ FiresAtOnce(id, s) \/ id \in DOMAIN states)
        BY <3>1, SteppedMap DEF Kept
      <4>2. stepped[id].seen = tick + 1
        BY <3>1, <4>1, SteppedMap, StateAfterType
      <4>. QED  BY <3>1, <4>2
    <3>3. id \in DOMAIN states /\ stepped[id] = states[id]
      BY <3>1, <3>2, SteppedMap
    <3>. QED  BY <3>1, <3>2, <3>3 DEF InPhase
  <2>2. ASSUME NEW id, InPhase(id, "Firing"), ~ Observed(id, s)
        PROVE  id \in Gone
    <3>1. id \in DOMAIN stepped /\ stepped[id] = states[id]
      BY <2>2, SteppedMap DEF InPhase
    <3>2. states[id].seen = tick /\ tick \in Nat
      BY <2>2, DomainAssumption DEF LiveSubjects, TypeOK, InPhase
    <3>. QED  BY <2>2, <3>1, <3>2 DEF Unseen, InPhase
  <2>. QED  BY <2>1, <2>2
<1>2. ASSUME NEW e \in events', e.kind # "Fired"
      PROVE  \/ e.subject \in SubjectIds /\ Observed(e.subject, s) /\ Clears(e.subject, s)
             \/ e.subject \in Gone
  BY <1>2 DEF Evaluate, EventsOf, Event
<1>3. ASSUME NEW id \in SubjectIds, Observed(id, s), Clears(id, s)
      PROVE  Event("Cleared", id, Held(id, t)) \in events'
  BY <1>3 DEF Evaluate, EventsOf
<1>4. ASSUME NEW id \in Gone
      PROVE  Event("ClearedGone", id, Elapsed(stepped[id].since, t)) \in events'
  BY DEF Evaluate, EventsOf
<1>5. \A id, h : /\ Event("Cleared", id, h).kind # "Fired"
                 /\ Event("ClearedGone", id, h).kind # "Fired"
                 /\ Event("Cleared", id, h).subject = id
                 /\ Event("ClearedGone", id, h).subject = id
  BY DEF Event
<1>6. \A id : InPhase(id, "Firing") => id \in SubjectIds
  BY DEF InPhase, TypeOK
<1>. HIDE DEF Gone
<1>7. ASSUME NEW e \in events', e.kind # "Fired"
      PROVE  /\ InPhase(e.subject, "Firing")
             /\ Observed(e.subject, s) => ~ StillActive(e.subject, s)
  BY <1>1, <1>2, <1>7 DEF Clears
<1>8. ASSUME NEW id, InPhase(id, "Firing"), Observed(id, s) => ~ StillActive(id, s)
      PROVE  \E e \in events' : e.kind # "Fired" /\ e.subject = id
  <2>1. CASE Observed(id, s)
    BY <2>1, <1>3, <1>5, <1>6, <1>8 DEF Clears
  <2>2. CASE ~ Observed(id, s)
    BY <2>2, <1>1, <1>4, <1>5, <1>8
  <2>. QED  BY <2>1, <2>2
<1>. QED  BY <1>7, <1>8

-----------------------------------------------------------------------------
LEMMA EvaluateType ==
  ASSUME IInv, NEW s, DOMAIN s.procs \subseteq Keys, NEW t \in Nat, Evaluate(s, t)
  PROVE  TypeOK'
<1>. TypeOK /\ LiveSubjects
  BY DEF IInv
<1>1. (DOMAIN states \subseteq SubjectIds)'
  BY NextMap
<1>2. (\A id \in DOMAIN states :
         states[id] \in [phase : Phases, since : Nat, seen : Nat])'
  BY NextMap, StateAfterType DEF Kept
<1>3. (tick \in 0 .. MaxTick /\ now \in Nat)'
  BY DomainAssumption DEF Evaluate, TypeOK
<1>4. (sampled \subseteq Keys)'
  BY DEF Evaluate
<1>5. (events \subseteq [kind : EventKinds, subject : SubjectIds, held_for : Nat])'
  <2>1. \A id \in DOMAIN states : states[id].since \in Nat /\ id \in SubjectIds
    BY DEF TypeOK
  <2>2. \A id : InPhase(id, "Firing") \/ InPhase(id, "Pending") => Held(id, t) \in Nat
    BY <2>1, ElapsedNat DEF InPhase, Held
  <2>3. \A id \in Unseen(Stepped(s, t)) :
          id \in SubjectIds /\ Elapsed(Stepped(s, t)[id].since, t) \in Nat
    <3>. SUFFICES ASSUME NEW id \in Unseen(Stepped(s, t))
                  PROVE  id \in SubjectIds /\ Stepped(s, t)[id].since \in Nat
      BY ElapsedNat
    <3>1. id \in DOMAIN Stepped(s, t)
      BY DEF Unseen
    <3>2. CASE Observed(id, s)
      <4>1. id \in SubjectIds /\ (Opens(id, s) \/ FiresAtOnce(id, s) \/ id \in DOMAIN states)
        BY <3>1, <3>2, SteppedMap DEF Kept
      <4>. QED  BY <3>1, <3>2, <4>1, SteppedMap, StateAfterType
    <3>3. CASE ~ Observed(id, s)
      <4>1. id \in DOMAIN states /\ Stepped(s, t)[id] = states[id]
        BY <3>1, <3>3, SteppedMap
      <4>. QED  BY <2>1, <4>1
    <3>. QED  BY <3>2, <3>3
  <2>4. \A k \in EventKinds, id \in SubjectIds, h \in Nat :
          Event(k, id, h) \in [kind : EventKinds, subject : SubjectIds, held_for : Nat]
    BY DEF Event
  <2>5. EventKinds = {"Fired", "Cleared", "ClearedGone"} /\ 0 \in Nat
    BY DEF EventKinds
  <2>. DEFINE observed == {id \in SubjectIds : Observed(id, s)}
  <2>6. \A id \in {x \in observed : FiresAtOnce(x, s)} :
          Event("Fired", id, 0)
            \in [kind : EventKinds, subject : SubjectIds, held_for : Nat]
    BY <2>4, <2>5
  <2>7. \A id \in {x \in observed : FiresHeld(x, s, t)} :
          Event("Fired", id, Held(id, t))
            \in [kind : EventKinds, subject : SubjectIds, held_for : Nat]
    BY <2>2, <2>4, <2>5 DEF FiresHeld
  <2>8. \A id \in {x \in observed : Clears(x, s)} :
          Event("Cleared", id, Held(id, t))
            \in [kind : EventKinds, subject : SubjectIds, held_for : Nat]
    BY <2>2, <2>4, <2>5 DEF Clears
  <2>9. \A id \in {x \in Unseen(Stepped(s, t)) : Stepped(s, t)[x].phase = "Firing"} :
          Event("ClearedGone", id, Elapsed(Stepped(s, t)[id].since, t))
            \in [kind : EventKinds, subject : SubjectIds, held_for : Nat]
    BY <2>3, <2>4, <2>5
  <2>. QED  BY <2>6, <2>7, <2>8, <2>9 DEF Evaluate, EventsOf
<1>. QED  BY <1>1, <1>2, <1>3, <1>4, <1>5 DEF TypeOK

LEMMA EvaluateLive ==
  ASSUME IInv, NEW s, DOMAIN s.procs \subseteq Keys, NEW t \in Nat, Evaluate(s, t)
  PROVE  LiveSubjects'
<1>. SUFFICES ASSUME NEW id \in DOMAIN states'
              PROVE  /\ states'[id].seen = tick'
                     /\ id.proc_key # System => id.proc_key \in sampled'
  BY DEF LiveSubjects
<1>1. /\ id \in SubjectIds
      /\ Observed(id, s)
      /\ Opens(id, s) \/ FiresAtOnce(id, s) \/ id \in DOMAIN states
      /\ states'[id] = StateAfter(id, s, t)
  BY NextMap DEF IInv, Kept
<1>2. states'[id].seen = tick'
  BY <1>1, StateAfterType DEF Evaluate, IInv
<1>3. id.proc_key # System => id.proc_key \in sampled'
  BY <1>1, ObservedKeys DEF Evaluate
<1>. QED  BY <1>2, <1>3

(* An evaluation is never earlier than the one before. *)
LEMMA NextEvaluates ==
  ASSUME TypeOK, NEW s \in Snapshots, NEW d \in 0 .. MaxStep
  PROVE  now + d \in Nat
BY DomainAssumption DEF TypeOK

THEOREM Invariance == Spec => []IInv
<1>1. Init => IInv
  <2>. SUFFICES ASSUME Init PROVE IInv
    OBVIOUS
  <2>1. DOMAIN states = {} /\ events = {}
    BY DEF Init
  <2>2. tick \in 0 .. MaxTick /\ now \in Nat /\ sampled \subseteq Keys
    BY DomainAssumption DEF Init
  <2>. QED  BY <2>1, <2>2 DEF IInv, TypeOK, LiveSubjects
<1>2. IInv /\ [Next]_vars => IInv'
  <2>1. ASSUME IInv, NEW s \in Snapshots, NEW d \in 0 .. MaxStep, Evaluate(s, now + d)
        PROVE  IInv'
    BY <2>1, NextEvaluates, SnapshotKeys, EvaluateType, EvaluateLive DEF IInv
  <2>2. ASSUME IInv, UNCHANGED vars
        PROVE  IInv'
    BY <2>2 DEF IInv, TypeOK, LiveSubjects, vars
  <2>. QED  BY <2>1, <2>2 DEF Next
<1>. QED  BY <1>1, <1>2, PTL DEF Spec

(* No alert state outlives its subject, whatever the rules and processes:  *)
(* what the reaping pass of evaluate leaves in the map was observed by     *)
(* that very call.                                                         *)
THEOREM SubjectsAreLive == Spec => []LiveSubjects
<1>1. IInv => LiveSubjects
  BY DEF IInv
<1>. QED  BY <1>1, Invariance, PTL

(* The snapshot a process is new in neither raises its alert nor starts a  *)
(* timer for one, whatever the direction of the rule.                      *)
THEOREM Newcomers == Spec => NewcomersAreIgnored
<1>1. ASSUME IInv, [Next]_vars
      PROVE  [\A id \in DOMAIN states' :
                id.proc_key # System => id.proc_key \in sampled]_vars
  <2>. SUFFICES ASSUME NEW s \in Snapshots, NEW d \in 0 .. MaxStep,
                       Evaluate(s, now + d),
                       NEW id \in DOMAIN states', id.proc_key # System
                PROVE  id.proc_key \in sampled
    BY <1>1 DEF Next
  <2>1. now + d \in Nat
    BY <1>1, NextEvaluates DEF IInv
  <2>2. id \in SubjectIds /\ Observed(id, s)
    BY <1>1, <2>1, NextMap DEF IInv
  <2>3. id.proc_key \in DOMAIN s.procs /\ ~ s.procs[id.proc_key].is_new
    BY <2>2, ObservedKeys
  <2>4. \A k \in DOMAIN s.procs : s.procs[k].is_new <=> k \notin sampled
    BY DEF Snapshots
  <2>. QED  BY <2>3, <2>4
<1>. QED  BY <1>1, Invariance, PTL DEF Spec, NewcomersAreIgnored

-----------------------------------------------------------------------------
(* From here on: the engine with its history variables. *)
HInv == IInv /\ HTypeOK /\ MapMatchesReadings

LEMMA RuleType ==
  ASSUME NEW id \in SubjectIds
  PROVE  /\ Rules[id.rule] \in Rule
         /\ Rules[id.rule].op \in {">", "<"}
         /\ Rules[id.rule].threshold \in Int
         /\ Rules[id.rule].clear \in Int
         /\ Rules[id.rule].sustain \in Nat
         /\ Sane(Rules[id.rule])
<1>1. Rules \in Seq(UsableRule) /\ id.rule \in DOMAIN Rules
  BY RulesAssumption DEF SubjectIds
<1>2. Rules[id.rule] \in UsableRule
  BY <1>1
<1>. QED  BY <1>2 DEF UsableRule, Rule

LEMMA ReadingType ==
  ASSUME NEW s \in Snapshots, NEW id \in SubjectIds, Observed(id, s)
  PROVE  Reading(id, s) \in Int
<1>1. CASE Rules[id.rule].target = "system"
  <2>1. s.system \in [ReadBy("system") \cap SystemMetrics -> Values]
    BY DEF Snapshots
  <2>2. Rules[id.rule].metric \in DOMAIN s.system
    BY <1>1 DEF Observed
  <2>. QED  BY <1>1, <2>1, <2>2, DomainAssumption DEF Reading
<1>2. CASE Rules[id.rule].target # "system"
  <2>1. /\ id.proc_key \in DOMAIN s.procs
        /\ Rules[id.rule].metric \in DOMAIN s.procs[id.proc_key].readings
    BY <1>2 DEF Observed
  <2>2. s.procs[id.proc_key].readings \in ProcessReadings
    BY <2>1 DEF Snapshots
  <2>3. s.procs[id.proc_key].readings[Rules[id.rule].metric] \in Values
    BY <2>1, <2>2 DEF ProcessReadings
  <2>. QED  BY <1>2, <2>3, DomainAssumption DEF Reading
<1>. QED  BY <1>1, <1>2

(* A reading that opens an alert cannot be one that clears it: the clear   *)
(* boundary parse_rules accepts is on the quiet side of the threshold.     *)
LEMMA BreachingIsActive ==
  ASSUME NEW s \in Snapshots, NEW id \in SubjectIds, Observed(id, s), Breaching(id, s)
  PROVE  StillActive(id, s)
BY RuleType, ReadingType DEF Breaching, StillActive, Beyond, Sane

LEMMA HEvaluateMatches ==
  ASSUME HInv, NEW s \in Snapshots, NEW t \in Nat, HEvaluate(s, t)
  PROVE  MapMatchesReadings'
<1>. TypeOK /\ LiveSubjects /\ HTypeOK /\ MapMatchesReadings /\ Evaluate(s, t)
  BY DEF HInv, IInv, HEvaluate
<1>1. \A id : id \in DOMAIN breach' <=>
              id \in SubjectIds /\ Observed(id, s) /\ Breaching(id, s)
  BY DEF HEvaluate, Breaching, StillActive
<1>2. \A id \in DOMAIN breach' :
        breach'[id] = IF id \in DOMAIN breach THEN breach[id] ELSE t
  BY DEF HEvaluate, Breaching, StillActive
<1>3. \A id : id \in beyond' <=> id \in SubjectIds /\ Observed(id, s) /\ StillActive(id, s)
  BY DEF HEvaluate, Breaching, StillActive
<1>4. ASSUME NEW id \in DOMAIN states'
      PROVE  /\ states'[id].phase = "Pending" =>
                  id \in DOMAIN breach' /\ states'[id].since = breach'[id]
             /\ states'[id].phase = "Firing" => id \in beyond'
  <2>1. /\ id \in SubjectIds
        /\ Observed(id, s)
        /\ Opens(id, s) \/ FiresAtOnce(id, s) \/ Kept(id, s)
        /\ states'[id] = StateAfter(id, s, t)
    BY NextMap
  <2>2. CASE Opens(id, s)
    <3>1. id \notin DOMAIN breach /\ Breaching(id, s)
      BY <2>2 DEF Opens, MapMatchesReadings
    <3>2. states'[id].phase = "Pending" /\ states'[id].since = t
      BY <2>1, <2>2 DEF StateAfter
    <3>. QED  BY <1>1, <1>2, <2>1, <3>1, <3>2
  <2>3. CASE ~ Opens(id, s) /\ Fires(id, s, t)
    <3>1. Breaching(id, s)
      BY <2>3 DEF Fires, FiresAtOnce, FiresHeld
    <3>2. states'[id].phase = "Firing"
      BY <2>1, <2>3 DEF StateAfter
    <3>. QED  BY <1>3, <2>1, <3>1, <3>2, BreachingIsActive
  <2>4. CASE ~ Opens(id, s) /\ ~ Fires(id, s, t)
    <3>1. Kept(id, s)
      BY <2>1, <2>4 DEF Fires
    <3>2. states[id] \in [phase : Phases, since : Nat, seen : Nat]
      BY <3>1 DEF Kept, TypeOK
    <3>3. states'[id].phase = states[id].phase /\ states'[id].since = states[id].since
      BY <2>1, <2>4, <3>2 DEF StateAfter
    <3>4. CASE states[id].phase = "Pending"
      <4>1. Breaching(id, s)
        BY <3>1, <3>4 DEF Kept, Drops, InPhase
      <4>2. id \in DOMAIN breach /\ states[id].since = breach[id]
        BY <3>1, <3>4 DEF Kept, MapMatchesReadings
      <4>. QED  BY <1>1, <1>2, <2>1, <3>3, <3>4, <4>1, <4>2
    <3>5. CASE states[id].phase = "Firing"
      <4>1. StillActive(id, s)
        BY <3>1, <3>5 DEF Kept, Clears, InPhase
      <4>. QED  BY <1>3, <2>1, <3>3, <3>5, <4>1
    <3>. QED  BY <3>2, <3>4, <3>5 DEF Phases
  <2>. QED  BY <2>2, <2>3, <2>4
<1>5. ASSUME NEW id \in DOMAIN breach'
      PROVE  id \in DOMAIN states'
  <2>1. id \in SubjectIds /\ Observed(id, s) /\ Breaching(id, s)
    BY <1>1
  <2>2. StillActive(id, s)
    BY <2>1, BreachingIsActive
  <2>3. Opens(id, s) \/ FiresAtOnce(id, s) \/ Kept(id, s)
    BY <2>1, <2>2 DEF Opens, FiresAtOnce, Kept, Drops, Clears
  <2>. QED  BY <2>1, <2>3, NextMap
<1>. QED  BY <1>4, <1>5 DEF MapMatchesReadings

LEMMA HEvaluateType ==
  ASSUME HInv, NEW s \in Snapshots, NEW t \in Nat, now <= t, HEvaluate(s, t)
  PROVE  HTypeOK'
<1>. Evaluate(s, t) /\ IInv /\ HTypeOK /\ now \in Nat
  BY DEF HInv, IInv, TypeOK, HEvaluate
<1>1. TypeOK'
  BY SnapshotKeys, EvaluateType
<1>2. (beyond \subseteq SubjectIds)' /\ (DOMAIN breach \subseteq beyond)'
  BY BreachingIsActive DEF HEvaluate, Breaching, StillActive
<1>3. (breach = [id \in DOMAIN breach |-> breach[id]])'
  BY DEF HEvaluate, Breaching, StillActive
<1>4. \A id \in DOMAIN breach' :
        breach'[id] = IF id \in DOMAIN breach THEN breach[id] ELSE t
  BY DEF HEvaluate, Breaching, StillActive
<1>5. \A id \in DOMAIN breach' : breach'[id] \in Nat /\ breach'[id] <= t
  BY <1>4 DEF HTypeOK
<1>6. now' = t
  BY DEF Evaluate
<1>. QED  BY <1>1, <1>2, <1>3, <1>5, <1>6 DEF HTypeOK

THEOREM HInvariance == HSpec => []HInv
<1>1. HInit => HInv
  <2>. SUFFICES ASSUME HInit PROVE HInv
    OBVIOUS
  <2>1. DOMAIN states = {} /\ events = {} /\ beyond = {} /\ breach = [id \in {} |-> 0]
    BY DEF HInit, Init
  <2>2. tick \in 0 .. MaxTick /\ now \in Nat /\ sampled \subseteq Keys
    BY DomainAssumption DEF HInit, Init
  <2>. QED
    BY <2>1, <2>2 DEF HInv, IInv, TypeOK, LiveSubjects, HTypeOK, MapMatchesReadings
<1>2. HInv /\ [HNext]_hvars => HInv'
  <2>1. ASSUME HInv, NEW s \in Snapshots, NEW d \in 0 .. MaxStep, HEvaluate(s, now + d)
        PROVE  HInv'
    <3>1. now + d \in Nat /\ now <= now + d
      BY <2>1, DomainAssumption DEF HInv, IInv, TypeOK
    <3>2. IInv'
      BY <2>1, <3>1, SnapshotKeys, EvaluateType, EvaluateLive DEF HInv, IInv, HEvaluate
    <3>. QED  BY <2>1, <3>1, <3>2, HEvaluateType, HEvaluateMatches DEF HInv
  <2>2. ASSUME HInv, UNCHANGED hvars
        PROVE  HInv'
    BY <2>2 DEF HInv, IInv, TypeOK, LiveSubjects, HTypeOK, MapMatchesReadings, hvars
  <2>. QED  BY <2>1, <2>2 DEF HNext
<1>. QED  BY <1>1, <1>2, PTL DEF HSpec

(* The engine's state is always well formed: no event ever carries a       *)
(* negative duration and no run of breaching readings starts in the future.*)
THEOREM TypeCorrectness == HSpec => []HTypeOK
<1>1. HInv => HTypeOK
  BY DEF HInv
<1>. QED  BY <1>1, HInvariance, PTL

(* A pending timer counts from the first reading of an unbroken run of     *)
(* breaching ones, a firing alert has not yet come back to its clear       *)
(* boundary, and no breaching subject is missing from the map.             *)
THEOREM MapMatches == HSpec => []MapMatchesReadings
<1>1. HInv => MapMatchesReadings
  BY DEF HInv
<1>. QED  BY <1>1, HInvariance, PTL

(* The history variables only watch: with or without them the engine makes *)
(* the same steps.                                                         *)
THEOREM HistoryOnlyWatches == HSpec => Spec
<1>1. HInit => Init
  BY DEF HInit
<1>2. [HNext]_hvars => [Next]_vars
  BY DEF HNext, HEvaluate, Next, hvars, vars
<1>. QED  BY <1>1, <1>2, PTL DEF HSpec, Spec

-----------------------------------------------------------------------------
LEMMA StartedAreDue ==
  ASSUME HInv, NEW s \in Snapshots, NEW t \in Nat, now <= t, HEvaluate(s, t)
  PROVE  {e.subject : e \in {x \in events' : x.kind = "Fired"}}
           = {id \in DOMAIN breach' \ FiringSubjects : t - breach'[id] >= Rules[id.rule].sustain}
<1>. TypeOK /\ LiveSubjects /\ HTypeOK /\ MapMatchesReadings /\ Evaluate(s, t)
  BY DEF HInv, IInv, HEvaluate
<1>1. \A id : id \in DOMAIN breach' <=>
              id \in SubjectIds /\ Observed(id, s) /\ Breaching(id, s)
  BY DEF HEvaluate, Breaching, StillActive
<1>2. \A id \in DOMAIN breach' :
        breach'[id] = IF id \in DOMAIN breach THEN breach[id] ELSE t
  BY DEF HEvaluate, Breaching, StillActive
<1>. SUFFICES ASSUME NEW id \in SubjectIds, Observed(id, s), Breaching(id, s)
              PROVE  Fires(id, s, t) <=>
                       /\ id \notin FiringSubjects
                       /\ t - breach'[id] >= Rules[id.rule].sustain
  <2>1. \A id : id \in {e.subject : e \in {x \in events' : x.kind = "Fired"}}
                  <=> id \in SubjectIds /\ Observed(id, s) /\ Fires(id, s, t)
    BY FiredEvents
  <2>2. \A id : Fires(id, s, t) => Breaching(id, s)
    BY DEF Fires, FiresAtOnce, FiresHeld
  <2>. QED  BY <1>1, <2>1, <2>2
<1>3. Rules[id.rule].sustain \in Nat
  BY RuleType
<1>4. CASE id \notin DOMAIN states
  <2>1. breach'[id] = t
    BY <1>1, <1>2, <1>4 DEF MapMatchesReadings
  <2>2. Fires(id, s, t) <=> Rules[id.rule].sustain = 0
    BY <1>4 DEF Fires, FiresAtOnce, FiresHeld, InPhase
  <2>. QED  BY <1>3, <1>4, <2>1, <2>2 DEF FiringSubjects
<1>5. CASE InPhase(id, "Pending")
  <2>1. id \in DOMAIN breach /\ states[id].since = breach[id]
    BY <1>5 DEF InPhase, MapMatchesReadings
  <2>2. breach'[id] = breach[id]
    BY <1>1, <1>2, <2>1
  <2>3. breach[id] \in Nat /\ breach[id] <= t
    BY <2>1 DEF HTypeOK, TypeOK
  <2>4. Held(id, t) = t - breach'[id]
    BY <2>1, <2>2, <2>3, ElapsedNat DEF Held
  <2>5. Fires(id, s, t) <=> Held(id, t) >= Rules[id.rule].sustain
    BY <1>5 DEF Fires, FiresAtOnce, FiresHeld, InPhase
  <2>. QED  BY <1>5, <2>4, <2>5 DEF InPhase, FiringSubjects
<1>6. CASE InPhase(id, "Firing")
  BY <1>6 DEF InPhase, Fires, FiresAtOnce, FiresHeld, FiringSubjects
<1>. QED  BY <1>4, <1>5, <1>6 DEF InPhase, TypeOK, Phases

LEMMA EndedLeftTheirBand ==
  ASSUME HInv, NEW s \in Snapshots, NEW t \in Nat, HEvaluate(s, t)
  PROVE  {e.subject : e \in {x \in events' : x.kind # "Fired"}} = FiringSubjects \ beyond'
<1>. TypeOK /\ LiveSubjects /\ Evaluate(s, t)
  BY DEF HInv, IInv, HEvaluate
<1>1. \A id : id \in {e.subject : e \in {x \in events' : x.kind # "Fired"}}
                <=> InPhase(id, "Firing") /\ (Observed(id, s) => ~ StillActive(id, s))
  BY EndedEvents
<1>2. \A id : id \in FiringSubjects <=> InPhase(id, "Firing") /\ id \in SubjectIds
  BY DEF FiringSubjects, InPhase, TypeOK
<1>3. \A id : InPhase(id, "Firing") => id \in SubjectIds
  BY DEF InPhase, TypeOK
<1>4. \A id \in SubjectIds : id \in beyond' <=> Observed(id, s) /\ StillActive(id, s)
  BY DEF HEvaluate, Breaching, StillActive
<1>. QED  BY <1>1, <1>2, <1>3, <1>4

LEMMA AlertsFollow ==
  ASSUME HInv, NEW s \in Snapshots, NEW t \in Nat, HEvaluate(s, t)
  PROVE  FiringSubjects' =
           (FiringSubjects \cap beyond')
             \cup {e.subject : e \in {x \in events' : x.kind = "Fired"}}
<1>. TypeOK /\ LiveSubjects /\ Evaluate(s, t)
  BY DEF HInv, IInv, HEvaluate
<1>1. \A id : id \in {e.subject : e \in {x \in events' : x.kind = "Fired"}}
                <=> id \in SubjectIds /\ Observed(id, s) /\ Fires(id, s, t)
  BY FiredEvents
<1>2. \A id : id \in beyond' <=> id \in SubjectIds /\ Observed(id, s) /\ StillActive(id, s)
  BY DEF HEvaluate, Breaching, StillActive
<1>3. \A id : id \in FiringSubjects' <=>
              /\ id \in SubjectIds
              /\ Observed(id, s)
              /\ Opens(id, s) \/ FiresAtOnce(id, s) \/ Kept(id, s)
              /\ StateAfter(id, s, t).phase = "Firing"
  BY NextMap DEF FiringSubjects
<1>. SUFFICES ASSUME NEW id \in SubjectIds, Observed(id, s)
              PROVE  (/\ Opens(id, s) \/ FiresAtOnce(id, s) \/ Kept(id, s)
                      /\ StateAfter(id, s, t).phase = "Firing")
                       <=> \/ id \in FiringSubjects /\ StillActive(id, s)
                           \/ Fires(id, s, t)
  BY <1>1, <1>2, <1>3
<1>4. CASE Opens(id, s)
  <2>1. id \notin FiringSubjects /\ ~ Fires(id, s, t)
    BY <1>4 DEF Opens, FiringSubjects, Fires, FiresAtOnce, FiresHeld, InPhase
  <2>2. StateAfter(id, s, t).phase = "Pending"
    BY <1>4 DEF StateAfter
  <2>. QED  BY <2>1, <2>2
<1>5. CASE ~ Opens(id, s) /\ Fires(id, s, t)
  <2>1. FiresAtOnce(id, s) \/ Kept(id, s)
    BY <1>5 DEF Fires, FiresHeld, Kept, Drops, Clears, InPhase
  <2>2. StateAfter(id, s, t).phase = "Firing"
    BY <1>5 DEF StateAfter
  <2>. QED  BY <1>5, <2>1, <2>2
<1>6. CASE ~ Opens(id, s) /\ ~ Fires(id, s, t)
  <2>1. id \in DOMAIN states => StateAfter(id, s, t).phase = states[id].phase
    BY <1>6 DEF StateAfter, TypeOK
  <2>2. ~ FiresAtOnce(id, s)
    BY <1>6 DEF Fires
  <2>3. id \in FiringSubjects => ~ Drops(id, s)
    BY DEF FiringSubjects, Drops, InPhase
  <2>. QED  BY <1>6, <2>1, <2>2, <2>3 DEF Kept, Clears, InPhase, FiringSubjects
<1>. QED  BY <1>4, <1>5, <1>6

(* The engine implements the contract, for any rules whose clear boundary  *)
(* is on the quiet side of the threshold: pending timers, the deadband and *)
(* the reaping pass switch each alert on when its condition has held for   *)
(* the sustain time and off when its reading leaves the band or is no      *)
(* longer taken, and announce each change once.                            *)
THEOREM EngineImplementsContract == HSpec => ImplementsContract
<1>1. HInit => Contract!Init
  <2>. SUFFICES ASSUME HInit PROVE Contract!Init
    OBVIOUS
  <2>1. DOMAIN states = {} /\ events = {} /\ beyond = {} /\ breach = [id \in {} |-> 0] /\ now = 0
    BY DEF HInit, Init
  <2>. QED  BY <2>1 DEF Contract!Init, FiringSubjects
<1>2. HInv /\ HInv' /\ [HNext]_hvars => [Contract!Evaluate]_(Contract!vars)
  <2>1. ASSUME HInv, HTypeOK', NEW s \in Snapshots, NEW d \in 0 .. MaxStep,
               HEvaluate(s, now + d)
        PROVE  Contract!Evaluate
    <3>1. now + d \in Nat /\ now <= now + d /\ now' = now + d
      BY <2>1, DomainAssumption DEF HInv, IInv, TypeOK, HEvaluate, Evaluate
    <3>2. breach' = [id \in DOMAIN breach' |->
                       IF id \in DOMAIN breach THEN breach[id] ELSE now']
      BY <2>1, <3>1 DEF HEvaluate, Breaching, StillActive
    <3>3. Contract!Observe
      BY <2>1, <3>1, <3>2 DEF Contract!Observe, HTypeOK
    <3>4. {e.subject : e \in {x \in events' : x.kind = "Fired"}} = Contract!Due
      <4>1. \A id \in DOMAIN breach' : id \in SubjectIds
        BY <2>1 DEF HTypeOK
      <4>. QED  BY <2>1, <3>1, <4>1, StartedAreDue DEF Contract!Due
    <3>. QED
      BY <2>1, <3>1, <3>3, <3>4, EndedLeftTheirBand, AlertsFollow DEF Contract!Evaluate
  <2>2. ASSUME UNCHANGED hvars
        PROVE  UNCHANGED Contract!vars
    BY <2>2 DEF hvars, Contract!vars, FiringSubjects
  <2>. QED  BY <2>1, <2>2 DEF HInv, HNext
<1>. QED  BY <1>1, <1>2, HInvariance, PTL DEF HSpec, ImplementsContract, Contract!Spec
=============================================================================
