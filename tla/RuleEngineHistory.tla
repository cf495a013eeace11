------------------------- MODULE RuleEngineHistory -------------------------
(***************************************************************************)
(* RuleEngine with two history variables that record the readings the      *)
(* engine itself forgets.  With them the engine implements AlertContract.  *)
(* They observe; no action of the engine reads them.                       *)
(***************************************************************************)
EXTENDS RuleEngine

VARIABLES
  breach,    \* subject -> first instant of its unbroken run of breaching readings
  beyond     \* subjects whose last reading was beyond the clear boundary

hvars == <<states, tick, now, sampled, events, breach, beyond>>

HTypeOK ==
  /\ TypeOK
  /\ beyond \subseteq SubjectIds
  /\ DOMAIN breach \subseteq beyond
  /\ breach = [id \in DOMAIN breach |-> breach[id]]
  /\ \A id \in DOMAIN breach : breach[id] \in Nat /\ breach[id] <= now

HInit ==
  /\ Init
  /\ breach = [id \in {} |-> 0]
  /\ beyond = {}

HEvaluate(s, t) ==
  /\ Evaluate(s, t)
  /\ breach' = [id \in {x \in SubjectIds :
                   Observed(x, s) /\ Beyond(Rules[x.rule], Reading(x, s), Rules[x.rule].threshold)} |->
                  IF id \in DOMAIN breach THEN breach[id] ELSE t]
  /\ beyond' = {id \in SubjectIds :
                  Observed(id, s) /\ Beyond(Rules[id.rule], Reading(id, s), Rules[id.rule].clear)}

HNext == \E s \in Snapshots, d \in 0 .. MaxStep : HEvaluate(s, now + d)

HSpec == HInit /\ [][HNext]_hvars

-----------------------------------------------------------------------------
(* The engine's map tells the truth about the readings: a pending subject  *)
(* has breached at every evaluation since its timer started, a firing one  *)
(* has not come back to its clear boundary, and nothing that is breaching  *)
(* is missing from the map.                                                *)
MapMatchesReadings ==
  /\ \A id \in DOMAIN states :
       /\ states[id].phase = "Pending" =>
            id \in DOMAIN breach /\ states[id].since = breach[id]
       /\ states[id].phase = "Firing" => id \in beyond
  /\ DOMAIN breach \subseteq DOMAIN states

Contract ==
  INSTANCE AlertContract WITH
    Subjects <- SubjectIds,
    Sustain  <- [id \in SubjectIds |-> Rules[id.rule].sustain],
    clock    <- now,
    alerts   <- FiringSubjects,
    started  <- {e.subject : e \in {x \in events : x.kind = "Fired"}},
    ended    <- {e.subject : e \in {x \in events : x.kind # "Fired"}}

(* The engine implements the contract: Pending timers that restart after a *)
(* dropout, the deadband and the reaping pass together switch each alert   *)
(* on and off exactly when the readings say so, with one event per change. *)
ImplementsContract == Contract!Spec
=============================================================================
