--------------------------- MODULE AlertContract ---------------------------
(***************************************************************************)
(* What the alert engine promises the author of a rule, with no phases and *)
(* no timers to restart: an alert goes on exactly when its condition has   *)
(* held at every evaluation for the rule's sustain time, goes off exactly  *)
(* when its reading is no longer beyond the clear boundary or can no       *)
(* longer be observed, and every change is announced once.                 *)
(***************************************************************************)
EXTENDS Integers

CONSTANTS
  Subjects,  \* everything an alert can be about
  Sustain    \* Sustain[x]: how long x must breach before its alert goes on

VARIABLES
  clock,     \* instant of the last evaluation
  breach,    \* breach[x]: first instant of x's unbroken run of breaching readings
  beyond,    \* subjects whose last reading was beyond the clear boundary
  alerts,    \* subjects whose alert is on
  started,   \* alerts announced as on by the last evaluation
  ended      \* alerts announced as off by the last evaluation

vars == <<clock, breach, beyond, alerts, started, ended>>

Init ==
  /\ clock = 0
  /\ DOMAIN breach = {}
  /\ beyond = {}
  /\ alerts = {}
  /\ started = {}
  /\ ended = {}

(* A reading beyond the threshold is beyond the clear boundary too, so the *)
(* runs of the subjects in breach' lie inside beyond'.                     *)
Observe ==
  /\ clock' \in Nat
  /\ clock' >= clock
  /\ beyond' \subseteq Subjects
  /\ DOMAIN breach' \subseteq beyond'
  /\ breach' = [x \in DOMAIN breach' |->
                  IF x \in DOMAIN breach THEN breach[x] ELSE clock']

Due == {x \in DOMAIN breach' \ alerts : clock' - breach'[x] >= Sustain[x]}

Evaluate ==
  /\ Observe
  /\ started' = Due
  /\ ended' = alerts \ beyond'
  /\ alerts' = (alerts \cap beyond') \cup started'

Spec == Init /\ [][Evaluate]_vars
=============================================================================
