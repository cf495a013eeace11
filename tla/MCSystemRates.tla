--------------------------- MODULE MCSystemRates ----------------------------
(***************************************************************************)
(* A small machine for TLC: two cores, loopback and one interface, and a   *)
(* memory that is healthy or exhausted, with and without MemAvailable.     *)
(***************************************************************************)
EXTENDS SystemRates

MCMemories ==
  {[free |-> 2, cache |-> 3, shared |-> 1, used |-> 4, reports |-> TRUE],
   [free |-> 2, cache |-> 3, shared |-> 1, used |-> 4, reports |-> FALSE],
   [free |-> 0, cache |-> 0, shared |-> 3, used |-> 7, reports |-> TRUE]}
=============================================================================
