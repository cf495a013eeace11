----------------------------- MODULE BoundedLog -----------------------------
(***************************************************************************)
(* What a caller of Ring relies on: a log of the last Cap items pushed     *)
(* since the last clear, oldest first.  A push into a full log gives back  *)
(* the item it displaces; every other call gives back nothing.             *)
(***************************************************************************)
EXTENDS LogOps

CONSTANTS
  Items,  \* what can be pushed
  None,   \* not an item
  Cap     \* the most items the log holds

VARIABLES
  log,      \* the items held, oldest first
  pushed,   \* pushes ever, clears notwithstanding
  evicted   \* what the last call gave back

vars == <<log, pushed, evicted>>

Displaced(l) == IF Len(l) < Cap THEN None ELSE Head(l)

Init == log = <<>> /\ pushed = 0 /\ evicted = None

Push(v) ==
  /\ log' = PushOnto(log, v, Cap)
  /\ pushed' = pushed + 1
  /\ evicted' = Displaced(log)

Clear == log' = <<>> /\ evicted' = None /\ UNCHANGED pushed

Next == Clear \/ \E v \in Items : Push(v)

Spec == Init /\ [][Next]_vars
=============================================================================
