------------------------------- MODULE LogOps -------------------------------
(***************************************************************************)
(* Pushing onto a log that keeps at most cap items, oldest first: what     *)
(* Ring::push of src/ring.rs does to the sequence iter_chrono yields.      *)
(***************************************************************************)
EXTENDS Integers, Sequences

(* A plausible defect: a history that only ever grows. *)
PushWithoutBound(log, v, cap) == Append(log, v)

PushOnto(log, v, cap) ==
  IF Len(log) < cap THEN Append(log, v) ELSE Append(Tail(log), v)
=============================================================================
