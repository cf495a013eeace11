---------------------------- MODULE Publication -----------------------------
(***************************************************************************)
(* What the sampler promises its readers, with no thread and no lock: the  *)
(* published state changes by whole cycles, until it is closed.  A cycle   *)
(* failed, only set a baseline, or gives a snapshot that starts where the  *)
(* one before it ended, together with its history point, the alerts that   *)
(* are then on, and one event for each that changed.                       *)
(***************************************************************************)
EXTENDS LogOps, SequencesExt

CONSTANTS Alerts, HistoryLen, EventLogLen, None

VARIABLES published, closed

vars == <<published, closed>>

Init ==
  /\ published = [latest |-> None, history |-> <<>>, events |-> <<>>, active |-> {},
                  failed |-> FALSE]
  /\ closed = FALSE

Failure == published' = [published EXCEPT !.failed = TRUE]

Baseline ==
  /\ published.latest = None
  /\ published' = [published EXCEPT !.failed = FALSE]

Follows(snapshot) ==
  /\ snapshot.from < snapshot.to
  /\ published.latest # None => snapshot.from = published.latest.to

(* The log with the changes from one set of alerts to another, in some     *)
(* order, at its end.                                                      *)
Announced(log, old, new) ==
  LET changes == {[alert |-> a, on |-> a \in new] : a \in SymDiff(old, new)}
  IN {FoldLeft(LAMBDA l, e : PushOnto(l, e, EventLogLen), log, order) :
        order \in SetToSeqs(changes)}

Result ==
  LET snapshot == published'.latest  on == published'.active IN
  /\ snapshot # None /\ Follows(snapshot)
  /\ on \subseteq Alerts
  /\ published'.history = PushOnto(published.history, snapshot, HistoryLen)
  /\ published'.events \in Announced(published.events, published.active, on)
  /\ ~ published'.failed

Publish ==
  /\ ~ closed
  /\ Failure \/ Baseline \/ Result
  /\ UNCHANGED closed

Close ==
  /\ closed' = TRUE
  /\ UNCHANGED published

Next == Publish \/ Close

Spec == Init /\ [][Next]_vars
=============================================================================
