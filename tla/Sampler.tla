------------------------------ MODULE Sampler ------------------------------
(***************************************************************************)
(* The background sampler of src/sampler.rs and the threads that read from *)
(* it.  One thread repeats: scan /proc, diff, evaluate, all without a      *)
(* lock; hand the results over under the write lock; count the tick;       *)
(* sleep.  The owner of the handle and other threads read under the read   *)
(* lock; the owner stops the sampler and joins it.                         *)
(*                                                                         *)
(* A sample is the number of the successful scan that took it; a snapshot  *)
(* is the pair of samples it was computed from.  The engine appears by its *)
(* contract (AlertContract): the alerts that are on, and one event for     *)
(* each that changes.  The rings appear by theirs (BoundedLog).  How long  *)
(* things take is the subject of Cadence.                                  *)
(***************************************************************************)
EXTENDS LogOps, SequencesExt

CONSTANTS
  Readers,     \* threads that read the shared state
  Owner,       \* the reader that holds the SamplerHandle
  Alerts,      \* what the engine can raise
  HistoryLen,  \* SamplerConfig.history_len
  EventLogLen, \* SamplerConfig.event_log_len
  None,        \* no sample, or no snapshot
  MaxScans     \* bound: successful scans explored; later ones fail

Scans     == 1 .. MaxScans
Snapshots == [from : Scans, to : Scans]
Event     == [alert : Alerts, on : BOOLEAN]

ASSUME SamplerAssumption ==
  /\ Owner \in Readers
  /\ None \notin Scans \cup Snapshots
  /\ HistoryLen \in Nat \ {0}
  /\ EventLogLen \in Nat \ {0}
  /\ IsFiniteSet(Alerts)
  /\ MaxScans \in Nat

VARIABLES
  pc,          \* the sampler thread
  prev,        \* the sample the next one is compared with, or None
  scanned,     \* successful scans so far
  firing,      \* alerts on in the engine
  batch,       \* results of this cycle, not handed over yet
  shared,      \* the Shared behind the lock
  writer,      \* the sampler and the lock: "no", "waiting" or "holding"
  reader,      \* each reader: "idle", "waiting", "reading", "joining", "joined"
  stop         \* the stop flag

vars == <<pc, prev, scanned, firing, batch, shared, writer, reader, stop>>

Batch  == [snapshot : Snapshots \cup {None}, events : Seq(Event),
           active : SUBSET Alerts, failed : BOOLEAN]
Shared == [latest : Snapshots \cup {None}, history : Seq(Snapshots),
           events : Seq(Event), active : SUBSET Alerts, failed : BOOLEAN]

TypeOK ==
  /\ pc \in {"check", "collect", "lock", "acquire", "point", "events", "swap",
             "tick", "sleep", "done"}
  /\ prev \in Scans \cup {None}
  /\ scanned \in 0 .. MaxScans
  /\ firing \subseteq Alerts
  /\ batch \in Batch
  /\ shared \in Shared
  /\ Len(shared.history) <= HistoryLen
  /\ Len(shared.events) <= EventLogLen
  /\ writer \in {"no", "waiting", "holding"}
  /\ reader \in [Readers -> {"idle", "waiting", "reading", "joining", "joined"}]
  /\ stop \in BOOLEAN

-----------------------------------------------------------------------------
Init ==
  /\ pc = "check"
  /\ prev = None
  /\ scanned = 0
  /\ firing = {}
  /\ batch = [snapshot |-> None, events |-> <<>>, active |-> {}, failed |-> FALSE]
  /\ shared = [latest |-> None, history |-> <<>>, events |-> <<>>, active |-> {},
               failed |-> FALSE]
  /\ writer = "no"
  /\ reader = [r \in Readers |-> "idle"]
  /\ stop = FALSE

-----------------------------------------------------------------------------
(* Plausible defects, each in place of the action of the same shape. *)
CheckIgnoresFlag ==
  /\ pc = "check"
  /\ pc' = "collect"
  /\ UNCHANGED <<prev, scanned, firing, batch, shared, writer, reader, stop>>

CheckThenLock ==
  /\ pc = "check"
  /\ \A r \in Readers : reader[r] # "reading"
  /\ pc' = IF stop THEN "done" ELSE "collect"
  /\ writer' = IF stop THEN "no" ELSE "holding"
  /\ UNCHANGED <<prev, scanned, firing, batch, shared, reader, stop>>

ScanFailureLosesBaseline ==
  /\ pc = "collect"
  /\ prev' = None
  /\ batch' = [snapshot |-> None, events |-> <<>>, active |-> firing, failed |-> TRUE]
  /\ pc' = "lock"
  /\ UNCHANGED <<scanned, firing, shared, writer, reader, stop>>

ScanFailureDropsAlerts ==
  /\ pc = "collect"
  /\ batch' = [snapshot |-> None, events |-> <<>>, active |-> {}, failed |-> TRUE]
  /\ pc' = "lock"
  /\ UNCHANGED <<prev, scanned, firing, shared, writer, reader, stop>>

StopSkipsHandover ==
  /\ pc = "lock"
  /\ writer' = IF stop THEN "no" ELSE "waiting"
  /\ pc' = IF stop THEN "done" ELSE "acquire"
  /\ UNCHANGED <<prev, scanned, firing, batch, shared, reader, stop>>

StopDetaches ==
  /\ reader[Owner] = "joining"
  /\ reader' = [reader EXCEPT ![Owner] = "joined"]
  /\ UNCHANGED <<pc, prev, scanned, firing, batch, shared, writer, stop>>

-----------------------------------------------------------------------------
(* while !stop *)
Check ==
  /\ pc = "check"
  /\ pc' = IF stop THEN "done" ELSE "collect"
  /\ UNCHANGED <<prev, scanned, firing, batch, shared, writer, reader, stop>>

(* The events that take the engine from one set of active alerts to       *)
(* another, in any order: evaluate visits hash maps.                      *)
Transitions(old, new) ==
  SetToSeqs({[alert |-> a, on |-> TRUE]  : a \in new \ old} \cup
            {[alert |-> a, on |-> FALSE] : a \in old \ new})

(* collect fails: no snapshot, no evaluation, the old sample is kept. *)
ScanFails ==
  /\ pc = "collect"
  /\ batch' = [snapshot |-> None, events |-> <<>>, active |-> firing, failed |-> TRUE]
  /\ pc' = "lock"
  /\ UNCHANGED <<prev, scanned, firing, shared, writer, reader, stop>>

(* The first sample is only a baseline. *)
ScanBaseline ==
  /\ pc = "collect" /\ prev = None
  /\ scanned < MaxScans
  /\ scanned' = scanned + 1
  /\ prev' = scanned + 1
  /\ batch' = [snapshot |-> None, events |-> <<>>, active |-> firing, failed |-> FALSE]
  /\ pc' = "lock"
  /\ UNCHANGED <<firing, shared, writer, reader, stop>>

(* collect, diff against the previous sample, evaluate. *)
ScanAndEvaluate ==
  /\ pc = "collect" /\ prev # None
  /\ scanned < MaxScans
  /\ scanned' = scanned + 1
  /\ prev' = scanned + 1
  /\ \E active \in SUBSET Alerts : \E events \in Transitions(firing, active) :
       /\ firing' = active
       /\ batch' = [snapshot |-> [from |-> prev, to |-> scanned + 1],
                    events |-> events, active |-> active, failed |-> FALSE]
  /\ pc' = "lock"
  /\ UNCHANGED <<shared, writer, reader, stop>>

Scan == ScanFails \/ ScanBaseline \/ ScanAndEvaluate

-----------------------------------------------------------------------------
(* std's RwLock on Linux: a writer waits until no reader is in, and while  *)
(* it waits no further reader is let in.                                   *)
RequestWrite ==
  /\ pc = "lock"
  /\ writer' = "waiting"
  /\ pc' = "acquire"
  /\ UNCHANGED <<prev, scanned, firing, batch, shared, reader, stop>>

AcquireWrite ==
  /\ pc = "acquire"
  /\ \A r \in Readers : reader[r] # "reading"
  /\ writer' = "holding"
  /\ pc' = "point"
  /\ UNCHANGED <<prev, scanned, firing, batch, shared, reader, stop>>

(* The handover, step by step as the code does it under the guard. *)
PushPoint ==
  /\ pc = "point"
  /\ shared' = IF batch.snapshot = None THEN shared
               ELSE [shared EXCEPT !.history = PushOnto(@, batch.snapshot, HistoryLen)]
  /\ pc' = "events"
  /\ UNCHANGED <<prev, scanned, firing, batch, writer, reader, stop>>

PushEvent ==
  /\ pc = "events" /\ batch.events # <<>>
  /\ shared' = [shared EXCEPT !.events = PushOnto(@, Head(batch.events), EventLogLen)]
  /\ batch' = [batch EXCEPT !.events = Tail(@)]
  /\ UNCHANGED <<pc, prev, scanned, firing, writer, reader, stop>>

EventsPushed ==
  /\ pc = "events" /\ batch.events = <<>>
  /\ pc' = "swap"
  /\ UNCHANGED <<prev, scanned, firing, batch, shared, writer, reader, stop>>

SwapIn ==
  /\ pc = "swap"
  /\ shared' = [shared EXCEPT
                  !.latest = IF batch.snapshot = None THEN @ ELSE batch.snapshot,
                  !.active = batch.active,
                  !.failed = batch.failed]
  /\ writer' = "no"
  /\ pc' = "tick"
  /\ UNCHANGED <<prev, scanned, firing, batch, reader, stop>>

(* ticks is counted, then the thread sleeps for the rest of the interval,  *)
(* or does not when there is none: an overrun.                             *)
TickAndRest ==
  /\ pc = "tick"
  /\ pc' \in {"sleep", "check"}
  /\ UNCHANGED <<prev, scanned, firing, batch, shared, writer, reader, stop>>

(* The sleep ends at its deadline, or at the slice that notices the flag. *)
WakeUp ==
  /\ pc = "sleep"
  /\ pc' = "check" \/ (stop /\ pc' = "done")
  /\ UNCHANGED <<prev, scanned, firing, batch, shared, writer, reader, stop>>

-----------------------------------------------------------------------------
WantRead(r) ==
  /\ reader[r] = "idle"
  /\ reader' = [reader EXCEPT ![r] = "waiting"]
  /\ UNCHANGED <<pc, prev, scanned, firing, batch, shared, writer, stop>>

AcquireRead(r) ==
  /\ reader[r] = "waiting"
  /\ writer = "no"
  /\ reader' = [reader EXCEPT ![r] = "reading"]
  /\ UNCHANGED <<pc, prev, scanned, firing, batch, shared, writer, stop>>

ReleaseRead(r) ==
  /\ reader[r] = "reading"
  /\ reader' = [reader EXCEPT ![r] = "idle"]
  /\ UNCHANGED <<pc, prev, scanned, firing, batch, shared, writer, stop>>

(* SamplerHandle::stop, and its Drop: the flag, then the join.  The owner  *)
(* does neither while it holds a read guard borrowed from the handle.      *)
Stop ==
  /\ reader[Owner] = "idle"
  /\ stop' = TRUE
  /\ reader' = [reader EXCEPT ![Owner] = "joining"]
  /\ UNCHANGED <<pc, prev, scanned, firing, batch, shared, writer>>

Join ==
  /\ reader[Owner] = "joining"
  /\ pc = "done"
  /\ reader' = [reader EXCEPT ![Owner] = "joined"]
  /\ UNCHANGED <<pc, prev, scanned, firing, batch, shared, writer, stop>>

Handover == RequestWrite \/ AcquireWrite \/ PushPoint \/ PushEvent \/ EventsPushed \/ SwapIn

Next ==
  \/ Check \/ Scan \/ Handover \/ TickAndRest \/ WakeUp
  \/ \E r \in Readers : WantRead(r) \/ AcquireRead(r) \/ ReleaseRead(r)
  \/ Stop \/ Join

Spec == Init /\ [][Next]_vars

(* The lock and the scheduler: a handover begun goes on, readers leave,    *)
(* and a reader finds the lock free if it is free again and again.         *)
LockFairness ==
  /\ WF_vars(Handover)
  /\ \A r \in Readers : SF_vars(AcquireRead(r)) /\ WF_vars(ReleaseRead(r))

(* The sampler's own steps too, and the join: a scan ends, a sleep ends. *)
ThreadFairness ==
  WF_vars(Check \/ Scan \/ TickAndRest \/ WakeUp) /\ WF_vars(Join)

LockFairSpec == Spec /\ LockFairness

-----------------------------------------------------------------------------
(* The last entry of a log about an alert. *)
IsLastWord(log, i) == \A j \in i + 1 .. Len(log) : log[j].alert # log[i].alert

(* One cycle's results belong together: the latest snapshot is the newest  *)
(* history point, each snapshot starts at the sample where the one before  *)
(* it ended, even across failed scans, and what the event log says last of *)
(* an alert is how it is.                                                  *)
Coherent ==
  LET h == shared.history  log == shared.events IN
  /\ shared.latest = IF h = <<>> THEN None ELSE Last(h)
  /\ \A i \in 1 .. Len(h) - 1 : h[i + 1].from = h[i].to
  /\ \A i \in 1 .. Len(log) :
       IsLastWord(log, i) => (log[i].on <=> log[i].alert \in shared.active)

(* Whoever holds the read lock sees the results of whole cycles: never a   *)
(* history point without its snapshot, nor an event without its alert.     *)
ReadersSeeWholeCycles ==
  (\E r \in Readers : reader[r] = "reading") => Coherent

(* The shared state as it will be when the hand-over in progress is done.  *)
(* A cycle is published at the moment the write lock is taken.             *)
Published ==
  IF pc \notin {"point", "events", "swap"} THEN shared
  ELSE [latest  |-> IF batch.snapshot = None THEN shared.latest ELSE batch.snapshot,
        history |-> IF pc = "point" /\ batch.snapshot # None
                      THEN PushOnto(shared.history, batch.snapshot, HistoryLen)
                      ELSE shared.history,
        events  |-> FoldLeft(LAMBDA log, e : PushOnto(log, e, EventLogLen),
                             shared.events, batch.events),
        active  |-> batch.active,
        failed  |-> batch.failed]

Publishing ==
  INSTANCE Publication WITH published <- Published, closed <- reader[Owner] = "joined"

(* The sampler publishes whole cycles and nothing else: each follows from  *)
(* the one before it even across failed scans and the thread's many steps, *)
(* and after stop has returned there is none.                              *)
ImplementsPublication == Publishing!Spec

(* Once stop or Drop has returned, the shared state never changes again.   *)
FrozenAfterJoin == [][reader[Owner] = "joined" => UNCHANGED shared]_vars

(* A stop request costs no results: when the thread has ended, however     *)
(* early the flag was set, the last cycle that measured something has been *)
(* handed over; the alerts shown are those on in the engine, and latest    *)
(* ends at the last sample taken (sampler.rs:122-171).                     *)
StopLosesNoCycle ==
  pc = "done" =>
    /\ shared.active = firing
    /\ IF shared.latest = None THEN scanned < 2 ELSE shared.latest.to = scanned

(* A reader never waits on a scan or on a sleep: it gets in even if the    *)
(* scan in progress never ends.                                            *)
ReadersGetIn == \A r \in Readers : reader[r] = "waiting" ~> reader[r] = "reading"

(* stop returns if scans and sleeps end: the sampler notices the flag in   *)
(* every phase, and nobody holds what it needs to get there.               *)
StopReturns == ThreadFairness => (stop ~> reader[Owner] = "joined")
=============================================================================
