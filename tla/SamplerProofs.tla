--------------------------- MODULE SamplerProofs ---------------------------
(***************************************************************************)
(* Proofs about the sampler and its readers, for any number of readers,    *)
(* any finite set of alerts and any lengths of the two logs.               *)
(***************************************************************************)
EXTENDS Sampler, FiniteSetTheorems, FunctionTheorems, SequenceTheorems, TLAPS

HandingOver == pc \in {"point", "events", "swap"}
Undelivered == pc \in {"lock", "acquire", "point", "events", "swap"}

(* The lock excludes, and the thread and its owner part in order. *)
Locked ==
  /\ pc = "acquire" => writer = "waiting"
  /\ HandingOver => writer = "holding" /\ \A r \in Readers : reader[r] # "reading"
  /\ writer = "holding" => HandingOver
  /\ writer = "waiting" => pc = "acquire"
  /\ reader[Owner] = "joined" => pc = "done"
  /\ pc = "done" => stop

(* The last history point ends at sample s. *)
Tip(h, s) == h # <<>> => Last(h).to = s

(* How far the history and the latest snapshot have got in this cycle. *)
Linked ==
  LET h == shared.history IN
  /\ \A i \in 1 .. Len(h) - 1 : h[i + 1].from = h[i].to
  /\ IF pc \in {"lock", "acquire", "point"} /\ batch.snapshot # None
       THEN batch.snapshot.to = prev /\ Tip(h, batch.snapshot.from)
       ELSE Tip(h, prev)
  /\ IF pc \in {"events", "swap"} /\ batch.snapshot # None
       THEN h # <<>> /\ Last(h) = batch.snapshot
       ELSE shared.latest = IF h = <<>> THEN None ELSE Last(h)

(* A log, followed by the events still to come, says last of each alert    *)
(* whether it is among those that are on.                                  *)
Silent(s, a) == \A j \in 1 .. Len(s) : s[j].alert # a

Tells(log, pending, active) ==
  /\ \A i \in 1 .. Len(pending) :
       IsLastWord(pending, i) => (pending[i].on <=> pending[i].alert \in active)
  /\ \A i \in 1 .. Len(log) :
       IsLastWord(log, i) /\ Silent(pending, log[i].alert) =>
         (log[i].on <=> log[i].alert \in active)

Told ==
  /\ Undelivered => Tells(shared.events, batch.events, batch.active) /\ batch.active = firing
  /\ ~ Undelivered => shared.active = firing
  /\ ~ HandingOver => Tells(shared.events, <<>>, shared.active)
  /\ pc = "swap" => batch.events = <<>>

IInv == TypeOK /\ Locked /\ Linked /\ Told
-----------------------------------------------------------------------------
(* What PushOnto does, element by element: it drops the oldest of a full   *)
(* log, and the item pushed comes last.                                    *)
LEMMA PushIs ==
  ASSUME NEW S, NEW log \in Seq(S), NEW v \in S, NEW cap \in Nat \ {0}, Len(log) <= cap
  PROVE  LET out == PushOnto(log, v, cap)
             d   == IF Len(log) < cap THEN 0 ELSE 1
         IN /\ out \in Seq(S) /\ Len(out) <= cap /\ Len(out) = Len(log) + 1 - d
            /\ out # <<>> /\ out[Len(out)] = v
            /\ \A i \in 1 .. Len(out) - 1 : i + d \in 1 .. Len(log) /\ out[i] = log[i + d]
<1>1. CASE Len(log) < cap
  BY <1>1 DEF PushOnto
<1>2. CASE Len(log) = cap
  <2>1. /\ Tail(log) \in Seq(S) /\ Len(Tail(log)) = Len(log) - 1
        /\ \A i \in 1 .. Len(log) - 1 : Tail(log)[i] = log[i + 1]
    BY <1>2
  <2>2. PushOnto(log, v, cap) = Append(Tail(log), v)
    BY <1>2 DEF PushOnto
  <2>. QED  BY <1>2, <2>1, <2>2
<1>. QED  BY <1>1, <1>2

(* A history of links that meet stays one when the next link is pushed. *)
LEMMA PushLink ==
  ASSUME NEW h \in Seq(Snapshots), NEW v \in Snapshots, NEW cap \in Nat \ {0},
         Len(h) <= cap, Tip(h, v.from),
         \A i \in 1 .. Len(h) - 1 : h[i + 1].from = h[i].to
  PROVE  LET out == PushOnto(h, v, cap)
         IN /\ out \in Seq(Snapshots) /\ Len(out) <= cap
            /\ out # <<>> /\ out[Len(out)] = v
            /\ \A i \in 1 .. Len(out) - 1 : out[i + 1].from = out[i].to
<1>. DEFINE out == PushOnto(h, v, cap)
            d   == IF Len(h) < cap THEN 0 ELSE 1
<1>1. /\ out \in Seq(Snapshots) /\ Len(out) = Len(h) + 1 - d /\ d \in {0, 1}
      /\ Len(out) <= cap /\ out # <<>> /\ out[Len(out)] = v
      /\ \A i \in 1 .. Len(out) - 1 : i + d \in 1 .. Len(h) /\ out[i] = h[i + d]
  BY PushIs
<1>. HIDE DEF out, d
<1>2. ASSUME NEW i \in 1 .. Len(out) - 1
      PROVE  out[i + 1].from = out[i].to
  <2>1. CASE i + 1 = Len(out)
    <3>1. i + d = Len(h) /\ h # <<>>
      BY <1>1, <2>1
    <3>2. h[Len(h)].to = v.from
      BY <3>1 DEF Tip, Last
    <3>. QED  BY <1>1, <2>1, <3>1, <3>2
  <2>2. CASE i + 1 < Len(out)
    <3>1. i + 1 \in 1 .. Len(out) - 1 /\ i + d \in 1 .. Len(h) - 1 /\ (i + 1) + d = (i + d) + 1
      BY <1>1, <2>2
    <3>. QED  BY <1>1, <3>1
  <2>. QED  BY <1>1, <2>1, <2>2
<1>. QED  BY <1>1, <1>2 DEF out

(* What is said last is not changed by moving an event from the queue to   *)
(* the log, nor by the oldest entry that makes room for it.                *)
LEMMA PushTells ==
  ASSUME NEW log \in Seq(Event), NEW p \in Seq(Event), p # <<>>,
         NEW cap \in Nat \ {0}, Len(log) <= cap,
         NEW active, Tells(log, p, active)
  PROVE  Tells(PushOnto(log, Head(p), cap), Tail(p), active)
<1>. DEFINE e   == Head(p)
            q   == Tail(p)
            out == PushOnto(log, e, cap)
            d   == IF Len(log) < cap THEN 0 ELSE 1
<1>1. /\ e \in Event /\ e = p[1] /\ q \in Seq(Event) /\ Len(q) = Len(p) - 1 /\ Len(p) \in Nat \ {0}
      /\ \A i \in 1 .. Len(q) : q[i] = p[i + 1]
  OBVIOUS
<1>. HIDE DEF e, q
<1>2. /\ out \in Seq(Event) /\ Len(out) = Len(log) + 1 - d /\ d \in {0, 1} /\ Len(out) >= 1
      /\ out[Len(out)] = e
      /\ \A i \in 1 .. Len(out) - 1 : i + d \in 1 .. Len(log) /\ out[i] = log[i + d]
  <2>1. e \in Event
    BY <1>1
  <2>. QED  BY <2>1, PushIs
<1>. HIDE DEF out, d
<1>3. ASSUME NEW i \in 1 .. Len(q), IsLastWord(q, i)
      PROVE  q[i].on <=> q[i].alert \in active
  <2>1. i + 1 \in 1 .. Len(p) /\ q[i] = p[i + 1]
    BY <1>1
  <2>2. IsLastWord(p, i + 1)
    <3>. SUFFICES ASSUME NEW j \in (i + 1) + 1 .. Len(p) PROVE p[j].alert # p[i + 1].alert
      BY DEF IsLastWord
    <3>1. j - 1 \in i + 1 .. Len(q) /\ q[j - 1] = p[(j - 1) + 1] /\ (j - 1) + 1 = j
      BY <1>1
    <3>. QED  BY <1>3, <2>1, <3>1 DEF IsLastWord
  <2>. QED  BY <2>1, <2>2 DEF Tells
<1>4. ASSUME NEW i \in 1 .. Len(out), IsLastWord(out, i), Silent(q, out[i].alert)
      PROVE  out[i].on <=> out[i].alert \in active
  <2>1. CASE i = Len(out)
    <3>1. out[i] = p[1] /\ 1 \in 1 .. Len(p)
      BY <1>1, <1>2, <2>1
    <3>2. IsLastWord(p, 1)
      <4>. SUFFICES ASSUME NEW j \in 1 + 1 .. Len(p) PROVE p[j].alert # p[1].alert
        BY DEF IsLastWord
      <4>1. j - 1 \in 1 .. Len(q) /\ q[j - 1] = p[(j - 1) + 1] /\ (j - 1) + 1 = j
        BY <1>1
      <4>. QED  BY <1>4, <3>1, <4>1 DEF Silent
    <3>. QED  BY <3>1, <3>2 DEF Tells
  <2>2. CASE i < Len(out)
    <3>1. i \in 1 .. Len(out) - 1 /\ i + d \in 1 .. Len(log) /\ out[i] = log[i + d]
      BY <1>2, <2>2
    <3>2. IsLastWord(log, i + d)
      <4>. SUFFICES ASSUME NEW j \in (i + d) + 1 .. Len(log) PROVE log[j].alert # log[i + d].alert
        BY DEF IsLastWord
      <4>1. /\ j - d \in 1 .. Len(out) - 1 /\ j - d \in i + 1 .. Len(out)
            /\ (j - d) + d = j
        BY <1>2
      <4>2. out[j - d] = log[j]
        BY <1>2, <4>1
      <4>. QED  BY <1>4, <3>1, <4>1, <4>2 DEF IsLastWord
    <3>3. Silent(p, log[i + d].alert)
      <4>. SUFFICES ASSUME NEW j \in 1 .. Len(p) PROVE p[j].alert # log[i + d].alert
        BY DEF Silent
      <4>1. CASE j = 1
        <5>1. Len(out) \in i + 1 .. Len(out)
          BY <1>2, <2>2
        <5>. QED  BY <1>1, <1>2, <1>4, <3>1, <4>1, <5>1 DEF IsLastWord
      <4>2. CASE j > 1
        <5>1. j - 1 \in 1 .. Len(q) /\ q[j - 1] = p[(j - 1) + 1] /\ (j - 1) + 1 = j
          BY <1>1, <4>2
        <5>. QED  BY <1>4, <3>1, <5>1 DEF Silent
      <4>. QED  BY <4>1, <4>2
    <3>. QED  BY <3>1, <3>2, <3>3 DEF Tells
  <2>. QED  BY <1>2, <2>1, <2>2
<1>. QED  BY <1>3, <1>4 DEF Tells, out, q, e

(* An evaluation's events name exactly the alerts that change. *)
LEMMA TransitionsTell ==
  ASSUME NEW old \in SUBSET Alerts, NEW new \in SUBSET Alerts,
         NEW p \in Transitions(old, new),
         NEW log \in Seq(Event), Tells(log, <<>>, old)
  PROVE  p \in Seq(Event) /\ Tells(log, p, new)
<1>. DEFINE On  == {[alert |-> a, on |-> TRUE]  : a \in new \ old}
            Off == {[alert |-> a, on |-> FALSE] : a \in old \ new}
            S   == On \cup Off
            n   == Cardinality(S)
<1>1. IsFiniteSet(new \ old) /\ IsFiniteSet(old \ new)
  BY FS_Subset, SamplerAssumption
<1>2. IsFiniteSet(On)
  <2>. DEFINE f == [a \in new \ old |-> [alert |-> a, on |-> TRUE]]
  <2>1. f \in Surjection(new \ old, On)
    BY DEF Surjection
  <2>. QED  BY <1>1, <2>1, FS_Surjection
<1>3. IsFiniteSet(Off)
  <2>. DEFINE f == [a \in old \ new |-> [alert |-> a, on |-> FALSE]]
  <2>1. f \in Surjection(old \ new, Off)
    BY DEF Surjection
  <2>. QED  BY <1>1, <2>1, FS_Surjection
<1>4. IsFiniteSet(S) /\ n \in Nat
  BY <1>2, <1>3, FS_Union, FS_CardinalityType
<1>5. ASSUME NEW e \in S
      PROVE  e \in Event /\ (e.on <=> e.alert \in new)
  <2>1. CASE e \in On
    <3>1. PICK a \in new \ old : e = [alert |-> a, on |-> TRUE]
      BY <2>1
    <3>. QED  BY <3>1 DEF Event
  <2>2. CASE e \in Off
    <3>1. PICK a \in old \ new : e = [alert |-> a, on |-> FALSE]
      BY <2>2
    <3>. QED  BY <3>1 DEF Event
  <2>. QED  BY <2>1, <2>2
<1>6. ASSUME NEW a \in Alerts, ~ (a \in old <=> a \in new)
      PROVE  \E e \in S : e.alert = a
  <2>1. CASE a \in new \ old
    <3>1. [alert |-> a, on |-> TRUE] \in S
      BY <2>1
    <3>. QED  BY <3>1
  <2>2. CASE a \in old \ new
    <3>1. [alert |-> a, on |-> FALSE] \in S
      BY <2>2
    <3>. QED  BY <3>1
  <2>. QED  BY <1>6, <2>1, <2>2
<1>7. p \in [1 .. n -> S] /\ \A i, j \in 1 .. n : i # j => p[i] # p[j]
  BY DEF Transitions, SetToSeqs
<1>. HIDE DEF S, n
<1>8. p \in Surjection(1 .. n, S)
  <2>1. p \in Injection(1 .. n, S)
    BY <1>7, Fun_IsInj
  <2>2. Cardinality(1 .. n) = n
    BY <1>4, FS_Interval
  <2>. QED  BY <1>4, <2>1, <2>2, FS_Injection DEF n
<1>9. p \in Seq(Event) /\ Len(p) = n
  BY <1>4, <1>5, <1>7
<1>10. \A i \in 1 .. Len(p) : p[i].on <=> p[i].alert \in new
  BY <1>5, <1>7, <1>9
<1>11. ASSUME NEW i \in 1 .. Len(log), IsLastWord(log, i), Silent(p, log[i].alert)
       PROVE  log[i].on <=> log[i].alert \in new
  <2>1. log[i].on <=> log[i].alert \in old
    <3>1. Silent(<<>>, log[i].alert)
      BY DEF Silent
    <3>. QED  BY <1>11, <3>1 DEF Tells
  <2>2. log[i].alert \in Alerts
    <3>1. log[i] \in Event
      BY ElementOfSeq
    <3>. QED  BY <3>1 DEF Event
  <2>3. \A e \in S : e.alert # log[i].alert
    <3>. SUFFICES ASSUME NEW e \in S PROVE e.alert # log[i].alert
      OBVIOUS
    <3>1. \E j \in 1 .. n : p[j] = e
      BY <1>8 DEF Surjection
    <3>. QED  BY <1>9, <1>11, <3>1 DEF Silent
  <2>. QED  BY <1>6, <2>1, <2>2, <2>3
<1>. QED  BY <1>9, <1>10, <1>11 DEF Tells
-----------------------------------------------------------------------------
(* The constants' assumption, and what TypeOK says of the fields. *)
LEMMA Constants ==
  /\ Owner \in Readers /\ None \notin Scans /\ None \notin Snapshots
  /\ HistoryLen \in Nat \ {0} /\ EventLogLen \in Nat \ {0} /\ MaxScans \in Nat
BY SamplerAssumption

LEMMA Fields ==
  ASSUME TypeOK
  PROVE  /\ shared.latest \in Snapshots \cup {None} /\ shared.history \in Seq(Snapshots)
         /\ shared.events \in Seq(Event) /\ shared.active \in SUBSET Alerts
         /\ Len(shared.history) <= HistoryLen /\ Len(shared.events) <= EventLogLen
         /\ batch.snapshot \in Snapshots \cup {None} /\ batch.events \in Seq(Event)
         /\ batch.active \in SUBSET Alerts
BY DEF TypeOK, Shared, Batch

LEMMA Initially == Init => IInv
<1>. SUFFICES ASSUME Init PROVE IInv
  OBVIOUS
<1>. USE Constants DEF Init
<1>1. TypeOK
  <2>1. batch \in Batch
    BY DEF Batch
  <2>2. shared \in Shared /\ Len(shared.history) <= HistoryLen /\ Len(shared.events) <= EventLogLen
    BY DEF Shared
  <2>3. scanned \in 0 .. MaxScans /\ prev = None /\ firing \subseteq Alerts
    OBVIOUS
  <2>4. reader \in [Readers -> {"idle", "waiting", "reading", "joining", "joined"}]
    OBVIOUS
  <2>. QED  BY <2>1, <2>2, <2>3, <2>4 DEF TypeOK
<1>2. Locked
  BY DEF Locked, HandingOver
<1>3. Linked
  BY DEF Linked, Tip
<1>4. Told
  BY DEF Told, Undelivered, HandingOver, Tells
<1>. QED  BY <1>1, <1>2, <1>3, <1>4 DEF IInv

(* The scan: a snapshot starts at the sample the last one ended with, and  *)
(* the queued events tell the engine's new alerts from the published ones. *)
LEMMA EvaluateStep ==
  ASSUME IInv, ScanAndEvaluate
  PROVE  IInv'
<1>. USE Constants
<1>. PICK active \in SUBSET Alerts : \E events \in Transitions(firing, active) :
       /\ firing' = active
       /\ batch' = [snapshot |-> [from |-> prev, to |-> scanned + 1],
                    events |-> events, active |-> active, failed |-> FALSE]
  BY DEF ScanAndEvaluate
<1>1. PICK events \in Transitions(firing, active) :
        /\ firing' = active
        /\ batch' = [snapshot |-> [from |-> prev, to |-> scanned + 1],
                     events |-> events, active |-> active, failed |-> FALSE]
  OBVIOUS
<1>2. /\ pc = "collect" /\ pc' = "lock" /\ prev # None
      /\ scanned' = scanned + 1 /\ prev' = scanned + 1
      /\ UNCHANGED <<shared, writer, reader, stop>>
  BY DEF ScanAndEvaluate
<1>3. scanned + 1 \in Scans /\ prev \in Scans
  BY DEF ScanAndEvaluate, IInv, TypeOK, Scans
<1>4. events \in Seq(Event) /\ Tells(shared.events, events, active)
  <2>1. Tells(shared.events, <<>>, firing) /\ firing \in SUBSET Alerts
    BY <1>2 DEF IInv, TypeOK, Told, Undelivered, HandingOver
  <2>. QED  BY <2>1, Fields, TransitionsTell DEF IInv
<1>5. batch' \in Batch
  BY <1>1, <1>3, <1>4 DEF Batch, Snapshots
<1>6. TypeOK'
  BY <1>1, <1>2, <1>3, <1>5 DEF IInv, TypeOK, Scans
<1>7. Locked'
  BY <1>2 DEF IInv, Locked, HandingOver
<1>8. Linked'
  <2>1. /\ batch'.snapshot # None /\ batch'.snapshot.from = prev
        /\ batch'.snapshot.to = prev' /\ shared' = shared
    BY <1>1, <1>2, <1>3 DEF Snapshots
  <2>2. /\ Tip(shared.history, prev)
        /\ \A i \in 1 .. Len(shared.history) - 1 :
             shared.history[i + 1].from = shared.history[i].to
        /\ shared.latest = IF shared.history = <<>> THEN None ELSE Last(shared.history)
    BY <1>2 DEF IInv, Linked
  <2>. QED  BY <1>2, <2>1, <2>2 DEF Linked, Tip
<1>9. Told'
  BY <1>1, <1>2, <1>4 DEF IInv, Told, Undelivered, HandingOver
<1>. QED  BY <1>6, <1>7, <1>8, <1>9 DEF IInv

LEMMA PointStep ==
  ASSUME IInv, PushPoint
  PROVE  IInv'
<1>. TypeOK /\ Locked /\ Linked /\ Told
  BY DEF IInv
<1>1. /\ pc = "point" /\ pc' = "events"
      /\ UNCHANGED <<prev, scanned, firing, batch, writer, reader, stop>>
  BY DEF PushPoint
<1>2. CASE batch.snapshot = None
  <2>1. shared' = shared
    BY <1>2 DEF PushPoint
  <2>. QED  BY <1>1, <1>2, <2>1 DEF IInv, TypeOK, Locked, Linked, Told, HandingOver, Undelivered
<1>3. CASE batch.snapshot # None
  <2>. DEFINE out == PushOnto(shared.history, batch.snapshot, HistoryLen)
  <2>1. shared' = [shared EXCEPT !.history = out]
    BY <1>3 DEF PushPoint
  <2>2. /\ batch.snapshot \in Snapshots /\ batch.snapshot.to = prev
        /\ Tip(shared.history, batch.snapshot.from)
    BY <1>1, <1>3, Fields DEF Linked
  <2>3. /\ shared.history \in Seq(Snapshots) /\ Len(shared.history) <= HistoryLen
        /\ HistoryLen \in Nat \ {0}
        /\ \A i \in 1 .. Len(shared.history) - 1 :
             shared.history[i + 1].from = shared.history[i].to
    BY Constants, Fields DEF Linked
  <2>4. /\ out \in Seq(Snapshots) /\ Len(out) <= HistoryLen
        /\ out # <<>> /\ out[Len(out)] = batch.snapshot
        /\ \A i \in 1 .. Len(out) - 1 : out[i + 1].from = out[i].to
    BY <2>2, <2>3, PushLink
  <2>. HIDE DEF out
  <2>5. /\ shared' \in Shared /\ shared'.history = out /\ shared'.latest = shared.latest
        /\ shared'.events = shared.events /\ shared'.active = shared.active
    BY <2>1, <2>4, Fields DEF TypeOK, Shared
  <2>6. TypeOK'
    BY <1>1, <2>4, <2>5 DEF TypeOK
  <2>7. Locked'
    BY <1>1 DEF Locked, HandingOver
  <2>8. Linked'
    BY <1>1, <1>3, <2>2, <2>4, <2>5 DEF Linked, Tip, Last
  <2>9. Told'
    BY <1>1, <2>5 DEF Told, HandingOver, Undelivered
  <2>. QED  BY <2>6, <2>7, <2>8, <2>9 DEF IInv
<1>. QED  BY <1>2, <1>3

LEMMA EventStep ==
  ASSUME IInv, PushEvent
  PROVE  IInv'
<1>. USE Constants, Fields DEF IInv
<1>. DEFINE out == PushOnto(shared.events, Head(batch.events), EventLogLen)
<1>1. /\ pc = "events" /\ batch.events # <<>>
      /\ shared' = [shared EXCEPT !.events = out]
      /\ batch' = [batch EXCEPT !.events = Tail(batch.events)]
      /\ UNCHANGED <<pc, prev, scanned, firing, writer, reader, stop>>
  BY DEF PushEvent
<1>2. Head(batch.events) \in Event /\ Tail(batch.events) \in Seq(Event)
  BY <1>1
<1>3. out \in Seq(Event) /\ Len(out) <= EventLogLen
  BY <1>2, PushIs
<1>4. Tells(out, Tail(batch.events), batch.active)
  BY <1>1, PushTells DEF Told, Undelivered
<1>. HIDE DEF out
<1>5. /\ shared' \in Shared /\ shared'.history = shared.history
      /\ shared'.latest = shared.latest /\ shared'.events = out
      /\ shared'.active = shared.active
  BY <1>1, <1>3 DEF TypeOK, Shared
<1>6. /\ batch' \in Batch /\ batch'.snapshot = batch.snapshot
      /\ batch'.events = Tail(batch.events) /\ batch'.active = batch.active
  BY <1>1, <1>2 DEF TypeOK, Batch
<1>7. TypeOK'
  BY <1>1, <1>3, <1>5, <1>6 DEF TypeOK
<1>8. Locked'
  BY <1>1 DEF Locked, HandingOver
<1>9. Linked'
  BY <1>1, <1>5, <1>6 DEF Linked
<1>10. Told'
  BY <1>1, <1>4, <1>5, <1>6 DEF Told, HandingOver, Undelivered
<1>. QED  BY <1>7, <1>8, <1>9, <1>10

LEMMA SwapStep ==
  ASSUME IInv, SwapIn
  PROVE  IInv'
<1>. USE Constants, Fields DEF IInv
<1>1. /\ pc = "swap" /\ pc' = "tick" /\ writer' = "no"
      /\ shared' = [shared EXCEPT
                      !.latest = IF batch.snapshot = None THEN shared.latest ELSE batch.snapshot,
                      !.active = batch.active,
                      !.failed = batch.failed]
      /\ UNCHANGED <<prev, scanned, firing, batch, reader, stop>>
  BY DEF SwapIn
<1>2. /\ shared' \in Shared /\ shared'.history = shared.history
      /\ shared'.latest = IF batch.snapshot = None THEN shared.latest ELSE batch.snapshot
      /\ shared'.events = shared.events /\ shared'.active = batch.active
  BY <1>1 DEF TypeOK, Shared, Batch
<1>3. TypeOK'
  BY <1>1, <1>2 DEF TypeOK
<1>4. Locked'
  BY <1>1 DEF Locked, HandingOver
<1>5. Linked'
  BY <1>1, <1>2 DEF Linked, Tip
<1>6. Told'
  BY <1>1, <1>2 DEF Told, HandingOver, Undelivered
<1>. QED  BY <1>3, <1>4, <1>5, <1>6
(* A scan with no snapshot queues no event, and changes what is on nowhere. *)
LEMMA QuietScan ==
  ASSUME IInv, ScanFails \/ ScanBaseline
  PROVE  IInv'
<1>. USE Constants, Fields DEF IInv
<1>1. /\ pc = "collect" /\ pc' = "lock" /\ batch'.snapshot = None
      /\ batch'.events = <<>> /\ batch'.active = firing
      /\ UNCHANGED <<firing, shared, writer, reader, stop>>
  BY DEF ScanFails, ScanBaseline
<1>2. batch' \in Batch /\ prev' \in Scans \cup {None} /\ scanned' \in 0 .. MaxScans
  <2>1. batch' \in Batch
    <3>1. firing \in SUBSET Alerts
      BY DEF TypeOK
    <3>2. PICK f \in BOOLEAN :
            batch' = [snapshot |-> None, events |-> <<>>, active |-> firing, failed |-> f]
      BY DEF ScanFails, ScanBaseline
    <3>. QED  BY <3>1, <3>2 DEF Batch
  <2>2. CASE ScanFails
    BY <2>1, <2>2 DEF ScanFails, TypeOK
  <2>3. CASE ScanBaseline
    BY <2>1, <2>3 DEF ScanBaseline, TypeOK, Scans
  <2>. QED  BY <2>2, <2>3
<1>3. TypeOK'
  BY <1>1, <1>2 DEF TypeOK
<1>4. Locked'
  BY <1>1 DEF Locked, HandingOver
<1>5. Tip(shared.history, prev')
  <2>1. CASE ScanFails
    BY <1>1, <2>1 DEF ScanFails, Linked
  <2>2. CASE ScanBaseline
    <3>1. prev = None /\ Tip(shared.history, prev)
      BY <1>1, <2>2 DEF ScanBaseline, Linked
    <3>2. ASSUME shared.history # <<>> PROVE FALSE
      <4>1. Last(shared.history) \in Snapshots
        BY <3>2 DEF Last
      <4>2. Last(shared.history).to \in Scans
        BY <4>1 DEF Snapshots
      <4>. QED  BY <3>1, <3>2, <4>2 DEF Tip
    <3>. QED  BY <3>2 DEF Tip
  <2>. QED  BY <2>1, <2>2
<1>6. Linked'
  BY <1>1, <1>5 DEF Linked, Tip
<1>7. Told'
  BY <1>1 DEF Told, HandingOver, Undelivered
<1>. QED  BY <1>3, <1>4, <1>6, <1>7

(* The steps of the thread that leave the results alone. *)
LEMMA ThreadStep ==
  ASSUME IInv,
         Check \/ RequestWrite \/ AcquireWrite \/ EventsPushed \/ TickAndRest \/ WakeUp
  PROVE  IInv'
<1>. USE Constants DEF IInv
<1>1. UNCHANGED <<prev, scanned, firing, batch, shared, reader, stop>>
  BY DEF Check, RequestWrite, AcquireWrite, EventsPushed, TickAndRest, WakeUp
<1>2. \/ pc = "check" /\ pc' \in {"done", "collect"} /\ writer' = writer /\ (pc' = "done" => stop)
      \/ pc = "lock" /\ pc' = "acquire" /\ writer' = "waiting"
      \/ pc = "acquire" /\ pc' = "point" /\ writer' = "holding" /\ \A r \in Readers : reader[r] # "reading"
      \/ pc = "events" /\ pc' = "swap" /\ writer' = writer /\ batch.events = <<>>
      \/ pc = "tick" /\ pc' \in {"sleep", "check"} /\ writer' = writer
      \/ pc = "sleep" /\ pc' \in {"check", "done"} /\ writer' = writer /\ (pc' = "done" => stop)
  BY DEF Check, RequestWrite, AcquireWrite, EventsPushed, TickAndRest, WakeUp
<1>3. TypeOK'
  BY <1>1, <1>2 DEF TypeOK
<1>4. Locked'
  BY <1>1, <1>2 DEF Locked, HandingOver
<1>5. Linked'
  BY <1>1, <1>2 DEF Linked
<1>6. Told'
  BY <1>1, <1>2 DEF Told, HandingOver, Undelivered
<1>. QED  BY <1>3, <1>4, <1>5, <1>6

(* Readers and the owner only move themselves and the flag. *)
LEMMA ReaderStep ==
  ASSUME IInv,
         \/ \E r \in Readers : WantRead(r) \/ AcquireRead(r) \/ ReleaseRead(r)
         \/ Stop \/ Join
  PROVE  IInv'
<1>. USE Constants DEF IInv
<1>1. UNCHANGED <<pc, prev, scanned, firing, batch, shared, writer>>
  BY DEF WantRead, AcquireRead, ReleaseRead, Stop, Join
<1>2. /\ reader' \in [Readers -> {"idle", "waiting", "reading", "joining", "joined"}]
      /\ stop' \in BOOLEAN /\ (stop => stop')
      /\ \A r \in Readers : reader'[r] = "reading" => reader[r] = "reading" \/ writer = "no"
      /\ reader'[Owner] = "joined" => reader[Owner] = "joined" \/ pc = "done"
  BY DEF WantRead, AcquireRead, ReleaseRead, Stop, Join, TypeOK
<1>3. TypeOK'
  BY <1>1, <1>2 DEF TypeOK
<1>4. Locked'
  BY <1>1, <1>2 DEF Locked, HandingOver
<1>5. Linked'
  BY <1>1 DEF Linked
<1>6. Told'
  BY <1>1 DEF Told, HandingOver, Undelivered
<1>. QED  BY <1>3, <1>4, <1>5, <1>6

LEMMA Inductive == IInv /\ [Next]_vars => IInv'
<1>. SUFFICES ASSUME IInv, [Next]_vars PROVE IInv'
  OBVIOUS
<1>1. CASE UNCHANGED vars
  BY <1>1 DEF IInv, TypeOK, Locked, Linked, Told, HandingOver, Undelivered, vars
<1>2. CASE Scan
  BY <1>2, QuietScan, EvaluateStep DEF Scan
<1>3. CASE Handover
  BY <1>3, ThreadStep, PointStep, EventStep, SwapStep DEF Handover
<1>. QED  BY <1>1, <1>2, <1>3, ThreadStep, ReaderStep DEF Next

LEMMA Invariance == Spec => []IInv
BY Initially, Inductive, PTL DEF Spec

-----------------------------------------------------------------------------
(* The published state is well formed and both logs keep to their lengths  *)
(* (sampler.rs, Shared and its two rings).                                 *)
THEOREM TypeCorrectness == Spec => []TypeOK
<1>1. IInv => TypeOK
  BY DEF IInv
<1>. QED  BY <1>1, Invariance, PTL

(* Whoever holds the read lock sees the latest snapshot, the history, the  *)
(* event log and the active alerts of one and the same cycle               *)
(* (sampler.rs, the block under the write lock).                           *)
THEOREM WholeCycles == Spec => []ReadersSeeWholeCycles
<1>1. IInv => ReadersSeeWholeCycles
  <2>. SUFFICES ASSUME IInv, \E r \in Readers : reader[r] = "reading"
                PROVE  Coherent
    BY DEF ReadersSeeWholeCycles
  <2>1. ~ HandingOver
    BY DEF IInv, Locked
  <2>2. Tells(shared.events, <<>>, shared.active)
    BY <2>1 DEF IInv, Told
  <2>3. \A i \in 1 .. Len(shared.events) :
          IsLastWord(shared.events, i) =>
            (shared.events[i].on <=> shared.events[i].alert \in shared.active)
    BY <2>2 DEF Tells, Silent
  <2>. QED  BY <2>1, <2>3 DEF Coherent, HandingOver, IInv, Linked
<1>. QED  BY <1>1, Invariance, PTL

(* How many scans have succeeded, by what is left of them. *)
Numbered ==
  /\ prev = IF scanned = 0 THEN None ELSE scanned
  /\ shared.history = <<>> =>
       scanned < 2 \/ (pc \in {"lock", "acquire", "point"} /\ batch.snapshot # None)

LEMMA NumberedNext ==
  ASSUME IInv, Numbered, [Next]_vars
  PROVE  Numbered'
<1>1. /\ scanned \in Nat /\ MaxScans \in Nat /\ None \notin 1 .. MaxScans
      /\ shared.history \in Seq(Snapshots) /\ HistoryLen \in Nat \ {0}
      /\ Len(shared.history) <= HistoryLen /\ batch.snapshot \in Snapshots \cup {None}
      /\ None \notin Snapshots
  BY SamplerAssumption DEF IInv, TypeOK, Scans, Shared, Batch
<1>2. CASE ScanFails
  <2>1. /\ prev' = prev /\ scanned' = scanned /\ shared' = shared /\ pc = "collect"
    BY <1>2 DEF ScanFails
  <2>. QED  BY <2>1 DEF Numbered
<1>3. CASE ScanBaseline
  <2>1. /\ prev = None /\ prev' = scanned + 1 /\ scanned' = scanned + 1
        /\ scanned < MaxScans
    BY <1>3 DEF ScanBaseline
  <2>2. scanned = 0
    BY <1>1, <2>1 DEF Numbered
  <2>. QED  BY <2>1, <2>2 DEF Numbered
<1>4. CASE ScanAndEvaluate
  <2>1. PICK snap \in Snapshots :
          /\ prev' = scanned + 1 /\ scanned' = scanned + 1 /\ pc' = "lock"
          /\ batch'.snapshot = snap
    <3>1. [from |-> prev, to |-> scanned + 1] \in Snapshots
      BY <1>1, <1>4 DEF ScanAndEvaluate, IInv, TypeOK, Snapshots, Scans
    <3>. QED  BY <1>4, <3>1 DEF ScanAndEvaluate
  <2>. QED  BY <1>1, <2>1 DEF Numbered
<1>5. CASE PushPoint
  <2>1. prev' = prev /\ scanned' = scanned /\ batch' = batch /\ pc = "point" /\ pc' = "events"
    BY <1>5 DEF PushPoint
  <2>2. CASE batch.snapshot = None
    <3>1. shared' = shared
      BY <1>5, <2>2 DEF PushPoint
    <3>. QED  BY <2>1, <2>2, <3>1 DEF Numbered
  <2>3. CASE batch.snapshot # None
    <3>1. shared'.history = PushOnto(shared.history, batch.snapshot, HistoryLen)
      BY <1>5, <2>3 DEF PushPoint, IInv, TypeOK, Shared
    <3>2. PushOnto(shared.history, batch.snapshot, HistoryLen) # <<>>
      BY <1>1, <2>3, PushIs
    <3>. QED  BY <2>1, <3>1, <3>2 DEF Numbered
  <2>. QED  BY <2>2, <2>3
<1>6. CASE PushEvent
  <2>1. /\ prev' = prev /\ scanned' = scanned /\ pc = "events"
        /\ shared'.history = shared.history
    BY <1>6 DEF PushEvent, IInv, TypeOK, Shared
  <2>. QED  BY <2>1 DEF Numbered
<1>7. CASE SwapIn
  <2>1. /\ prev' = prev /\ scanned' = scanned /\ pc = "swap"
        /\ shared'.history = shared.history
    BY <1>7 DEF SwapIn, IInv, TypeOK, Shared
  <2>. QED  BY <2>1 DEF Numbered
<1>8. CASE \/ Check \/ RequestWrite \/ AcquireWrite \/ EventsPushed \/ TickAndRest \/ WakeUp
           \/ \E r \in Readers : WantRead(r) \/ AcquireRead(r) \/ ReleaseRead(r)
           \/ Stop \/ Join \/ UNCHANGED vars
  <2>1. /\ prev' = prev /\ scanned' = scanned /\ shared' = shared /\ batch' = batch
        /\ pc \in {"lock", "acquire", "point"} => pc' \in {"lock", "acquire", "point"}
    BY <1>8 DEF Check, RequestWrite, AcquireWrite, EventsPushed, TickAndRest, WakeUp,
                WantRead, AcquireRead, ReleaseRead, Stop, Join, vars
  <2>. QED  BY <2>1 DEF Numbered
<1>. QED  BY <1>2, <1>3, <1>4, <1>5, <1>6, <1>7, <1>8 DEF Next, Scan, Handover

(* Whenever the flag is set, the thread ends with everything it measured   *)
(* handed over: no stop falls between a scan and its publication           *)
(* (sampler.rs, spawn).                                                    *)
THEOREM NothingLostByStop == Spec => []StopLosesNoCycle
<1>1. Init => Numbered
  BY DEF Init, Numbered
<1>2. IInv /\ Numbered => StopLosesNoCycle
  <2>. SUFFICES ASSUME IInv, Numbered, pc = "done"
                PROVE  /\ shared.active = firing
                       /\ IF shared.latest = None THEN scanned < 2 ELSE shared.latest.to = scanned
    BY DEF StopLosesNoCycle
  <2>1. shared.active = firing
    BY DEF IInv, Told, Undelivered
  <2>2. /\ Tip(shared.history, prev)
        /\ shared.latest = IF shared.history = <<>> THEN None ELSE Last(shared.history)
    BY DEF IInv, Linked
  <2>3. CASE shared.history = <<>>
    BY <2>1, <2>2, <2>3 DEF Numbered
  <2>4. CASE shared.history # <<>>
    <3>1. Last(shared.history) \in Snapshots /\ Last(shared.history).to = prev
      BY <2>2, <2>4 DEF IInv, TypeOK, Shared, Tip, Last
    <3>2. prev \in Scans /\ None \notin Scans \cup Snapshots
      BY <3>1, SamplerAssumption DEF Snapshots
    <3>3. prev = scanned
      BY <3>2 DEF Numbered
    <3>. QED  BY <2>1, <2>2, <2>4, <3>1, <3>2, <3>3
  <2>. QED  BY <2>3, <2>4
<1>. QED  BY <1>1, <1>2, Invariance, NumberedNext, PTL DEF Spec

(* Once stop or Drop has joined the thread the published state is final    *)
(* (sampler.rs, SamplerHandle::stop and Drop).                             *)
THEOREM FrozenOnceJoined == Spec => FrozenAfterJoin
<1>1. IInv /\ [Next]_vars => [reader[Owner] = "joined" => UNCHANGED shared]_vars
  <2>. SUFFICES ASSUME IInv, Next, reader[Owner] = "joined"
                PROVE  UNCHANGED shared
    OBVIOUS
  <2>1. pc = "done"
    BY DEF IInv, Locked
  <2>. QED  BY <2>1 DEF Next, Check, Scan, ScanFails, ScanBaseline, ScanAndEvaluate, Handover,
                 RequestWrite, AcquireWrite, PushPoint, PushEvent, EventsPushed, SwapIn,
                 TickAndRest, WakeUp, WantRead, AcquireRead, ReleaseRead, Stop, Join
<1>. QED  BY <1>1, Invariance, PTL DEF Spec, FrozenAfterJoin
=============================================================================
