-------------------------------- MODULE Ring --------------------------------
(***************************************************************************)
(* The fixed-capacity ring buffer of src/ring.rs, which holds the metric   *)
(* history and the event log.  Slots are numbered from 0 as in the code.   *)
(* A slot that holds no item holds None.                                   *)
(***************************************************************************)
EXTENDS Integers, Sequences

CONSTANTS
  Items,       \* values pushed
  None,        \* the content of an empty slot, and of an empty answer
  Capacity,    \* the capacity asked of Ring::new
  MaxPushed    \* bound: pushes explored

ASSUME RingAssumption ==
  /\ Capacity \in Nat
  /\ None \notin Items
  /\ MaxPushed \in Nat

(* Ring::new clamps the capacity: a ring of no slots would discard every push. *)
Cap == IF Capacity >= 1 THEN Capacity ELSE 1

VARIABLES
  slots,    \* Vec<Option<T>>
  head,     \* the slot the next push writes
  len,      \* live items
  pushed,   \* pushes ever
  evicted   \* what the last call returned

vars == <<slots, head, len, pushed, evicted>>

Slots == 0 .. Cap - 1

TypeOK ==
  /\ slots \in [Slots -> Items \cup {None}]
  /\ head \in Slots
  /\ len \in 0 .. Cap
  /\ pushed \in 0 .. MaxPushed
  /\ evicted \in Items \cup {None}

-----------------------------------------------------------------------------
(* Plausible defects, each in place of the definition of the same shape. *)
StartsAtHead(logical)   == (head + logical) % Cap
NewestWhenNotWrapped    == IF len = 0 THEN None ELSE slots[len - 1]
ClearKeepsHead          == /\ slots' = [i \in Slots |-> None]
                           /\ len' = 0
                           /\ evicted' = None
                           /\ UNCHANGED <<head, pushed>>
PushStopsAtTheEnd(v)    == /\ pushed < MaxPushed
                           /\ evicted' = slots[head]
                           /\ slots' = [slots EXCEPT ![head] = v]
                           /\ head' = head + 1
                           /\ len' = IF len < Cap THEN len + 1 ELSE len
                           /\ pushed' = pushed + 1

-----------------------------------------------------------------------------
(* Where the logical-th live item is, counted from the oldest. *)
Phys(logical) == ((IF len = Cap THEN head ELSE 0) + logical) % Cap

Get(logical) == IF logical >= len THEN None ELSE slots[Phys(logical)]

Newest == IF len = 0 THEN None ELSE slots[(head + Cap - 1) % Cap]
Oldest == Get(0)

(* Oldest to newest.  iter_chrono would skip an empty answer of get;       *)
(* LiveItems says there is none.                                           *)
IterChrono == [i \in 1 .. len |-> Get(i - 1)]

-----------------------------------------------------------------------------
Init ==
  /\ slots = [i \in Slots |-> None]
  /\ head = 0
  /\ len = 0
  /\ pushed = 0
  /\ evicted = None

Push(v) ==
  /\ pushed < MaxPushed
  /\ evicted' = slots[head]
  /\ slots' = [slots EXCEPT ![head] = v]
  /\ head' = (head + 1) % Cap
  /\ len' = IF len < Cap THEN len + 1 ELSE len
  /\ pushed' = pushed + 1

Clear ==
  /\ slots' = [i \in Slots |-> None]
  /\ head' = 0
  /\ len' = 0
  /\ evicted' = None
  /\ UNCHANGED pushed

Next == Clear \/ \E v \in Items : Push(v)

Spec == Init /\ [][Next]_vars

-----------------------------------------------------------------------------
(* The live slots are the first len of a ring that has not filled up and   *)
(* all of one that has; every other slot is empty, and the cursor stands   *)
(* just past the newest item.  get, newest and the value push returns all  *)
(* take this for granted.                                                  *)
LiveItems ==
  /\ \A i \in Slots : slots[i] # None <=> i < len
  /\ len < Cap => head = len

(* newest and oldest, which find their slot each in its own way, agree     *)
(* with the ends of iter_chrono.                                           *)
EndsAgree ==
  /\ len = 0 => Newest = None /\ Oldest = None
  /\ len > 0 => Newest = IterChrono[len] /\ Oldest = IterChrono[1]

Log == INSTANCE BoundedLog WITH log <- IterChrono

(* The ring is the log of the last Cap items: nothing newer is lost, the   *)
(* order survives the wrap and a clear, and push returns the oldest item.  *)
ImplementsLog == Log!Spec
=============================================================================
