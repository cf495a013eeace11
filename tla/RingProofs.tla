----------------------------- MODULE RingProofs -----------------------------
(***************************************************************************)
(* Proofs about the ring buffer, for every capacity and any items.         *)
(***************************************************************************)
EXTENDS Ring, TLAPS

IInv == TypeOK /\ LiveItems

-----------------------------------------------------------------------------
LEMMA CapPositive == Cap \in Nat /\ Cap >= 1
BY RingAssumption DEF Cap

(* The only index arithmetic the ring does stays within two turns. *)
LEMMA Wrap ==
  ASSUME NEW c \in Nat, c >= 1, NEW a \in 0 .. c - 1, NEW b \in 0 .. c
  PROVE  /\ (a + b) % c = IF a + b < c THEN a + b ELSE a + b - c
         /\ (0 + a) % c = a
OBVIOUS

(* phys: the oldest item is at the cursor of a full ring, at 0 otherwise. *)
LEMMA PhysIs ==
  ASSUME TypeOK, NEW i \in 0 .. Cap - 1
  PROVE  Phys(i) = IF len < Cap THEN i
                   ELSE IF head + i < Cap THEN head + i ELSE head + i - Cap
<1>. head \in 0 .. Cap - 1 /\ len \in 0 .. Cap /\ Cap \in Nat /\ Cap >= 1
  BY CapPositive DEF TypeOK, Slots
<1>1. CASE len < Cap
  BY <1>1, Wrap DEF Phys
<1>2. CASE len = Cap
  <2>1. (head + i) % Cap = IF head + i < Cap THEN head + i ELSE head + i - Cap
    BY Wrap
  <2>. QED  BY <1>2, <2>1 DEF Phys
<1>. QED  BY <1>1, <1>2

LEMMA NextHead ==
  ASSUME TypeOK
  PROVE  (head + 1) % Cap = IF head + 1 < Cap THEN head + 1 ELSE 0
<1>1. head \in 0 .. Cap - 1 /\ 1 \in 0 .. Cap /\ Cap \in Nat /\ Cap >= 1
  BY CapPositive DEF TypeOK, Slots
<1>2. (head + 1) % Cap = IF head + 1 < Cap THEN head + 1 ELSE head + 1 - Cap
  BY <1>1, Wrap
<1>. QED  BY <1>1, <1>2

LEMMA PushInvariant ==
  ASSUME IInv, NEW v \in Items, Push(v)
  PROVE  IInv'
<1>. Cap \in Nat /\ Cap >= 1 /\ TypeOK /\ LiveItems
  BY CapPositive DEF IInv
<1>1. head' = IF head + 1 < Cap THEN head + 1 ELSE 0
  BY NextHead DEF Push
<1>2. TypeOK'
  BY <1>1, RingAssumption DEF TypeOK, Push, Slots
<1>3. (\A i \in Slots : slots[i] # None <=> i < len)'
  BY RingAssumption DEF TypeOK, LiveItems, Push, Slots
<1>4. (len < Cap => head = len)'
  BY <1>1 DEF TypeOK, LiveItems, Push, Slots
<1>. QED  BY <1>2, <1>3, <1>4 DEF IInv, LiveItems

LEMMA ClearInvariant ==
  ASSUME IInv, Clear
  PROVE  IInv'
BY CapPositive, RingAssumption DEF IInv, TypeOK, LiveItems, Clear, Slots

LEMMA Invariance == Spec => []IInv
<1>1. Init => IInv
  BY CapPositive, RingAssumption DEF Init, IInv, TypeOK, LiveItems, Slots
<1>2. IInv /\ [Next]_vars => IInv'
  <2>1. ASSUME IInv, Next PROVE IInv'
    BY <2>1, PushInvariant, ClearInvariant DEF Next
  <2>2. ASSUME IInv, UNCHANGED vars PROVE IInv'
    BY <2>2 DEF IInv, TypeOK, LiveItems, vars
  <2>. QED  BY <2>1, <2>2
<1>. QED  BY <1>1, <1>2, PTL DEF Spec

(* The cursor stays on a slot and the length within the capacity, for any  *)
(* capacity and any calls (ring.rs, push and clear).                       *)
THEOREM TypeCorrectness == Spec => []TypeOK
<1>1. IInv => TypeOK
  BY DEF IInv
<1>. QED  BY <1>1, Invariance, PTL

(* The slots from the oldest to the newest hold items, and no other does:  *)
(* get and the iterator meet no empty slot (ring.rs, get and iter_chrono). *)
THEOREM LiveRange == Spec => []LiveItems
<1>1. IInv => LiveItems
  BY DEF IInv
<1>. QED  BY <1>1, Invariance, PTL

-----------------------------------------------------------------------------
(* get(i) is the i-th oldest item, and there is one. *)
LEMMA GetIs ==
  ASSUME IInv, NEW i \in 0 .. len - 1
  PROVE  /\ Get(i) = slots[IF len < Cap THEN i
                           ELSE IF head + i < Cap THEN head + i ELSE head + i - Cap]
         /\ Get(i) \in Items
<1>. Cap \in Nat /\ TypeOK /\ i \in 0 .. Cap - 1 /\ ~(i >= len)
  BY CapPositive DEF IInv, TypeOK
<1>. DEFINE p == IF len < Cap THEN i
                 ELSE IF head + i < Cap THEN head + i ELSE head + i - Cap
<1>1. Get(i) = slots[p]
  BY PhysIs DEF Get
<1>2. p \in Slots /\ p < len
  BY DEF TypeOK, Slots
<1>. QED  BY <1>1, <1>2 DEF IInv, TypeOK, LiveItems

(* iter_chrono, element by element: get skips nothing. *)
LEMMA ChronoIs ==
  IInv => /\ IterChrono \in Seq(Items) /\ Len(IterChrono) = len
          /\ DOMAIN IterChrono = 1 .. len
          /\ \A i \in 1 .. len : IterChrono[i] =
               slots[IF len < Cap THEN i - 1
                     ELSE IF head + i - 1 < Cap THEN head + i - 1 ELSE head + i - 1 - Cap]
<1>. SUFFICES ASSUME IInv
              PROVE  /\ IterChrono \in Seq(Items) /\ Len(IterChrono) = len
                     /\ DOMAIN IterChrono = 1 .. len
                     /\ \A i \in 1 .. len : IterChrono[i] =
                          slots[IF len < Cap THEN i - 1
                                ELSE IF head + i - 1 < Cap THEN head + i - 1
                                     ELSE head + i - 1 - Cap]
  OBVIOUS
<1>1. len \in Nat
  BY CapPositive DEF IInv, TypeOK
<1>2. \A i \in 1 .. len : Get(i - 1) \in Items
  BY <1>1, GetIs
<1>3. IterChrono \in Seq(Items) /\ Len(IterChrono) = len /\ DOMAIN IterChrono = 1 .. len
  BY <1>1, <1>2 DEF IterChrono
<1>4. ASSUME NEW i \in 1 .. len
      PROVE  IterChrono[i] =
               slots[IF len < Cap THEN i - 1
                     ELSE IF head + i - 1 < Cap THEN head + i - 1 ELSE head + i - 1 - Cap]
  <2>1. i - 1 \in 0 .. len - 1 /\ IterChrono[i] = Get(i - 1)
    BY <1>1 DEF IterChrono
  <2>2. head + (i - 1) = head + i - 1
    BY <1>1, CapPositive DEF IInv, TypeOK, Slots
  <2>. QED  BY <2>1, <2>2, GetIs
<1>. QED  BY <1>3, <1>4

(* newest and oldest find the ends of the log. *)
THEOREM Ends == Spec => []EndsAgree
<1>1. IInv => EndsAgree
  <2>. SUFFICES ASSUME IInv, len > 0
                PROVE  Newest = IterChrono[len] /\ Oldest = IterChrono[1]
    BY DEF EndsAgree, Newest, Oldest, Get, IInv, TypeOK
  <2>. /\ Cap \in Nat /\ Cap >= 1 /\ len \in 1 .. Cap /\ head \in 0 .. Cap - 1
       /\ len < Cap => head = len
    BY CapPositive DEF IInv, TypeOK, LiveItems, Slots
  <2>1. IterChrono[len] = Get(len - 1) /\ IterChrono[1] = Get(0)
    BY DEF IterChrono
  <2>2. (head + Cap - 1) % Cap = IF head = 0 THEN Cap - 1 ELSE head - 1
    <3>1. (head + (Cap - 1)) % Cap =
            IF head + (Cap - 1) < Cap THEN head + (Cap - 1) ELSE head + (Cap - 1) - Cap
      BY Wrap
    <3>2. head + (Cap - 1) = head + Cap - 1
      OBVIOUS
    <3>. QED  BY <3>1, <3>2
  <2>3. Get(len - 1) = slots[(head + Cap - 1) % Cap]
    BY <2>2, GetIs
  <2>. QED  BY <2>1, <2>3 DEF Newest, Oldest
<1>. QED  BY <1>1, Invariance, PTL DEF IInv

LEMMA PushOnLog ==
  ASSUME IInv, NEW v \in Items, Push(v)
  PROVE  /\ IterChrono' = Log!PushOnto(IterChrono, v, Cap)
         /\ evicted' = Log!Displaced(IterChrono)
<1>. /\ Cap \in Nat /\ Cap >= 1 /\ len \in 0 .. Cap /\ head \in 0 .. Cap - 1
     /\ len < Cap => head = len
     /\ slots \in [Slots -> Items \cup {None}]
  BY CapPositive DEF IInv, TypeOK, LiveItems, Slots
<1>0. IInv'
  BY PushInvariant
<1>1. /\ IterChrono \in Seq(Items) /\ Len(IterChrono) = len
      /\ DOMAIN IterChrono = 1 .. len
  BY ChronoIs
<1>2. (IInv => /\ IterChrono \in Seq(Items) /\ Len(IterChrono) = len
               /\ DOMAIN IterChrono = 1 .. len
               /\ \A i \in 1 .. len : IterChrono[i] =
                    slots[IF len < Cap THEN i - 1
                          ELSE IF head + i - 1 < Cap THEN head + i - 1
                               ELSE head + i - 1 - Cap])'
  BY ChronoIs, PTL
<1>3. head' = IF head + 1 < Cap THEN head + 1 ELSE 0
  BY NextHead DEF Push, IInv
<1>4. \A i \in 1 .. len : IterChrono[i] =
        slots[IF len < Cap THEN i - 1
              ELSE IF head + i - 1 < Cap THEN head + i - 1 ELSE head + i - 1 - Cap]
  BY ChronoIs
<1>5. /\ IterChrono' \in Seq(Items) /\ Len(IterChrono') = len'
      /\ DOMAIN IterChrono' = 1 .. len'
      /\ \A i \in 1 .. len' : IterChrono'[i] =
           slots'[IF len' < Cap THEN i - 1
                  ELSE IF head' + i - 1 < Cap THEN head' + i - 1 ELSE head' + i - 1 - Cap]
  BY <1>0, <1>2, CapPositive
<1>6. slots' = [slots EXCEPT ![head] = v] /\ head \in DOMAIN slots
  BY DEF Push, Slots
<1>7. CASE len < Cap
  <2>1. len' = len + 1
    BY <1>7 DEF Push
  <2>2. \A i \in 1 .. len : IterChrono'[i] = IterChrono[i]
    BY <1>3, <1>4, <1>5, <1>6, <1>7, <2>1 DEF Slots
  <2>3. IterChrono'[len + 1] = v
    BY <1>3, <1>5, <1>6, <1>7, <2>1 DEF Slots
  <2>4. IterChrono' = Append(IterChrono, v)
    BY <1>1, <1>5, <2>1, <2>2, <2>3
  <2>5. evicted' = None
    BY <1>7 DEF Push, IInv, LiveItems, Slots
  <2>. QED  BY <1>1, <1>7, <2>4, <2>5 DEF Log!PushOnto, Log!Displaced
<1>8. CASE len = Cap
  <2>1. len' = len
    BY <1>8 DEF Push
  <2>2. ASSUME NEW i \in 1 .. len - 1
        PROVE  IterChrono'[i] = IterChrono[i + 1]
    <3>. DEFINE q == IF head + i < Cap THEN head + i ELSE head + i - Cap
    <3>1. IterChrono[i + 1] = slots[q]
      <4>1. i + 1 \in 1 .. len /\ head + (i + 1) - 1 = head + i
        BY <1>8
      <4>. QED  BY <1>4, <1>8, <4>1
    <3>2. IterChrono'[i] = slots'[q]
      <4>1. i \in 1 .. len' /\ ~(len' < Cap)
        BY <1>8, <2>1
      <4>2. (IF head' + i - 1 < Cap THEN head' + i - 1 ELSE head' + i - 1 - Cap) = q
        BY <1>3, <1>8
      <4>. QED  BY <1>5, <4>1, <4>2
    <3>3. q # head /\ q \in Slots
      BY <1>8 DEF Slots
    <3>. QED  BY <1>6, <3>1, <3>2, <3>3
  <2>3. IterChrono'[len] = v
    BY <1>3, <1>5, <1>6, <1>8, <2>1 DEF Slots
  <2>4. IterChrono' = Append(Tail(IterChrono), v)
    BY <1>1, <1>5, <1>8, <2>1, <2>2, <2>3
  <2>5. evicted' = Head(IterChrono)
    BY <1>1, <1>4, <1>8 DEF Push
  <2>. QED  BY <1>1, <1>8, <2>4, <2>5 DEF Log!PushOnto, Log!Displaced
<1>. QED  BY <1>7, <1>8

(* The ring is the log of the last Cap items, for every capacity and any   *)
(* sequence of pushes and clears: the wrap never shows.                    *)
THEOREM RingImplementsLog == Spec => ImplementsLog
<1>1. Init => Log!Init
  BY DEF Init, Log!Init, IterChrono
<1>2. IInv /\ [Next]_vars => [Log!Next]_(Log!vars)
  <2>1. ASSUME IInv, NEW v \in Items, Push(v) PROVE Log!Push(v)
    BY <2>1, PushOnLog DEF Log!Push, Push
  <2>2. ASSUME Clear PROVE Log!Clear
    BY <2>2 DEF Log!Clear, Clear, IterChrono
  <2>3. ASSUME UNCHANGED vars PROVE UNCHANGED Log!vars
    BY <2>3 DEF vars, Log!vars, IterChrono, Get, Phys
  <2>. QED  BY <2>1, <2>2, <2>3 DEF Next, Log!Next
<1>. QED  BY <1>1, <1>2, Invariance, PTL DEF Spec, ImplementsLog, Log!Spec, IInv
=============================================================================
