-------------------------- MODULE ProcFilesProofs ---------------------------
(***************************************************************************)
(* Proofs about the parsers of ProcFiles, for texts of any length.         *)
(***************************************************************************)
EXTENDS ProcFiles, FiniteSetTheorems, TLAPS

LEMMA MinIs ==
  ASSUME NEW S \in SUBSET Int, NEW m \in S, \A n \in S : m <= n
  PROVE  Min(S) = m
<1>1. \A x \in S : (\A y \in S : x <= y) <=> x = m
  OBVIOUS
<1>. QED  BY <1>1 DEF Min

LEMMA MaxIs ==
  ASSUME NEW S \in SUBSET Int, NEW m \in S, \A n \in S : n <= m
  PROVE  Max(S) = m
<1>1. \A x \in S : (\A y \in S : x >= y) <=> x = m
  OBVIOUS
<1>. QED  BY <1>1 DEF Max

LEMMA UpTo ==
  ASSUME NEW n \in Nat
  PROVE  IsFiniteSet(1 .. n) /\ Cardinality(1 .. n) = n
<1>1. IsFiniteSet(1 .. n) /\ Cardinality(1 .. n) = IF 1 > n THEN 0 ELSE n - 1 + 1
  BY FS_Interval
<1>. QED  BY <1>1

(* Where the first mark is, and where the last. *)
LEMMA FindIs ==
  ASSUME NEW T, NEW text \in Seq(T), NEW mark, NEW at \in 1 .. Len(text),
         text[at] = mark, \A i \in 1 .. at - 1 : text[i] # mark
  PROVE  Find(text, mark) = at
<1>. DEFINE I == {i \in 1 .. Len(text) : text[i] = mark}
<1>1. at \in I /\ I \in SUBSET Int
  OBVIOUS
<1>2. \A n \in I : at <= n
  OBVIOUS
<1>3. Min(I) = at
  BY <1>1, <1>2, MinIs
<1>. QED  BY <1>1, <1>3 DEF Find, SelectInSeq

LEMMA RFindIs ==
  ASSUME NEW T, NEW text \in Seq(T), NEW mark, NEW at \in 1 .. Len(text),
         text[at] = mark, \A i \in at + 1 .. Len(text) : text[i] # mark
  PROVE  RFind(text, mark) = at
<1>. DEFINE I == {i \in 1 .. Len(text) : text[i] = mark}
<1>1. at \in I /\ I \in SUBSET Int
  OBVIOUS
<1>2. \A n \in I : n <= at
  OBVIOUS
<1>3. Max(I) = at
  BY <1>1, <1>2, MaxIs
<1>. QED  BY <1>1, <1>3 DEF RFind, SelectLastInSeq

-----------------------------------------------------------------------------
(* A run of numbers is in ascending order already. *)
LEMMA AscendingRun ==
  ASSUME NEW a \in Int, NEW n \in Nat
  PROVE  Ascending(a + 1 .. a + n) = [k \in 1 .. n |-> a + k]
<1>. DEFINE S == a + 1 .. a + n
<1>1. Cardinality(S) = n
  <2>1. Cardinality(S) = IF a + 1 > a + n THEN 0 ELSE (a + n) - (a + 1) + 1
    BY FS_Interval
  <2>. QED  BY <2>1
<1>2. ASSUME NEW i \in S
      PROVE  Rank(S, i) = i - a
  <2>1. {j \in S : j <= i} = a + 1 .. i
    OBVIOUS
  <2>2. Cardinality(a + 1 .. i) = IF a + 1 > i THEN 0 ELSE i - (a + 1) + 1
    BY FS_Interval
  <2>3. Cardinality(a + 1 .. i) = i - a
    BY <2>2
  <2>. QED  BY <2>1, <2>3 DEF Rank
<1>3. ASSUME NEW k \in 1 .. n
      PROVE  (CHOOSE i \in S : Rank(S, i) = k) = a + k
  <2>1. a + k \in S /\ \A i \in S : i \in Int
    OBVIOUS
  <2>2. \A i \in S : Rank(S, i) = k <=> i = a + k
    <3>. HIDE DEF S
    <3>. QED  BY <1>2, <2>1
  <2>. HIDE DEF S
  <2>. QED  BY <2>1, <2>2
<1>4. Ascending(S) = [k \in 1 .. n |-> CHOOSE i \in S : Rank(S, i) = k]
  BY <1>1 DEF Ascending
<1>. HIDE DEF S
<1>5. Ascending(S) = [k \in 1 .. n |-> a + k]
  BY <1>3, <1>4
<1>. QED  BY <1>5 DEF S

(* Text without spaces is its own words. *)
LEMMA WordsOfSpaceless ==
  ASSUME NEW T, NEW text \in Seq(T), \A i \in 1 .. Len(text) : text[i] # Space
  PROVE  Words(text) = text
<1>1. {i \in DOMAIN text : text[i] # Space} = 1 .. Len(text) /\ Len(text) \in Nat
  OBVIOUS
<1>2. Ascending(1 .. Len(text)) = [k \in 1 .. Len(text) |-> k]
  <2>1. Ascending(0 + 1 .. 0 + Len(text)) = [k \in 1 .. Len(text) |-> 0 + k]
    <3>1. Len(text) \in Nat /\ 0 \in Int
      BY <1>1
    <3>. QED  BY <3>1, AscendingRun
  <2>. QED  BY <1>1, <2>1
<1>3. Words(text) = [k \in 1 .. Len(text) |-> text[k]]
  BY <1>1, <1>2 DEF Words, Passing
<1>. QED  BY <1>3

(* A word and a space. *)
LEMMA WordsOfOne ==
  ASSUME NEW token, token # Space
  PROVE  Words(<<token, Space>>) = <<token>>
<1>. DEFINE text == <<token, Space>>
<1>1. {i \in DOMAIN text : text[i] # Space} = 0 + 1 .. 0 + 1
  OBVIOUS
<1>2. Ascending(0 + 1 .. 0 + 1) = [k \in 1 .. 1 |-> 0 + k]
  <2>1. 0 \in Int /\ 1 \in Nat
    OBVIOUS
  <2>. QED  BY <2>1, AscendingRun
<1>3. Words(text) = [k \in 1 .. 1 |-> text[k]]
  BY <1>1, <1>2 DEF Words, Passing
<1>. QED  BY <1>3

-----------------------------------------------------------------------------
LEMMA Joined ==
  ASSUME NEW T, NEW a \in Seq(T), NEW b \in Seq(T)
  PROVE  /\ a \o b \in Seq(T)
         /\ Len(a \o b) = Len(a) + Len(b)
         /\ \A i \in 1 .. Len(a) : (a \o b)[i] = a[i]
         /\ \A i \in 1 .. Len(b) : (a \o b)[Len(a) + i] = b[i]
OBVIOUS

LEMMA PartOf ==
  ASSUME NEW T, NEW text \in Seq(T), NEW at \in Nat, NEW part \in Seq(T),
         at + Len(part) <= Len(text),
         \A i \in 1 .. Len(part) : text[at + i] = part[i]
  PROVE  SubSeq(text, at + 1, at + Len(part)) = part
OBVIOUS

(* A line of /proc/<pid>/stat is read as the kernel wrote it, whatever the *)
(* name: neither parentheses nor spaces nor digits in it move a column, an *)
(* empty name is one, and a line whose columns break off is refused        *)
(* (parse_pid_stat looks for the last closing parenthesis).                *)
THEOREM AnyNameParses ==
  ASSUME NEW T, NEW pid, NEW name \in Seq(T), NEW columns \in Seq(T),
         \A i \in 1 .. Len(columns) : columns[i] # Space /\ columns[i] # Mark(")")
  PROVE  ParsePidStat(<<Num(pid), Space, Mark("(")>> \o name \o <<Mark(")")>> \o columns) =
           IF \A c \in NumberColumns : c <= Len(columns) /\ IsNumber(columns[c])
             THEN {[pid |-> pid, comm |-> name, starttime |-> columns[StartTime].n]}
             ELSE {}
<1>. DEFINE text == <<Num(pid), Space, Mark("(")>> \o name \o <<Mark(")")>> \o columns
            last == 4 + Len(name)
            S    == T \cup {Num(pid), Space, Mark("("), Mark(")")}
<1>1. /\ Num(pid) \in S /\ Space \in S /\ Mark("(") \in S /\ Mark(")") \in S
      /\ name \in Seq(S) /\ columns \in Seq(S)
  OBVIOUS
<1>. HIDE DEF S
<1>2. /\ text \in Seq(S)
      /\ Len(text) = last + Len(columns)
      /\ text[1] = Num(pid) /\ text[2] = Space /\ text[3] = Mark("(")
      /\ \A i \in 1 .. Len(name) : text[3 + i] = name[i]
      /\ text[last] = Mark(")")
      /\ \A i \in 1 .. Len(columns) : text[last + i] = columns[i]
  <2>. DEFINE head   == <<Num(pid), Space, Mark("(")>>
              named  == head \o name
              closed == named \o <<Mark(")")>>
  <2>1. /\ head \in Seq(S) /\ Len(head) = 3
        /\ head[1] = Num(pid) /\ head[2] = Space /\ head[3] = Mark("(")
    BY <1>1
  <2>. HIDE DEF head
  <2>2. /\ named \in Seq(S) /\ Len(named) = 3 + Len(name)
        /\ \A i \in 1 .. 3 : named[i] = head[i]
        /\ \A i \in 1 .. Len(name) : named[3 + i] = name[i]
    <3>. head \in Seq(S) /\ name \in Seq(S)
      BY <1>1, <2>1
    <3>1. /\ head \o name \in Seq(S) /\ Len(head \o name) = Len(head) + Len(name)
          /\ \A i \in 1 .. Len(head) : (head \o name)[i] = head[i]
          /\ \A i \in 1 .. Len(name) : (head \o name)[Len(head) + i] = name[i]
      BY Joined
    <3>. QED  BY <2>1, <3>1
  <2>. HIDE DEF named
  <2>3. /\ closed \in Seq(S) /\ Len(closed) = last
        /\ \A i \in 1 .. 3 : closed[i] = head[i]
        /\ \A i \in 1 .. Len(name) : closed[3 + i] = name[i]
        /\ closed[last] = Mark(")")
    <3>1. <<Mark(")")>> \in Seq(S) /\ Len(<<Mark(")")>>) = 1 /\ <<Mark(")")>>[1] = Mark(")")
      BY <1>1
    <3>. QED  BY <1>1, <2>2, <3>1, Joined
  <2>4. text = closed \o columns
    BY DEF closed, named, head
  <2>. HIDE DEF closed, text
  <2>5. /\ text \in Seq(S) /\ Len(text) = Len(closed) + Len(columns)
        /\ \A i \in 1 .. Len(closed) : text[i] = closed[i]
        /\ \A i \in 1 .. Len(columns) : text[Len(closed) + i] = columns[i]
    <3>. closed \in Seq(S) /\ columns \in Seq(S)
      BY <1>1, <2>3
    <3>1. /\ closed \o columns \in Seq(S)
          /\ Len(closed \o columns) = Len(closed) + Len(columns)
          /\ \A i \in 1 .. Len(closed) : (closed \o columns)[i] = closed[i]
          /\ \A i \in 1 .. Len(columns) : (closed \o columns)[Len(closed) + i] = columns[i]
      BY Joined
    <3>. QED  BY <2>4, <3>1
  <2>6. Len(name) \in Nat /\ \A i \in 1 .. last : text[i] = closed[i]
    BY <1>1, <2>3, <2>5
  <2>7. text[1] = closed[1] /\ text[2] = closed[2] /\ text[3] = closed[3] /\ text[last] = closed[last]
    BY <2>6
  <2>8. \A i \in 1 .. Len(name) : text[3 + i] = closed[3 + i]
    BY <2>6
  <2>9. closed[1] = head[1] /\ closed[2] = head[2] /\ closed[3] = head[3]
    BY <2>3
  <2>10. \A i \in 1 .. Len(columns) : text[last + i] = columns[i]
    BY <2>3, <2>5
  <2>11. Len(text) = last + Len(columns)
    BY <2>3, <2>5
  <2>. HIDE DEF last, head, closed
  <2>. QED  BY <2>1, <2>3, <2>5, <2>7, <2>8, <2>9, <2>10, <2>11
<1>. HIDE DEF text
<1>3. Len(name) \in Nat /\ Len(columns) \in Nat
  BY <1>1
<1>4. Find(text, Mark("(")) = 3
  <2>1. Num(pid) # Mark("(") /\ Space # Mark("(")
    BY DEF Num, Mark, Space
  <2>2. 3 \in 1 .. Len(text)
    BY <1>2, <1>3
  <2>3. \A i \in 1 .. 3 - 1 : text[i] # Mark("(")
    <3>1. \A i \in 1 .. 3 - 1 : i = 1 \/ i = 2
      OBVIOUS
    <3>2. text[1] = Num(pid) /\ text[2] = Space
      BY <1>2
    <3>. QED  BY <2>1, <3>1, <3>2
  <2>4. text \in Seq(S) /\ text[3] = Mark("(")
    BY <1>2
  <2>. QED  BY <2>2, <2>3, <2>4, FindIs
<1>5. Close(text) = last
  <2>1. \A i \in last + 1 .. Len(text) : text[i] # Mark(")")
    <3>. SUFFICES ASSUME NEW i \in last + 1 .. Len(text)
                  PROVE  text[i] # Mark(")")
      OBVIOUS
    <3>1. i - last \in 1 .. Len(columns) /\ last + (i - last) = i
      BY <1>2, <1>3
    <3>2. text[last + (i - last)] = columns[i - last]
      BY <1>2, <3>1
    <3>. QED  BY <3>1, <3>2
  <2>2. last \in 1 .. Len(text)
    BY <1>2, <1>3
  <2>. QED  BY <1>2, <2>1, <2>2, RFindIs DEF Close
<1>6. Words(Before(text, 3)) = <<Num(pid)>>
  <2>1. Before(text, 3) = <<Num(pid), Space>>
    <3>. DEFINE pair == <<Num(pid), Space>>
    <3>1. /\ pair \in Seq(S) /\ Len(pair) = 2
          /\ \A i \in 1 .. Len(pair) : text[0 + i] = pair[i]
      BY <1>1, <1>2
    <3>2. text \in Seq(S) /\ 0 + Len(pair) <= Len(text)
      BY <1>2, <1>3, <3>1
    <3>. HIDE DEF pair
    <3>3. SubSeq(text, 0 + 1, 0 + Len(pair)) = pair
      BY <3>1, <3>2, PartOf
    <3>. QED  BY <3>1, <3>3 DEF Before, pair
  <2>2. Num(pid) # Space
    BY DEF Num, Mark, Space
  <2>. QED  BY <2>1, <2>2, WordsOfOne
<1>7. Words(After(text, last)) = columns
  <2>1. SubSeq(text, last + 1, last + Len(columns)) = columns
    BY <1>1, <1>2, <1>3, PartOf
  <2>2. After(text, last) = columns
    BY <1>2, <2>1 DEF After
  <2>. QED  BY <2>2, WordsOfSpaceless
<1>8. SubSeq(text, 3 + 1, last - 1) = name
  <2>1. SubSeq(text, 3 + 1, 3 + Len(name)) = name
    BY <1>1, <1>2, <1>3, PartOf
  <2>. QED  BY <1>3, <2>1
<1>9. IsNumber(Num(pid)) /\ Num(pid).n = pid
  BY DEF IsNumber, Num
<1>10. /\ 3 # 0 /\ 3 < last
       /\ Len(<<Num(pid)>>) = 1 /\ <<Num(pid)>>[1] = Num(pid)
  BY <1>3
<1>11. ParsePidStat(text) =
         IF \A c \in NumberColumns : c <= Len(columns) /\ IsNumber(columns[c])
           THEN {[pid |-> pid, comm |-> name, starttime |-> columns[StartTime].n]}
           ELSE {}
  BY <1>4, <1>5, <1>6, <1>7, <1>8, <1>9, <1>10 DEF ParsePidStat
<1>. QED  BY <1>11 DEF text
=============================================================================
