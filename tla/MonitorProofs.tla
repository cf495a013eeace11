--------------------------- MODULE MonitorProofs ----------------------------
(***************************************************************************)
(* Proofs about the collector and the monitor built on it, for any bounds, *)
(* any names and any rules.                                                *)
(***************************************************************************)
EXTENDS Monitor, ProcFilesProofs, SequenceTheorems

(* What the process table keeps to: start times are handed out in order.   *)
Dated == \A pid \in Alive : table[pid].start \in 1 .. births

(* Keys met are of processes that have started, and those alive are among  *)
(* them while a scan goes on.                                              *)
Met ==
  /\ \A k \in met : k[2] <= births
  /\ pc # "idle" => LiveKeys \subseteq met
  /\ stayed \subseteq LiveKeys

(* The list of pids ascends, is of processes met, and ends at the cursor.  *)
Listed ==
  /\ \A i, j \in DOMAIN pids : i < j => pids[i] < pids[j]
  /\ \A i \in DOMAIN pids : \E k \in met : k[1] = pids[i]
  /\ pc = "list" =>
       /\ cur = EmptySample(scans)
       /\ Len(pids) <= cursor
       /\ \A i \in DOMAIN pids : pids[i] <= cursor
       /\ \A k \in stayed : k[1] <= cursor => k[1] \in Range(pids)

(* The stat just read is of the next pid, and of whoever has stayed with it. *)
Current ==
  pc = "io" =>
    /\ pids # <<>>
    /\ stat.pid = Head(pids)
    /\ Key(stat) \in met
    /\ stat.comm = Names[stat.starttime]
    /\ \A k \in stayed : k[1] = Head(pids) => k = Key(stat)

(* Whoever stayed is still to be read, or has been. *)
Awaited ==
  pc \in {"stat", "io"} =>
    \A k \in stayed : table[k[1]].stat = "good" => k[1] \in Range(pids) \/ k \in DOMAIN cur.procs

(* Processes that were met, are gone, and whose pid has been passed. *)
Gone == {k \in met \ LiveKeys : \A i \in DOMAIN pids : k[1] < pids[i]}

Counted ==
  /\ cur.vanished <= Cardinality(Gone)
  /\ cur.vanished + cur.io_denied + Len(pids) <= size.pids

CInv ==
  TypeOK /\ Dated /\ Met /\ Listed /\ Current /\ Awaited /\ Counted /\ NothingInvented

-----------------------------------------------------------------------------
(* The process table. *)
LEMMA Bounds ==
  ASSUME KernelTypeOK
  PROVE  /\ size \in Sizes
         /\ size.pids \in Nat /\ size.births \in Nat /\ size.bytes \in Nat /\ size.scans \in Nat
         /\ size.pids <= size.births
         /\ size.pids <= MostPids /\ size.births <= MostBirths
         /\ size.births <= Len(Names)
         /\ MostPids \in Nat /\ MostBirths \in Nat
         /\ size.stats \subseteq {"good", "malformed", "unreadable"}
         /\ size.access \subseteq BOOLEAN
BY KernelAssumption DEF KernelTypeOK, StatKinds

LEMMA LivingProcess ==
  ASSUME KernelTypeOK, NEW pid \in Alive
  PROVE  /\ pid \in Pids
         /\ table[pid] \in Process
         /\ table[pid].start \in 1 .. size.births
         /\ table[pid].bytes \in 0 .. size.bytes
         /\ table[pid].readable \in BOOLEAN
         /\ table[pid].stat \in size.stats
         /\ KeyOf(pid) \in LiveKeys
         /\ KeyOf(pid) \in Keys
         /\ KeyOf(pid)[1] = pid /\ KeyOf(pid)[2] = table[pid].start
<1>1. pid \in Pids /\ table[pid] \in Process
  BY DEF KernelTypeOK, Alive
<1>2. size.access \subseteq BOOLEAN
  BY Bounds
<1>. QED  BY <1>1, <1>2 DEF Process, KeyOf, LiveKeys, Keys

LEMMA LivingKey ==
  ASSUME NEW k \in LiveKeys
  PROVE  k[1] \in Alive /\ k = KeyOf(k[1]) /\ k = <<k[1], k[2]>>
BY DEF LiveKeys, KeyOf

(* One event of the process table: types are kept, nobody comes back, and  *)
(* who stays keeps its stat file.                                          *)
TableKept ==
  /\ KernelTypeOK'
  /\ Dated'
  /\ size' = size
  /\ births' \in Nat /\ births <= births'
  /\ \A k \in LiveKeys' : k \in LiveKeys \/ k[2] > births
  /\ \A k \in LiveKeys' : k \in Keys /\ k[2] <= births'
  /\ \A k \in LiveKeys \cap LiveKeys' : table'[k[1]].stat = table[k[1]].stat

(* An event that changes the entry of one pid, and how. *)
Becomes(pid, entry) ==
  /\ table' = [table EXCEPT ![pid] = entry]
  /\ size' = size
  /\ births' \in births .. size.births
  /\ written' \in [Pids -> Nat]
  /\ \/ entry = Nobody
     \/ /\ entry \in Process
        /\ entry.start \in 1 .. births'
        /\ \/ entry.start > births
           \/ /\ pid \in Alive
              /\ entry.start = table[pid].start
              /\ entry.stat = table[pid].stat

LEMMA EntryChanges ==
  ASSUME KernelTypeOK, Dated, NEW pid \in Pids, NEW entry, Becomes(pid, entry)
  PROVE  TableKept
<1>. USE DEF Becomes
<1>1. /\ Pids' = Pids /\ Process' = Process /\ Nobody' = Nobody
      /\ births \in Nat /\ births' \in Nat /\ births <= births'
      /\ size.births \in Nat
  BY Bounds DEF Pids, Process, Nobody, KernelTypeOK
<1>2. table' \in [Pids -> Process \cup {Nobody}]
  BY DEF KernelTypeOK
<1>3. /\ table'[pid] = entry
      /\ \A q \in Pids : q # pid => table'[q] = table[q]
  BY DEF KernelTypeOK
<1>4. KernelTypeOK'
  BY <1>1, <1>2 DEF KernelTypeOK
<1>5. ASSUME NEW q \in Alive'
      PROVE  /\ q \in Pids
             /\ table'[q].start \in 1 .. births'
             /\ \/ table'[q].start > births
                \/ /\ q \in Alive
                   /\ table'[q].start = table[q].start
                   /\ table'[q].stat = table[q].stat
  <2>1. q \in Pids /\ table'[q] # Nobody
    BY <1>1 DEF Alive
  <2>2. CASE q = pid
    BY <1>3, <2>1, <2>2
  <2>3. CASE q # pid
    <3>1. q \in Alive /\ table'[q] = table[q]
      BY <1>3, <2>1, <2>3 DEF Alive
    <3>2. table[q].start \in 1 .. births
      BY <3>1 DEF Dated
    <3>. QED  BY <1>1, <2>1, <3>1, <3>2
  <2>. QED  BY <2>2, <2>3
<1>6. Dated'
  BY <1>5 DEF Dated
<1>7. ASSUME NEW k \in LiveKeys'
      PROVE  /\ k \in Keys
             /\ k[2] <= births'
             /\ \/ k[2] > births
                \/ k \in LiveKeys /\ table'[k[1]].stat = table[k[1]].stat
  <2>1. PICK q \in Alive' : k = <<q, table'[q].start>>
    BY DEF LiveKeys, KeyOf
  <2>2. k[1] = q /\ k[2] = table'[q].start
    BY <2>1
  <2>3. q \in Alive /\ table'[q].start = table[q].start => k \in LiveKeys
    BY <2>1 DEF LiveKeys, KeyOf
  <2>4. k \in Keys
    BY <1>1, <1>5, <2>1 DEF Keys
  <2>. QED  BY <1>1, <1>5, <2>2, <2>3, <2>4
<1>8. \A k \in LiveKeys \cap LiveKeys' : table'[k[1]].stat = table[k[1]].stat
  <2>. SUFFICES ASSUME NEW k \in LiveKeys \cap LiveKeys', k[2] > births
                PROVE  FALSE
    BY <1>7
  <2>1. k[2] \in 1 .. births
    BY LivingKey, LivingProcess DEF Dated
  <2>. QED  BY <1>1, <2>1
<1>. QED  BY <1>1, <1>4, <1>6, <1>7, <1>8 DEF TableKept

LEMMA KernelNextKeeps ==
  ASSUME KernelTypeOK, Dated, KernelNext
  PROVE  TableKept
<1>. PICK pid \in Pids : Spawn(pid) \/ Exit(pid) \/ Write(pid) \/ ChangeAccess(pid)
  BY DEF KernelNext
<1>1. /\ births \in 0 .. size.births /\ size.births \in Nat /\ size.bytes \in Nat
      /\ written \in [Pids -> Nat] /\ table \in [Pids -> Process \cup {Nobody}]
  BY Bounds DEF KernelTypeOK
<1>2. CASE Spawn(pid)
  <2>1. PICK readable \in size.access, file \in size.stats :
          table' = [table EXCEPT ![pid] = [start |-> births + 1, bytes |-> 0,
                                           readable |-> readable, stat |-> file]]
    BY <1>2 DEF Spawn
  <2>. DEFINE entry == [start |-> births + 1, bytes |-> 0, readable |-> readable, stat |-> file]
  <2>2. births' = births + 1 /\ births < size.births /\ size' = size /\ written' = written
    BY <1>2 DEF Spawn
  <2>3. entry \in Process /\ entry.start = births + 1
    BY <1>1, <2>2 DEF Process
  <2>. HIDE DEF entry
  <2>4. table' = [table EXCEPT ![pid] = entry]
    BY <2>1 DEF entry
  <2>5. Becomes(pid, entry)
    BY <1>1, <2>2, <2>3, <2>4 DEF Becomes
  <2>. QED  BY <2>5, EntryChanges
<1>3. CASE Exit(pid)
  <2>1. Becomes(pid, Nobody)
    BY <1>1, <1>3 DEF Exit, Becomes
  <2>. QED  BY <2>1, EntryChanges
<1>4. CASE Write(pid)
  <2>. DEFINE entry == [table[pid] EXCEPT !.bytes = @ + 1]
  <2>1. pid \in Alive /\ table[pid].bytes < size.bytes
    BY <1>4 DEF Write, Alive
  <2>2. /\ entry \in Process
        /\ entry.start = table[pid].start /\ entry.stat = table[pid].stat
    BY <1>1, <2>1, LivingProcess DEF Process
  <2>3. /\ table' = [table EXCEPT ![pid] = entry]
        /\ births' = births /\ size' = size /\ written' \in [Pids -> Nat]
    BY <1>1, <1>4 DEF Write
  <2>4. entry.start \in 1 .. births
    BY <2>1, <2>2 DEF Dated
  <2>. HIDE DEF entry
  <2>5. Becomes(pid, entry)
    BY <1>1, <2>1, <2>2, <2>3, <2>4 DEF Becomes
  <2>. QED  BY <2>5, EntryChanges
<1>5. CASE ChangeAccess(pid)
  <2>. DEFINE entry == [table[pid] EXCEPT !.readable = ~ @]
  <2>1. pid \in Alive
    BY <1>5 DEF ChangeAccess, Alive
  <2>2. /\ entry \in Process
        /\ entry.start = table[pid].start /\ entry.stat = table[pid].stat
    <3>1. table[pid] \in Process
      BY <1>1, <2>1, LivingProcess
    <3>2. (~ table[pid].readable) \in size.access
      BY <1>5 DEF ChangeAccess
    <3>. QED  BY <3>1, <3>2 DEF Process
  <2>3. /\ table' = [table EXCEPT ![pid] = entry]
        /\ births' = births /\ size' = size /\ written' = written
    BY <1>5 DEF ChangeAccess
  <2>4. entry.start \in 1 .. births
    BY <2>1, <2>2 DEF Dated
  <2>. HIDE DEF entry
  <2>5. Becomes(pid, entry)
    BY <1>1, <2>1, <2>2, <2>3, <2>4 DEF Becomes
  <2>. QED  BY <2>5, EntryChanges
<1>. QED  BY <1>2, <1>3, <1>4, <1>5

-----------------------------------------------------------------------------
LEMMA KeysAreFinite ==
  ASSUME KernelTypeOK
  PROVE  IsFiniteSet(Keys) /\ Cardinality(Pids) = size.pids /\ \A S \in SUBSET Keys : IsFiniteSet(S)
<1>1. size.pids \in Nat /\ size.births \in Nat
  BY Bounds
<1>2. IsFiniteSet(1 .. size.pids) /\ IsFiniteSet(1 .. size.births)
  BY <1>1, UpTo
<1>3. IsFiniteSet(Keys)
  BY <1>2, FS_Product DEF Keys, Pids
<1>. QED  BY <1>1, <1>3, UpTo, FS_Subset DEF Pids

(* What depends on the bounds only does not change with the table. *)
LEMMA SampleKept ==
  ASSUME size' = size
  PROVE  /\ Pids' = Pids /\ Keys' = Keys /\ Reading' = Reading
         /\ \A s : IsSample(s)' <=> IsSample(s)
BY DEF Pids, Keys, Reading, IsSample

LEMMA KernelStepKeeps ==
  ASSUME CInv, KernelStep
  PROVE  CInv'
<1>. USE DEF CInv
<1>1. TableKept
  BY KernelNextKeeps DEF KernelStep, TypeOK
<1>2. /\ UNCHANGED scanVars
      /\ stayed' = stayed \cap LiveKeys' /\ met' = met \cup LiveKeys'
  BY DEF KernelStep
<1>3. /\ Pids' = Pids /\ Keys' = Keys /\ IsSample(cur)' /\ (sample = None \/ IsSample(sample))'
      /\ size' = size
  BY <1>1, <1>2, SampleKept DEF TableKept, TypeOK, scanVars
<1>4. TypeOK'
  BY <1>1, <1>2, <1>3 DEF TableKept, TypeOK, scanVars
<1>5. Met'
  <2>1. \A k \in met : k[2] <= births /\ k[2] \in Nat
    BY DEF Met, TypeOK, Keys
  <2>2. births \in Nat /\ births' \in Nat /\ births <= births'
    BY <1>1 DEF TableKept, TypeOK, KernelTypeOK
  <2>3. \A k \in met' : k[2] <= births'
    BY <1>1, <1>2, <2>1, <2>2 DEF TableKept
  <2>4. pc' = pc /\ (pc # "idle" => LiveKeys' \subseteq met') /\ stayed' \subseteq LiveKeys'
    BY <1>2 DEF scanVars
  <2>. QED  BY <2>3, <2>4 DEF Met
<1>6. Listed'
  <2>1. EmptySample(scans)' = EmptySample(scans)
    BY <1>2 DEF EmptySample, scanVars
  <2>. QED  BY <1>2, <2>1 DEF Listed, scanVars
<1>7. Current'
  BY <1>2 DEF Current, scanVars, Key
<1>8. Awaited'
  <2>1. \A k \in stayed' : k \in stayed /\ table'[k[1]].stat = table[k[1]].stat
    BY <1>1, <1>2 DEF TableKept, Met
  <2>. QED  BY <1>2, <2>1 DEF Awaited, scanVars
<1>9. Counted'
  <2>1. \A k \in met : k \notin LiveKeys => k \notin LiveKeys'
    BY <1>1 DEF TableKept, Met, TypeOK, Keys, KernelTypeOK
  <2>2. Gone \subseteq Gone'
    BY <1>2, <2>1 DEF Gone, scanVars
  <2>3. IsFiniteSet(Gone') /\ Cardinality(Gone) <= Cardinality(Gone')
    <3>1. Gone' \subseteq Keys
      BY <1>3, <1>4 DEF Gone, TypeOK
    <3>2. IsFiniteSet(Gone')
      BY <3>1, KeysAreFinite DEF TypeOK
    <3>. QED  BY <2>2, <3>2, FS_Subset
  <2>4. Cardinality(Gone) \in Nat /\ Cardinality(Gone') \in Nat
    BY <2>2, <2>3, FS_Subset, FS_CardinalityType
  <2>5. cur.vanished \in Nat
    BY DEF TypeOK, IsSample
  <2>. QED  BY <1>2, <1>3, <2>3, <2>4, <2>5 DEF Counted, scanVars
<1>10. NothingInvented'
  BY <1>2 DEF NothingInvented, scanVars
<1>. QED  BY <1>1, <1>4, <1>5, <1>6, <1>7, <1>8, <1>9, <1>10 DEF TableKept

-----------------------------------------------------------------------------
(* A line of 22 columns, or one that breaks off after its fifth column. *)
LEMMA BrokenOff ==
  ASSUME NEW T, NEW row \in Seq(T), Len(row) = 22,
         \A i \in 1 .. 22 : row[i] \in T,
         \A i \in 1 .. 22 : row[i] # Space /\ row[i] # Mark(")"),
         NEW whole \in BOOLEAN
  PROVE  LET columns == IF whole THEN row ELSE SubSeq(row, 1, 5) IN
         /\ columns \in Seq(T)
         /\ \A i \in 1 .. Len(columns) : columns[i] # Space /\ columns[i] # Mark(")")
         /\ Len(columns) = IF whole THEN 22 ELSE 5
         /\ whole => columns = row
<1>1. /\ \A i \in 1 .. 5 : row[i] \in T
      /\ \A i \in 1 .. 5 : row[i] # Space /\ row[i] # Mark(")")
  OBVIOUS
<1>2. /\ SubSeq(row, 1, 5) \in Seq(T)
      /\ Len(SubSeq(row, 1, 5)) = 5
      /\ \A i \in 1 .. 5 : SubSeq(row, 1, 5)[i] = row[i]
  BY <1>1, SubSeqProperties
<1>3. \A i \in 1 .. 5 : SubSeq(row, 1, 5)[i] # Space /\ SubSeq(row, 1, 5)[i] # Mark(")")
  BY <1>1, <1>2
<1>4. CASE whole
  BY <1>4
<1>5. CASE ~ whole
  BY <1>2, <1>3, <1>5
<1>. QED  BY <1>4, <1>5

(* What parse_pid_stat makes of the file of a living process. *)
LEMMA ParsedIs ==
  ASSUME KernelTypeOK, NEW pid \in Alive
  PROVE  LET start == table[pid].start IN
         Parsed(pid) = IF table[pid].stat # "malformed"
                         THEN {[pid |-> pid, comm |-> Names[start], starttime |-> start]}
                         ELSE {}
<1>. DEFINE start   == table[pid].start
            whole   == table[pid].stat # "malformed"
            full    == [c \in 1 .. 22 |->
                          IF c = 1 THEN Mark("S") ELSE Num(IF c = StartTime THEN start ELSE 0)]
            columns == IF whole THEN full ELSE SubSeq(full, 1, 5)
            line    == <<Num(pid), Space, Mark("(")>> \o Names[start] \o <<Mark(")")>> \o columns
            T       == Token \cup {Mark("S"), Num(start), Num(0)}
<1>1. /\ pid \in 1 .. MostPids /\ start \in 1 .. MostBirths /\ whole \in BOOLEAN
      /\ start \in 1 .. Len(Names)
  BY Bounds, LivingProcess DEF Pids
<1>2. Names[start] \in Seq(T)
  <2>1. Names[start] \in Seq(Token)
    BY <1>1, KernelAssumption
  <2>. QED  BY <2>1
<1>3. /\ full \in Seq(T) /\ Len(full) = 22
      /\ \A i \in 1 .. 22 : full[i] \in T
      /\ \A i \in 1 .. 22 : full[i] # Space /\ full[i] # Mark(")")
      /\ \A i \in 2 .. 22 : IsNumber(full[i])
      /\ full[StartTime].n = start
  <2>1. \A i \in 1 .. 22 : full[i] \in T
    OBVIOUS
  <2>2. full \in [1 .. 22 -> T]
    BY <2>1
  <2>3. full \in Seq(T) /\ Len(full) = 22
    BY <2>2
  <2>4. /\ Mark("S") # Space /\ Mark("S") # Mark(")")
        /\ \A n : Num(n) # Space /\ Num(n) # Mark(")") /\ IsNumber(Num(n)) /\ Num(n).n = n
    BY DEF Mark, Space, Num, IsNumber
  <2>5. \A i \in 1 .. 22 : full[i] # Space /\ full[i] # Mark(")")
    BY <2>4
  <2>6. (\A i \in 2 .. 22 : IsNumber(full[i])) /\ full[StartTime].n = start
    BY <2>4 DEF StartTime
  <2>. QED  BY <2>1, <2>3, <2>5, <2>6
<1>. HIDE DEF full, T
<1>4. /\ columns \in Seq(T)
      /\ \A i \in 1 .. Len(columns) : columns[i] # Space /\ columns[i] # Mark(")")
      /\ Len(columns) = IF whole THEN 22 ELSE 5
      /\ whole => columns = full
  <2>. HIDE DEF whole
  <2>. QED  BY <1>1, <1>3, BrokenOff
<1>5. <<pid, start, whole>> \in DOMAIN StatLines /\ StatText(pid) = line
  <2>1. <<pid, start, whole>> \in (1 .. MostPids) \X (1 .. MostBirths) \X BOOLEAN
    BY <1>1
  <2>2. StatText(pid) = StatLine(pid, start, whole)
    BY <2>1 DEF StatText, StatLines
  <2>. QED  BY <2>1, <2>2 DEF StatLines, StatLine, full
<1>. HIDE DEF columns, line
<1>6. Parsed(pid) = ParsePidStat(line)
  <2>1. line \in Range(StatLines)
    BY <1>5 DEF StatText, Range
  <2>. QED  BY <1>5, <2>1 DEF Parsed, Parse
<1>7. ParsePidStat(line) =
        IF \A c \in NumberColumns : c <= Len(columns) /\ IsNumber(columns[c])
          THEN {[pid |-> pid, comm |-> Names[start], starttime |-> columns[StartTime].n]}
          ELSE {}
  BY <1>2, <1>4, AnyNameParses DEF line
<1>8. whole <=> \A c \in NumberColumns : c <= Len(columns) /\ IsNumber(columns[c])
  <2>1. NumberColumns \subseteq 2 .. 22 /\ 12 \in NumberColumns
    BY DEF NumberColumns
  <2>2. CASE whole
    <3>1. columns = full /\ Len(columns) = 22
      BY <1>4, <2>2
    <3>2. ASSUME NEW c \in NumberColumns
          PROVE  c <= Len(columns) /\ IsNumber(columns[c])
      <4>1. c \in 2 .. 22
        BY <2>1
      <4>2. IsNumber(full[c])
        BY <1>3, <4>1
      <4>. QED  BY <3>1, <4>1, <4>2
    <3>. QED  BY <2>2, <3>2
  <2>3. CASE ~ whole
    BY <1>4, <2>1, <2>3
  <2>. QED  BY <2>2, <2>3
<1>. QED  BY <1>3, <1>4, <1>6, <1>7, <1>8

-----------------------------------------------------------------------------
(* The steps of a scan. *)
LEMMA TableStill ==
  ASSUME CInv, UNCHANGED kernelVars
  PROVE  /\ KernelTypeOK' /\ Dated'
         /\ size' = size /\ table' = table /\ births' = births
         /\ Pids' = Pids /\ Keys' = Keys /\ Alive' = Alive /\ LiveKeys' = LiveKeys
         /\ \A s : IsSample(s)' <=> IsSample(s)
<1>1. size' = size /\ table' = table /\ births' = births /\ written' = written
  BY DEF kernelVars
<1>2. Pids' = Pids /\ Keys' = Keys /\ \A s : IsSample(s)' <=> IsSample(s)
  BY <1>1, SampleKept
<1>3. Alive' = Alive
  BY <1>1, <1>2 DEF Alive, Nobody
<1>4. LiveKeys' = LiveKeys
  BY <1>1, <1>3 DEF LiveKeys, KeyOf
<1>5. KernelTypeOK' /\ Dated'
  BY <1>1, <1>2, <1>3 DEF KernelTypeOK, Dated, TypeOK, CInv, Process, Nobody
<1>. QED  BY <1>1, <1>2, <1>3, <1>4, <1>5

(* The empty sample is a sample. *)
LEMMA EmptySampleType ==
  ASSUME KernelTypeOK, NEW scan \in 0 .. size.scans
  PROVE  /\ IsSample(EmptySample(scan))
         /\ EmptySample(scan).vanished = 0 /\ EmptySample(scan).io_denied = 0
         /\ DOMAIN EmptySample(scan).procs = {}
<1>1. Cardinality(Pids) \in Nat
  BY KeysAreFinite, Bounds
<1>. QED  BY <1>1 DEF IsSample, EmptySample

LEMMA BeginScanKeeps ==
  ASSUME CInv, BeginScan
  PROVE  CInv'
<1>. USE DEF BeginScan
<1>1. KernelTypeOK /\ size.pids \in Nat /\ size.scans \in Nat
  BY Bounds DEF CInv, TypeOK
<1>2. /\ scans + 1 \in 0 .. size.scans
      /\ IsSample(cur') /\ cur'.vanished = 0 /\ cur'.io_denied = 0 /\ DOMAIN cur'.procs = {}
  <2>1. scans + 1 \in 0 .. size.scans
    BY <1>1 DEF CInv, TypeOK
  <2>. QED  BY <1>1, <2>1, EmptySampleType
<1>3. LiveKeys \subseteq Keys /\ \A k \in LiveKeys : k[2] <= births /\ k[1] \in Pids
  BY LivingKey, LivingProcess DEF CInv, TypeOK, Dated
<1>4. TypeOK'
  BY <1>1, <1>2, <1>3, TableStill DEF CInv, TypeOK
<1>5. Met'
  BY <1>3, TableStill DEF Met
<1>6. Listed'
  <2>1. \A k \in stayed' : k[1] >= 1 /\ k[1] \in Nat
    BY <1>1, <1>3 DEF Pids
  <2>. QED  BY <2>1 DEF Listed
<1>7. Current' /\ Awaited'
  BY DEF Current, Awaited
<1>8. Counted'
  <2>1. Gone' \subseteq Keys
    BY <1>3 DEF Gone
  <2>2. Cardinality(Gone') \in Nat
    BY <1>1, <2>1, KeysAreFinite, FS_CardinalityType
  <2>. QED  BY <1>1, <1>2, <2>2, TableStill DEF Counted
<1>9. NothingInvented'
  BY <1>2 DEF NothingInvented
<1>. QED  BY <1>4, <1>5, <1>6, <1>7, <1>8, <1>9, TableStill DEF CInv

LEMMA SystemReadFailsKeeps ==
  ASSUME CInv, SystemReadFails
  PROVE  CInv'
<1>. USE DEF SystemReadFails
<1>1. TypeOK'
  BY TableStill DEF CInv, TypeOK
<1>2. Met' /\ Listed' /\ Current' /\ Awaited'
  BY TableStill DEF CInv, Met, Listed, Current, Awaited
<1>3. Counted' /\ NothingInvented'
  BY TableStill DEF CInv, Counted, Gone, NothingInvented
<1>. QED  BY <1>1, <1>2, <1>3, TableStill DEF CInv

LEMMA Appended ==
  ASSUME NEW T, NEW s \in Seq(T), NEW e \in T
  PROVE  /\ Append(s, e) \in Seq(T)
         /\ Len(s) \in Nat /\ Len(Append(s, e)) = Len(s) + 1
         /\ DOMAIN s = 1 .. Len(s) /\ DOMAIN Append(s, e) = 1 .. Len(s) + 1
         /\ \A i \in 1 .. Len(s) : Append(s, e)[i] = s[i]
         /\ Append(s, e)[Len(s) + 1] = e
OBVIOUS

LEMMA ListPidKeeps ==
  ASSUME CInv, ListPid
  PROVE  CInv'
<1>. USE DEF ListPid
<1>1. /\ pids \in Seq(Pids) /\ cursor \in Nat /\ cursor + 1 \in Pids
      /\ size.pids \in Nat /\ Pids = 1 .. size.pids
  BY Bounds DEF CInv, TypeOK, Pids
<1>2. /\ pids' \in Seq(Pids) /\ Len(pids') \in Nat /\ Len(pids) \in Nat
      /\ DOMAIN pids' = 1 .. Len(pids') /\ DOMAIN pids = 1 .. Len(pids)
      /\ Len(pids') = IF cursor + 1 \in Alive THEN Len(pids) + 1 ELSE Len(pids)
      /\ \A i \in 1 .. Len(pids) : pids'[i] = pids[i]
      /\ cursor + 1 \in Alive => pids'[Len(pids) + 1] = cursor + 1
  <2>1. CASE cursor + 1 \in Alive
    <3>1. pids' = Append(pids, cursor + 1)
      BY <2>1
    <3>. QED  BY <1>1, <2>1, <3>1, Appended
  <2>2. CASE cursor + 1 \notin Alive
    <3>1. pids' = pids
      BY <2>2
    <3>. QED  BY <1>1, <2>2, <3>1
  <2>. QED  BY <2>1, <2>2
<1>3. TypeOK'
  BY <1>1, <1>2, TableStill DEF CInv, TypeOK
<1>4. Met'
  BY TableStill DEF CInv, Met
<1>5. Listed'
  <2>1. \A i, j \in DOMAIN pids' : i < j => pids'[i] < pids'[j]
    BY <1>1, <1>2 DEF CInv, Listed
  <2>2. \A i \in DOMAIN pids' : \E k \in met' : k[1] = pids'[i]
    BY <1>2, LivingProcess DEF CInv, TypeOK, Met, Listed
  <2>3. cur' = EmptySample(scans') /\ Len(pids') <= cursor'
    BY <1>1, <1>2 DEF CInv, Listed, EmptySample
  <2>4. \A i \in DOMAIN pids' : pids'[i] <= cursor'
    BY <1>1, <1>2 DEF CInv, Listed
  <2>5. ASSUME NEW k \in stayed', k[1] <= cursor'
        PROVE  k[1] \in Range(pids')
    <3>1. k \in LiveKeys /\ k[1] \in Alive /\ k[1] \in Pids
      BY LivingKey DEF CInv, Met, Alive
    <3>2. CASE k[1] <= cursor
      BY <1>2, <3>2 DEF CInv, Listed, Range
    <3>3. CASE k[1] = cursor + 1
      <4>1. Len(pids) + 1 \in DOMAIN pids' /\ pids'[Len(pids) + 1] = k[1]
        BY <1>2, <3>1, <3>3
      <4>. QED  BY <4>1 DEF Range
    <3>. QED  BY <1>1, <2>5, <3>1, <3>2, <3>3
  <2>. QED  BY <2>1, <2>2, <2>3, <2>4, <2>5 DEF Listed
<1>6. Current' /\ Awaited'
  BY DEF Current, Awaited
<1>7. Counted'
  <2>1. cur.vanished = 0 /\ cur.io_denied = 0
    BY DEF CInv, Listed, EmptySample
  <2>2. Cardinality(Gone') \in Nat
    <3>1. Gone' \subseteq Keys
      BY DEF Gone, CInv, TypeOK
    <3>. QED  BY <3>1, KeysAreFinite, FS_CardinalityType DEF CInv, TypeOK
  <2>3. Len(pids') <= size.pids
    BY <1>1, <1>2, <1>5 DEF Listed
  <2>. QED  BY <1>1, <2>1, <2>2, <2>3, TableStill DEF Counted
<1>8. NothingInvented'
  BY DEF CInv, NothingInvented
<1>. QED  BY <1>3, <1>4, <1>5, <1>6, <1>7, <1>8, TableStill DEF CInv

(* An entry that cannot be read is not listed, and nobody waits for it. *)
LEMMA SkipEntryKeeps ==
  ASSUME CInv, SkipEntry
  PROVE  CInv'
<1>. USE DEF SkipEntry
<1>1. /\ cursor \in Nat /\ cursor + 1 \in Pids /\ cursor' = cursor + 1
      /\ size.pids \in Nat /\ Pids = 1 .. size.pids /\ stayed' \subseteq stayed
  BY Bounds DEF CInv, TypeOK, Pids, Alive
<1>2. TypeOK'
  BY <1>1, TableStill DEF CInv, TypeOK
<1>3. Met'
  BY <1>1, TableStill DEF CInv, Met
<1>4. Listed'
  <2>1. \A i, j \in DOMAIN pids' : i < j => pids'[i] < pids'[j]
    BY DEF CInv, Listed
  <2>2. \A i \in DOMAIN pids' : \E k \in met' : k[1] = pids'[i]
    BY DEF CInv, Listed
  <2>3. /\ cur = EmptySample(scans) /\ Len(pids) <= cursor
        /\ \A i \in DOMAIN pids : pids[i] <= cursor
        /\ \A k \in stayed : k[1] <= cursor => k[1] \in Range(pids)
    BY DEF CInv, Listed
  <2>4. /\ Len(pids) \in Nat /\ \A i \in DOMAIN pids : pids[i] \in Nat
    BY <1>1 DEF CInv, TypeOK
  <2>5. /\ cur' = EmptySample(scans') /\ Len(pids') <= cursor'
        /\ \A i \in DOMAIN pids' : pids'[i] <= cursor'
    BY <1>1, <2>3, <2>4 DEF EmptySample
  <2>6. ASSUME NEW k \in stayed', k[1] <= cursor'
        PROVE  k[1] \in Range(pids')
    <3>1. k \in stayed /\ k # KeyOf(cursor + 1)
      BY <1>1 DEF KeyOf
    <3>2. k \in LiveKeys /\ k[1] \in Pids /\ k = KeyOf(k[1])
      BY <3>1, LivingKey DEF CInv, Met, Alive
    <3>3. k[1] # cursor + 1
      BY <3>1, <3>2
    <3>4. k[1] <= cursor
      BY <1>1, <2>6, <3>2, <3>3
    <3>. QED  BY <2>3, <3>1, <3>4
  <2>. QED  BY <2>1, <2>2, <2>5, <2>6 DEF Listed
<1>5. Current' /\ Awaited'
  BY DEF Current, Awaited
<1>6. Counted' /\ NothingInvented'
  BY TableStill DEF CInv, Counted, Gone, NothingInvented
<1>. QED  BY <1>2, <1>3, <1>4, <1>5, <1>6, TableStill DEF CInv

LEMMA EndListKeeps ==
  ASSUME CInv, EndList
  PROVE  CInv'
<1>. USE DEF EndList
<1>1. TypeOK'
  BY TableStill DEF CInv, TypeOK
<1>2. Met' /\ Listed' /\ Current'
  BY TableStill DEF CInv, Met, Listed, Current
<1>3. Awaited'
  <2>1. \A k \in stayed : k[1] \in Pids
    BY LivingKey DEF CInv, Met, Alive
  <2>2. cursor = size.pids /\ size.pids \in Nat
    BY Bounds DEF CInv, TypeOK, Pids
  <2>3. \A k \in stayed : k[1] \in Range(pids)
    BY <2>1, <2>2 DEF CInv, Listed, Pids
  <2>. QED  BY <2>3 DEF Awaited
<1>4. Counted' /\ NothingInvented'
  BY TableStill DEF CInv, Counted, Gone, NothingInvented
<1>. QED  BY <1>1, <1>2, <1>3, <1>4, TableStill DEF CInv

LEMMA FirstAndRest ==
  ASSUME NEW T, NEW s \in Seq(T), s # <<>>
  PROVE  /\ Head(s) = s[1] /\ Head(s) \in T
         /\ Tail(s) \in Seq(T)
         /\ Len(s) \in Nat /\ Len(s) >= 1 /\ Len(Tail(s)) = Len(s) - 1
         /\ DOMAIN s = 1 .. Len(s) /\ DOMAIN Tail(s) = 1 .. Len(s) - 1
         /\ \A i \in 1 .. Len(s) - 1 : Tail(s)[i] = s[i + 1]
OBVIOUS

(* One pid less to read: the list keeps its order, and if nobody has the   *)
(* pid then somebody more has gone.                                        *)
LEMMA PidPassed ==
  ASSUME CInv, pids # <<>>, pids' = Tail(pids), UNCHANGED <<kernelVars, stayed, met>>
  PROVE  /\ pids' \in Seq(Pids) /\ Len(pids') \in Nat /\ Len(pids) = Len(pids') + 1
         /\ Head(pids) \in Pids
         /\ \A i, j \in DOMAIN pids' : i < j => pids'[i] < pids'[j]
         /\ \A i \in DOMAIN pids' : \E k \in met : k[1] = pids'[i]
         /\ \A x \in Range(pids) : x = Head(pids) \/ x \in Range(pids')
         /\ Cardinality(Gone) \in Nat /\ Cardinality(Gone') \in Nat
         /\ Cardinality(Gone) + (IF Head(pids) \in Alive THEN 0 ELSE 1) <= Cardinality(Gone')
<1>1. /\ pids \in Seq(Pids) /\ size.pids \in Nat /\ Pids = 1 .. size.pids
      /\ met \subseteq Keys /\ IsFiniteSet(Keys) /\ met' = met /\ LiveKeys' = LiveKeys
  BY Bounds, KeysAreFinite, TableStill DEF CInv, TypeOK, Pids
<1>2. /\ Head(pids) = pids[1] /\ Head(pids) \in Pids
      /\ pids' \in Seq(Pids)
      /\ Len(pids) \in Nat /\ Len(pids) >= 1 /\ Len(pids') = Len(pids) - 1
      /\ DOMAIN pids = 1 .. Len(pids) /\ DOMAIN pids' = 1 .. Len(pids) - 1
      /\ \A i \in 1 .. Len(pids) - 1 : pids'[i] = pids[i + 1]
  BY <1>1, FirstAndRest
<1>3. /\ \A i, j \in 1 .. Len(pids) : i < j => pids[i] < pids[j]
      /\ \A i \in 1 .. Len(pids) : \E k \in met : k[1] = pids[i]
  BY <1>2 DEF CInv, Listed
<1>4. /\ \A i, j \in DOMAIN pids' : i < j => pids'[i] < pids'[j]
      /\ \A i \in DOMAIN pids' : \E k \in met : k[1] = pids'[i]
      /\ \A i \in DOMAIN pids' : Head(pids) < pids'[i]
  <2>1. \A i \in DOMAIN pids' : i \in Int /\ i + 1 \in 1 .. Len(pids) /\ 1 \in 1 .. Len(pids)
    BY <1>2
  <2>2. \A i \in DOMAIN pids' : pids'[i] = pids[i + 1]
    BY <1>2
  <2>. QED  BY <1>2, <1>3, <2>1, <2>2
<1>5. \A x \in Range(pids) : x = Head(pids) \/ x \in Range(pids')
  <2>. SUFFICES ASSUME NEW x \in Range(pids), x # Head(pids)
                PROVE  x \in Range(pids')
    OBVIOUS
  <2>1. PICK i \in 1 .. Len(pids) : x = pids[i]
    BY <1>2 DEF Range
  <2>2. i - 1 \in DOMAIN pids' /\ pids'[i - 1] = x
    <3>1. i # 1 /\ i \in Int /\ i >= 1 /\ i <= Len(pids)
      BY <1>2, <2>1
    <3>2. i - 1 \in 1 .. Len(pids) - 1 /\ (i - 1) + 1 = i
      BY <1>2, <3>1
    <3>. QED  BY <1>2, <2>1, <3>2
  <2>. QED  BY <2>2 DEF Range
<1>6. /\ Gone \subseteq Keys /\ Gone' \subseteq Keys
      /\ IsFiniteSet(Gone) /\ IsFiniteSet(Gone')
      /\ Cardinality(Gone) \in Nat /\ Cardinality(Gone') \in Nat
  <2>1. Gone \subseteq Keys /\ Gone' \subseteq Keys
    BY <1>1 DEF Gone
  <2>. QED  BY <1>1, <2>1, FS_Subset, FS_CardinalityType
<1>7. Gone \subseteq Gone'
  <2>1. \A i \in DOMAIN pids' : i + 1 \in DOMAIN pids /\ pids'[i] = pids[i + 1]
    BY <1>2
  <2>. QED  BY <1>1, <2>1 DEF Gone
<1>8. Head(pids) \notin Alive => \E k \in Gone' : k \notin Gone
  <2>. SUFFICES ASSUME Head(pids) \notin Alive
                PROVE  \E k \in Gone' : k \notin Gone
    OBVIOUS
  <2>1. PICK k \in met : k[1] = Head(pids)
    BY <1>2, <1>3
  <2>2. k \notin LiveKeys
    BY <2>1, LivingKey
  <2>3. k \in Gone'
    BY <1>1, <1>4, <2>1, <2>2 DEF Gone
  <2>4. k \notin Gone
    BY <1>1, <1>2, <2>1 DEF Gone
  <2>. QED  BY <2>3, <2>4
<1>9. Cardinality(Gone) + (IF Head(pids) \in Alive THEN 0 ELSE 1) <= Cardinality(Gone')
  <2>1. CASE Head(pids) \in Alive
    <3>1. Cardinality(Gone) <= Cardinality(Gone')
      BY <1>6, <1>7, FS_Subset
    <3>. QED  BY <1>6, <2>1, <3>1
  <2>2. CASE Head(pids) \notin Alive
    <3>1. PICK k \in Gone' : k \notin Gone
      BY <1>8, <2>2
    <3>2. Gone \cup {k} \subseteq Gone' /\ Cardinality(Gone \cup {k}) = Cardinality(Gone) + 1
      BY <1>6, <1>7, <3>1, FS_AddElement
    <3>3. Cardinality(Gone \cup {k}) <= Cardinality(Gone')
      BY <1>6, <3>2, FS_Subset
    <3>. QED  BY <1>6, <2>2, <3>2, <3>3
  <2>. QED  BY <2>1, <2>2
<1>. QED  BY <1>2, <1>4, <1>5, <1>6, <1>9

LEMMA StatGoneKeeps ==
  ASSUME CInv, StatGone
  PROVE  CInv'
<1>. USE DEF StatGone
<1>1. /\ KernelTypeOK /\ size.pids \in Nat /\ IsSample(cur)
      /\ cur.vanished \in Nat /\ cur.io_denied \in Nat
      /\ cur.vanished + cur.io_denied + Len(pids) <= size.pids
      /\ cur.vanished <= Cardinality(Gone)
      /\ Cardinality(Pids) = size.pids
  BY Bounds, KeysAreFinite DEF CInv, TypeOK, IsSample, Counted
<1>2. /\ DOMAIN cur' = DOMAIN cur /\ cur'.vanished = cur.vanished + 1
      /\ cur'.io_denied = cur.io_denied /\ cur'.procs = cur.procs /\ cur'.scan = cur.scan
  BY <1>1 DEF IsSample
<1>3. Counted'
  BY <1>1, <1>2, PidPassed, TableStill DEF Counted
<1>4. IsSample(cur')
  <2>1. Len(pids) >= 1
    BY PidPassed
  <2>2. cur'.vanished \in Nat /\ cur'.vanished + cur'.io_denied <= Cardinality(Pids)
    <3>. size.pids \in Nat /\ Len(pids) \in Nat
      BY <1>1, PidPassed
    <3>. QED  BY <1>1, <1>2, <2>1
  <2>. QED  BY <1>1, <1>2, <2>2 DEF IsSample
<1>5. TypeOK'
  BY <1>4, PidPassed, TableStill DEF CInv, TypeOK
<1>6. Met'
  BY TableStill DEF CInv, Met
<1>7. Listed'
  BY PidPassed DEF Listed
<1>8. Current'
  BY DEF Current
<1>9. Awaited'
  <2>1. \A k \in stayed : k[1] # Head(pids)
    BY LivingKey DEF CInv, Met
  <2>. QED  BY <1>2, <2>1, PidPassed, TableStill DEF CInv, Awaited
<1>10. NothingInvented'
  BY <1>2 DEF CInv, NothingInvented
<1>. QED  BY <1>3, <1>5, <1>6, <1>7, <1>8, <1>9, <1>10, TableStill DEF CInv

LEMMA StatMalformedKeeps ==
  ASSUME CInv, StatMalformed
  PROVE  CInv'
<1>. USE DEF StatMalformed, StatReadable
<1>1. /\ KernelTypeOK /\ size.pids \in Nat
      /\ cur.vanished \in Nat /\ cur.io_denied \in Nat
      /\ cur.vanished + cur.io_denied + Len(pids) <= size.pids
      /\ cur.vanished <= Cardinality(Gone)
  BY Bounds DEF CInv, TypeOK, IsSample, Counted
<1>2. Counted'
  BY <1>1, PidPassed, TableStill DEF Counted
<1>3. TypeOK'
  BY PidPassed, TableStill DEF CInv, TypeOK
<1>4. Met'
  BY TableStill DEF CInv, Met
<1>5. Listed'
  BY PidPassed DEF Listed
<1>6. Current'
  BY DEF Current
<1>7. Awaited'
  <2>1. table[Head(pids)].stat = "malformed"
    BY ParsedIs DEF CInv, TypeOK
  <2>. QED  BY <2>1, PidPassed, TableStill DEF CInv, Awaited
<1>8. NothingInvented'
  BY DEF CInv, NothingInvented
<1>. QED  BY <1>2, <1>3, <1>4, <1>5, <1>6, <1>7, <1>8, TableStill DEF CInv

LEMMA StatUnreadableKeeps ==
  ASSUME CInv, StatUnreadable
  PROVE  CInv'
<1>. USE DEF StatUnreadable
<1>1. TypeOK'
  BY TableStill DEF CInv, TypeOK
<1>2. Met' /\ Listed' /\ Current' /\ Awaited'
  BY TableStill DEF CInv, Met, Listed, Current, Awaited
<1>3. Counted' /\ NothingInvented'
  BY TableStill DEF CInv, Counted, Gone, NothingInvented
<1>. QED  BY <1>1, <1>2, <1>3, TableStill DEF CInv

LEMMA StatReadKeeps ==
  ASSUME CInv, StatRead
  PROVE  CInv'
<1>. USE DEF StatRead, StatReadable
<1>1. /\ KernelTypeOK /\ Head(pids) \in Alive /\ pids # <<>>
      /\ stat' = [pid |-> Head(pids), comm |-> Names[table[Head(pids)].start],
                  starttime |-> table[Head(pids)].start]
  BY ParsedIs DEF CInv, TypeOK
<1>2. Key(stat') = KeyOf(Head(pids)) /\ KeyOf(Head(pids)) \in LiveKeys
  BY <1>1, LivingProcess DEF Key, KeyOf
<1>3. TypeOK'
  BY <1>1, TableStill DEF CInv, TypeOK
<1>4. Met'
  BY TableStill DEF CInv, Met
<1>5. Listed'
  BY DEF CInv, Listed
<1>6. Current'
  <2>1. Key(stat)' = Key(stat')
    BY DEF Key
  <2>2. Key(stat') \in met'
    BY <1>2 DEF CInv, Met
  <2>3. \A k \in stayed : k[1] = Head(pids) => k = Key(stat')
    BY <1>2, LivingKey DEF CInv, Met
  <2>. QED  BY <1>1, <2>1, <2>2, <2>3 DEF Current
<1>7. Awaited'
  BY TableStill DEF CInv, Awaited
<1>8. Counted' /\ NothingInvented'
  BY TableStill DEF CInv, Counted, Gone, NothingInvented
<1>. QED  BY <1>3, <1>4, <1>5, <1>6, <1>7, <1>8, TableStill DEF CInv

(* Of the two lines about written bytes, the second counts. *)
LEMMA WriteBytesRead ==
  ASSUME NEW pid
  PROVE  WriteBytes(IoText(pid)) = table[pid].bytes
<1>. DEFINE file == IoText(pid)
            I    == {i \in 1 .. Len(file) : file[i].key = "write_bytes"}
<1>1. /\ Len(file) = 2 /\ file[1].key = "wchar" /\ file[2].key = "write_bytes"
      /\ file[2].n = table[pid].bytes
  BY DEF IoText
<1>. HIDE DEF file
<1>2. I = {2}
  BY <1>1
<1>3. Max(I) = 2
  BY <1>2, MaxIs
<1>. QED  BY <1>1, <1>2, <1>3 DEF WriteBytes, Value, SelectLastInSeq, file

LEMMA IoReadingType ==
  ASSUME KernelTypeOK, NEW pid \in Pids
  PROVE  IF pid \in Alive /\ table[pid].readable
           THEN /\ IoReading(pid) \in Reading
                /\ IoReading(pid).bytes = table[pid].bytes
                /\ IoReading(pid).odometer = written[pid]
           ELSE IoReading(pid) = None
BY WriteBytesRead, LivingProcess DEF IoReading, Reading, KernelTypeOK

(* One more denied, one fewer to read. *)
LEMMA OneFewer ==
  ASSUME NEW gone \in Nat, NEW denied \in Nat, NEW more \in Nat, NEW left \in Nat, NEW room \in Nat,
         gone + denied + (left + 1) <= room, more <= denied + 1
  PROVE  gone + more + left <= room
OBVIOUS

LEMMA ReadIoKeeps ==
  ASSUME CInv, ReadIo
  PROVE  CInv'
<1>. DEFINE pid    == Head(pids)
            key    == Key(stat)
            record == [comm |-> stat.comm, io |-> IoReading(pid)]
<1>. USE DEF ReadIo
<1>1. /\ KernelTypeOK /\ size.pids \in Nat /\ IsSample(cur)
      /\ cur.vanished \in Nat /\ cur.io_denied \in Nat
      /\ cur.vanished + cur.io_denied + Len(pids) <= size.pids
      /\ cur.vanished <= Cardinality(Gone)
      /\ Cardinality(Pids) = size.pids
      /\ met \subseteq Keys
  BY Bounds, KeysAreFinite DEF CInv, TypeOK, IsSample, Counted
<1>2. /\ pids # <<>> /\ key \in met /\ stat.comm = Names[key[2]] /\ key[1] = pid
      /\ \A k \in stayed : k[1] = pid => k = key
  BY DEF CInv, Current, Key
<1>3. IoReading(pid) \in Reading \cup {None}
  BY <1>1, <1>2, PidPassed, IoReadingType
<1>4. /\ DOMAIN cur' = DOMAIN cur /\ cur'.vanished = cur.vanished /\ cur'.scan = cur.scan
      /\ cur'.io_denied \in cur.io_denied .. cur.io_denied + 1
      /\ cur'.procs = Insert(cur.procs, key, record)
  BY <1>1 DEF IsSample
<1>5. /\ DOMAIN cur'.procs = DOMAIN cur.procs \cup {key}
      /\ cur'.procs[key] = record
      /\ \A k \in DOMAIN cur.procs : k # key => cur'.procs[k] = cur.procs[k]
  BY <1>4 DEF Insert
<1>6. Counted'
  <2>1. /\ size' = size /\ Len(pids') \in Nat /\ Len(pids) = Len(pids') + 1
        /\ Cardinality(Gone) \in Nat /\ Cardinality(Gone') \in Nat
        /\ Cardinality(Gone) <= Cardinality(Gone')
    BY <1>2, PidPassed, TableStill
  <2>. HIDE DEF ReadIo
  <2>2. cur'.io_denied \in Nat /\ cur'.io_denied <= cur.io_denied + 1
    BY <1>1, <1>4
  <2>3. cur'.vanished <= Cardinality(Gone')
    BY <1>1, <1>4, <2>1
  <2>4. cur'.vanished + cur'.io_denied + Len(pids') <= size'.pids
    <3>1. cur.vanished + cur.io_denied + (Len(pids') + 1) <= size.pids
      BY <1>1, <2>1
    <3>2. cur.vanished + cur'.io_denied + Len(pids') <= size.pids
      BY <1>1, <2>1, <2>2, <3>1, OneFewer
    <3>. QED  BY <1>4, <2>1, <3>2
  <2>. QED  BY <2>3, <2>4 DEF Counted
<1>7. IsSample(cur')
  <2>1. cur'.io_denied \in Nat /\ cur'.vanished + cur'.io_denied <= Cardinality(Pids)
    <3>1. Len(pids) \in Nat /\ Len(pids) >= 1
      <4>1. Len(pids') \in Nat /\ Len(pids) = Len(pids') + 1
        BY <1>2, PidPassed
      <4>. QED  BY <4>1
    <3>2. cur'.io_denied \in Nat /\ cur'.io_denied <= cur.io_denied + 1
      BY <1>1, <1>4
    <3>. HIDE DEF ReadIo
    <3>. QED  BY <1>1, <1>4, <3>1, <3>2
  <2>2. DOMAIN cur'.procs \subseteq Keys
    BY <1>1, <1>2, <1>5 DEF IsSample
  <2>3. \A k \in DOMAIN cur'.procs :
          DOMAIN cur'.procs[k] = {"comm", "io"} /\ cur'.procs[k].io \in Reading \cup {None}
    <3>1. DOMAIN record = {"comm", "io"} /\ record.io \in Reading \cup {None}
      BY <1>3
    <3>2. \A k \in DOMAIN cur.procs :
            DOMAIN cur.procs[k] = {"comm", "io"} /\ cur.procs[k].io \in Reading \cup {None}
      BY <1>1 DEF IsSample
    <3>. HIDE DEF record, key
    <3>. QED  BY <1>5, <3>1, <3>2
  <2>. QED  BY <1>1, <1>4, <2>1, <2>2, <2>3 DEF IsSample
<1>8. TypeOK'
  BY <1>2, <1>7, PidPassed, TableStill DEF CInv, TypeOK
<1>9. Met'
  BY TableStill DEF CInv, Met
<1>10. Listed'
  BY <1>2, PidPassed DEF Listed
<1>11. Current'
  BY DEF Current
<1>12. Awaited'
  BY <1>2, <1>5, PidPassed, TableStill DEF CInv, Awaited
<1>13. NothingInvented'
  BY <1>2, <1>5 DEF CInv, NothingInvented
<1>. QED  BY <1>6, <1>8, <1>9, <1>10, <1>11, <1>12, <1>13, TableStill DEF CInv

LEMMA ReturnKeeps ==
  ASSUME CInv, Return
  PROVE  CInv'
<1>. USE DEF Return
<1>1. TypeOK'
  BY TableStill DEF CInv, TypeOK
<1>2. Met' /\ Listed' /\ Current' /\ Awaited'
  BY TableStill DEF CInv, Met, Listed, Current, Awaited
<1>3. Counted' /\ NothingInvented'
  BY TableStill DEF CInv, Counted, Gone, NothingInvented
<1>. QED  BY <1>1, <1>2, <1>3, TableStill DEF CInv

LEMMA StutterKeeps ==
  ASSUME CInv, UNCHANGED vars
  PROVE  CInv'
<1>. USE DEF vars, scanVars
<1>1. TypeOK'
  BY TableStill DEF CInv, TypeOK
<1>2. Met' /\ Listed' /\ Current' /\ Awaited'
  BY TableStill DEF CInv, Met, Listed, Current, Awaited, EmptySample, Key
<1>3. Counted' /\ NothingInvented'
  BY TableStill DEF CInv, Counted, Gone, NothingInvented
<1>. QED  BY <1>1, <1>2, <1>3, TableStill DEF CInv

LEMMA InitCInv == Init => CInv
<1>. SUFFICES ASSUME Init
              PROVE  CInv
  OBVIOUS
<1>. USE DEF Init
<1>1. /\ size \in Sizes /\ size.pids \in Nat /\ size.births \in Nat /\ size.scans \in Nat
      /\ size.pids <= size.births
      /\ births = size.pids /\ table \in [Pids -> Process \cup {Nobody}]
      /\ \A pid \in Pids : table[pid] # Nobody => table[pid].start = pid
      /\ written = [pid \in Pids |-> 0]
  BY KernelAssumption DEF KernelInit
<1>2. KernelTypeOK
  BY <1>1 DEF KernelTypeOK
<1>3. TypeOK
  <2>1. 0 \in 0 .. size.scans /\ 0 \in Pids \cup {0} /\ <<>> \in Seq(Pids)
    BY <1>1
  <2>2. IsSample(EmptySample(0))
    BY <1>2, <2>1, EmptySampleType
  <2>3. IsSample(cur)
    BY <2>2
  <2>. QED  BY <1>2, <2>1, <2>3 DEF TypeOK
<1>4. Dated
  BY <1>1 DEF Dated, Alive, Pids
<1>5. Met /\ Listed /\ Current /\ Awaited
  BY DEF Met, Listed, Current, Awaited
<1>6. Counted
  <2>1. Gone = {}
    BY DEF Gone
  <2>. QED  BY <1>1, <2>1, FS_EmptySet DEF Counted, EmptySample
<1>7. NothingInvented
  BY DEF NothingInvented, EmptySample
<1>. QED  BY <1>3, <1>4, <1>5, <1>6, <1>7 DEF CInv

LEMMA NextKeepsCInv ==
  ASSUME CInv, [Next]_vars
  PROVE  CInv'
<1>1. CASE BeginScan
  BY <1>1, BeginScanKeeps
<1>2. CASE SystemReadFails
  BY <1>2, SystemReadFailsKeeps
<1>3. CASE ListPid
  BY <1>3, ListPidKeeps
<1>4. CASE EndList
  BY <1>4, EndListKeeps
<1>5. CASE StatGone
  BY <1>5, StatGoneKeeps
<1>6. CASE StatMalformed
  BY <1>6, StatMalformedKeeps
<1>7. CASE StatUnreadable
  BY <1>7, StatUnreadableKeeps
<1>8. CASE StatRead
  BY <1>8, StatReadKeeps
<1>9. CASE ReadIo
  BY <1>9, ReadIoKeeps
<1>10. CASE Return
  BY <1>10, ReturnKeeps
<1>11. CASE KernelStep
  BY <1>11, KernelStepKeeps
<1>12. CASE UNCHANGED vars
  BY <1>12, StutterKeeps
<1>13. CASE SkipEntry
  BY <1>13, SkipEntryKeeps
<1>. QED  BY <1>1, <1>2, <1>3, <1>4, <1>5, <1>6, <1>7, <1>8, <1>9, <1>10, <1>11, <1>12, <1>13
          DEF Next, ReadFile

THEOREM CollectorInvariance == Spec => []CInv
BY InitCInv, NextKeepsCInv, PTL DEF Spec

LEMMA CInvImplies == CInv => NothingMissed /\ NothingInvented /\ VanishedDidExit
<1>. SUFFICES ASSUME CInv
              PROVE  NothingMissed /\ VanishedDidExit
  BY DEF CInv
<1>1. NothingMissed
  <2>. SUFFICES ASSUME pc = "stat", pids = <<>>, NEW k \in stayed, table[k[1]].stat = "good"
                PROVE  k \in DOMAIN cur.procs
    BY DEF NothingMissed
  <2>1. k[1] \notin Range(pids)
    BY DEF Range
  <2>. QED  BY <2>1 DEF CInv, Awaited
<1>2. VanishedDidExit
  <2>. DEFINE dead == met \ LiveKeys
  <2>1. IsFiniteSet(dead)
    BY KeysAreFinite DEF CInv, TypeOK
  <2>2. Gone \subseteq dead
    BY DEF Gone
  <2>3. /\ IsFiniteSet(Gone) /\ Cardinality(Gone) <= Cardinality(dead)
        /\ Cardinality(Gone) \in Nat /\ Cardinality(dead) \in Nat
    BY <2>1, <2>2, FS_Subset, FS_CardinalityType
  <2>4. cur.vanished \in Nat /\ cur.vanished <= Cardinality(Gone)
    BY DEF CInv, Counted, TypeOK, IsSample
  <2>5. cur.vanished <= Cardinality(dead)
    BY <2>3, <2>4
  <2>. QED  BY <2>5 DEF VanishedDidExit
<1>. QED  BY <1>1, <1>2

(* No process that lives through a scan is missing from the sample, unless *)
(* readdir failed at its entry, for any processes with any names, coming   *)
(* and going at any time: awaited by the list of pids, it is found under   *)
(* its key when its turn comes.                                            *)
THEOREM NoneMissed == Spec => []NothingMissed
BY CollectorInvariance, CInvImplies, PTL

(* No process is made up by a scan: keys and names in the sample are those *)
(* of processes alive at some time during it, however pids are recycled.   *)
THEOREM NoneInvented == Spec => []NothingInvented
BY CollectorInvariance, CInvImplies, PTL

(* The count of vanished processes never exceeds those that exited during  *)
(* the scan.                                                               *)
THEOREM VanishedAreDead == Spec => []VanishedDidExit
BY CollectorInvariance, CInvImplies, PTL

-----------------------------------------------------------------------------
(* The monitor: the collector, diff and the engine together.               *)

(* The alert engine, as its own proofs know it. *)
Facts ==
  INSTANCE RuleEngineProofs WITH
    Comms   <- Seq(Token),
    Keys    <- (1 .. MostPids) \X (1 .. MostBirths),
    Values  <- {},
    MaxStep <- MostScans,
    MaxTick <- MostScans,
    now     <- IF sample = None THEN 0 ELSE sample.scan,
    sampled <- IF sample = None THEN {} ELSE DOMAIN sample.procs,
    breach  <- <<>>,
    beyond  <- {}

(* Scans are numbered, and the sample is of one that was begun. *)
Numbered ==
  /\ cur.scan = scans
  /\ pc # "idle" => scans >= 1
  /\ sample # None => sample.scan <= scans

(* Before there is a sample, nothing has been compared or evaluated. *)
Baselined ==
  sample = None => before = None /\ snapshot = None /\ DOMAIN states = {}

(* What the process table saw of a sample agrees with it. *)
Witnessed(s, w) ==
  s # None =>
    /\ w.lasted \subseteq DOMAIN s.procs
    /\ DOMAIN s.procs \subseteq w.met
    /\ \A k \in DOMAIN s.procs : k[2] <= w.born

(* No more has been written under a pid since one of its io files was read *)
(* than the process that has it now may add to what was read.              *)
Metered(s) ==
  \A k \in DOMAIN s.procs :
    LET r == s.procs[k].io IN
    r # None =>
      /\ r.odometer <= written[k[1]]
      /\ k[1] \in Alive => table[k[1]].bytes <= r.bytes + (written[k[1]] - r.odometer)

(* The same between the readings of two samples. *)
Follows(prev, now) ==
  \A k \in DOMAIN prev.procs \cap DOMAIN now.procs :
    LET earlier == prev.procs[k].io
        later   == now.procs[k].io
    IN earlier # None /\ later # None =>
         /\ earlier.odometer <= later.odometer
         /\ later.bytes <= earlier.bytes + (later.odometer - earlier.odometer)

(* The snapshot is what diff makes of the last two samples. *)
Compared ==
  snapshot # None =>
    /\ before # None /\ sample # None
    /\ snapshot = ProcRates(before, sample)
    /\ Follows(before, sample)

(* The timer of a high write rate runs while something is being written. *)
Earned ==
  \A id \in DOMAIN states :
    /\ states[id].phase = "Pending"
    /\ Rules[id.rule].op = ">" /\ Rules[id.rule].threshold >= 0
    => /\ id.proc_key \in DOMAIN since
       /\ since[id.proc_key] <= states[id].since

MInv ==
  /\ CInv
  /\ Numbered /\ Baselined
  /\ before = None \/ IsSample(before)
  /\ \A k \in DOMAIN since : since[k] \in 1 .. scans
  /\ Witnessed(sample, last) /\ Witnessed(before, then)
  /\ Metered(cur)
  /\ sample # None => Metered(sample) /\ Follows(sample, cur)
  /\ Compared
  /\ Facts!TypeOK /\ Facts!LiveSubjects
  /\ Earned
  /\ AlertsAreEarned /\ DeadAlertsAreReaped /\ NewProcessesAreIgnored

-----------------------------------------------------------------------------
(* What is written is metered. *)

(* One event of the process table, as the odometers see it. *)
LEMMA KernelMeters ==
  ASSUME KernelTypeOK, KernelNext, NEW q \in Pids
  PROVE  /\ written[q] \in Nat /\ written'[q] \in Nat /\ written[q] <= written'[q]
         /\ q \in Alive' =>
              \/ table'[q].bytes = 0
              \/ /\ q \in Alive /\ table[q].bytes \in Nat /\ table'[q].bytes \in Nat
                 /\ table'[q].bytes + written[q] = table[q].bytes + written'[q]
<1>. PICK pid \in Pids : Spawn(pid) \/ Exit(pid) \/ Write(pid) \/ ChangeAccess(pid)
  BY DEF KernelNext
<1>1. /\ written \in [Pids -> Nat] /\ table \in [Pids -> Process \cup {Nobody}]
      /\ size' = size /\ Pids' = Pids /\ Nobody' = Nobody
  BY DEF KernelTypeOK, Spawn, Exit, Write, ChangeAccess, Pids, Nobody
<1>2. q \in Alive => table[q].bytes \in Nat
  BY LivingProcess, Bounds
<1>3. CASE table'[q] = table[q] /\ written'[q] = written[q]
  <2>1. q \in Alive' => q \in Alive
    BY <1>1, <1>3 DEF Alive
  <2>. QED  BY <1>1, <1>2, <1>3, <2>1
<1>4. CASE q = pid /\ Spawn(pid)
  <2>1. table'[q].bytes = 0 /\ written' = written
    BY <1>1, <1>4 DEF Spawn
  <2>. QED  BY <1>1, <2>1
<1>5. CASE q = pid /\ Exit(pid)
  <2>1. q \notin Alive' /\ written' = written
    BY <1>1, <1>5 DEF Exit, Alive
  <2>. QED  BY <1>1, <2>1
<1>6. CASE q = pid /\ Write(pid)
  <2>1. q \in Alive
    BY <1>6 DEF Write, Alive
  <2>2. table[q] \in Process
    BY <2>1, LivingProcess
  <2>3. table'[q].bytes = table[q].bytes + 1 /\ written'[q] = written[q] + 1
    BY <1>1, <1>6, <2>2 DEF Write, Process
  <2>. QED  BY <1>1, <1>2, <2>1, <2>3
<1>7. CASE q = pid /\ ChangeAccess(pid)
  <2>1. q \in Alive
    BY <1>7 DEF ChangeAccess, Alive
  <2>2. table[q] \in Process
    BY <2>1, LivingProcess
  <2>3. table'[q].bytes = table[q].bytes /\ written' = written
    BY <1>1, <1>7, <2>2 DEF ChangeAccess, Process
  <2>. QED  BY <1>1, <1>2, <2>1, <2>3
<1>8. CASE q # pid
  <2>1. table'[q] = table[q] /\ written'[q] = written[q]
    BY <1>1, <1>8 DEF Spawn, Exit, Write, ChangeAccess
  <2>. QED  BY <1>3, <2>1
<1>. QED  BY <1>4, <1>5, <1>6, <1>7, <1>8

LEMMA ReadingType ==
  ASSUME KernelTypeOK, NEW s, IsSample(s), NEW k \in DOMAIN s.procs
  PROVE  /\ k[1] \in Pids
         /\ written[k[1]] \in Nat
         /\ s.procs[k].io # None =>
              /\ s.procs[k].io.bytes \in 0 .. size.bytes
              /\ s.procs[k].io.bytes \in Nat
              /\ s.procs[k].io.odometer \in Nat
<1>1. k \in Keys /\ s.procs[k].io \in Reading \cup {None}
  BY DEF IsSample
<1>2. k[1] \in Pids
  BY <1>1 DEF Keys
<1>. QED  BY <1>1, <1>2, Bounds DEF KernelTypeOK, Reading

LEMMA KernelStepMeters ==
  ASSUME CInv, KernelStep, NEW s, IsSample(s), Metered(s)
  PROVE  Metered(s)'
<1>. SUFFICES ASSUME NEW k \in DOMAIN s.procs, s.procs[k].io # None
              PROVE  LET r == s.procs[k].io IN
                     /\ r.odometer <= written'[k[1]]
                     /\ k[1] \in Alive' =>
                          table'[k[1]].bytes <= r.bytes + (written'[k[1]] - r.odometer)
  BY DEF Metered
<1>. DEFINE q == k[1]  r == s.procs[k].io
<1>1. /\ q \in Pids /\ written[q] \in Nat /\ r.bytes \in Nat /\ r.odometer \in Nat
      /\ r.odometer <= written[q]
      /\ q \in Alive => table[q].bytes <= r.bytes + (written[q] - r.odometer)
  BY ReadingType DEF CInv, TypeOK, Metered
<1>2. /\ written'[q] \in Nat /\ written[q] <= written'[q]
      /\ q \in Alive' =>
           \/ table'[q].bytes = 0
           \/ /\ q \in Alive /\ table[q].bytes \in Nat /\ table'[q].bytes \in Nat
              /\ table'[q].bytes + written[q] = table[q].bytes + written'[q]
  BY <1>1, KernelMeters DEF CInv, TypeOK, KernelStep
<1>. HIDE DEF q, r
<1>. QED  BY <1>1, <1>2 DEF q, r

LEMMA StillMetered ==
  ASSUME CInv, UNCHANGED kernelVars, NEW s, Metered(s)
  PROVE  Metered(s)'
<1>1. table' = table /\ written' = written /\ Alive' = Alive
  BY TableStill DEF kernelVars
<1>. QED  BY <1>1 DEF Metered

(* A reading just taken is exact, so it follows every earlier one. *)
LEMMA ReadIoMeters ==
  ASSUME CInv, ReadIo, Metered(cur)
  PROVE  /\ Metered(cur)'
         /\ \A s : IsSample(s) /\ Metered(s) /\ Follows(s, cur) => Follows(s, cur')
<1>. DEFINE pid == Head(pids)  key == Key(stat)  r == IoReading(pid)
<1>1. /\ KernelTypeOK /\ IsSample(cur)
      /\ pid \in Pids /\ key[1] = pid
      /\ table' = table /\ written' = written /\ Alive' = Alive
  BY PidPassed, TableStill DEF ReadIo, CInv, TypeOK, Current, Key, kernelVars
<1>2. /\ DOMAIN cur'.procs = DOMAIN cur.procs \cup {key}
      /\ cur'.procs[key].io = r
      /\ \A k \in DOMAIN cur.procs : k # key => cur'.procs[k] = cur.procs[k]
  BY <1>1 DEF ReadIo, Insert, IsSample
<1>3. r # None => pid \in Alive /\ r.bytes = table[pid].bytes /\ r.odometer = written[pid]
  BY <1>1, IoReadingType
<1>4. /\ written[pid] \in Nat
      /\ pid \in Alive => table[pid].bytes \in Nat
  BY <1>1, LivingProcess, Bounds DEF KernelTypeOK
<1>. HIDE DEF pid, key, r
<1>5. Metered(cur)'
  <2>. SUFFICES ASSUME NEW k \in DOMAIN cur'.procs, cur'.procs[k].io # None
                PROVE  LET x == cur'.procs[k].io IN
                       /\ x.odometer <= written[k[1]]
                       /\ k[1] \in Alive =>
                            table[k[1]].bytes <= x.bytes + (written[k[1]] - x.odometer)
    BY <1>1 DEF Metered
  <2>1. CASE k = key
    BY <1>1, <1>2, <1>3, <1>4, <2>1
  <2>2. CASE k # key
    BY <1>2, <2>2 DEF Metered
  <2>. QED  BY <2>1, <2>2
<1>6. ASSUME NEW s, IsSample(s), Metered(s), Follows(s, cur)
      PROVE  Follows(s, cur')
  <2>. SUFFICES ASSUME NEW k \in DOMAIN s.procs \cap DOMAIN cur'.procs,
                       s.procs[k].io # None, cur'.procs[k].io # None
                PROVE  LET earlier == s.procs[k].io
                           later   == cur'.procs[k].io
                       IN /\ earlier.odometer <= later.odometer
                          /\ later.bytes <= earlier.bytes + (later.odometer - earlier.odometer)
    BY DEF Follows
  <2>1. CASE k = key
    BY <1>1, <1>2, <1>3, <1>6, <2>1 DEF Metered
  <2>2. CASE k # key
    BY <1>2, <1>6, <2>2 DEF Follows
  <2>. QED  BY <2>1, <2>2
<1>. QED  BY <1>5, <1>6

(* Every step of a scan. *)
LEMMA ScanMeters ==
  ASSUME CInv, BeginScan \/ ReadFile, Metered(cur)
  PROVE  /\ Metered(cur)'
         /\ \A s : IsSample(s) /\ Metered(s) /\ Follows(s, cur) => Follows(s, cur')
<1>1. CASE DOMAIN cur'.procs = {}
  BY <1>1 DEF Metered, Follows
<1>2. CASE cur'.procs = cur.procs /\ UNCHANGED kernelVars
  <2>1. Metered(cur)'
    BY <1>2, StillMetered DEF Metered
  <2>. QED  BY <1>2, <2>1 DEF Follows
<1>3. CASE BeginScan
  <2>1. DOMAIN cur'.procs = {}
    BY <1>3 DEF BeginScan, EmptySample
  <2>. QED  BY <1>1, <2>1
<1>4. CASE StatGone
  <2>1. cur'.procs = cur.procs /\ UNCHANGED kernelVars
    BY <1>4 DEF StatGone, CInv, TypeOK, IsSample
  <2>. QED  BY <1>2, <2>1
<1>5. CASE \/ SystemReadFails \/ ListPid \/ SkipEntry \/ EndList
           \/ StatMalformed \/ StatUnreadable \/ StatRead
  <2>1. cur' = cur /\ UNCHANGED kernelVars
    BY <1>5 DEF SystemReadFails, ListPid, SkipEntry, EndList, StatMalformed, StatUnreadable, StatRead
  <2>. QED  BY <1>2, <2>1
<1>6. CASE ReadIo
  BY <1>6, ReadIoMeters
<1>. QED  BY <1>3, <1>4, <1>5, <1>6 DEF ReadFile

-----------------------------------------------------------------------------
(* Steps that return no sample leave the engine and the snapshot alone. *)
Kept == UNCHANGED <<sample, before, snapshot, states, tick, then, last, since>>

LEMMA ScanKeepsSample ==
  ASSUME CInv, BeginScan \/ ReadFile \/ KernelStep \/ UNCHANGED vars
  PROVE  /\ sample' = sample /\ size' = size
         /\ Numbered => Numbered' /\ scans \in Nat /\ scans' \in Nat /\ scans <= scans'
<1>1. CASE BeginScan
  <2>1. sample' = sample /\ size' = size /\ scans' = scans + 1 /\ cur'.scan = scans'
    BY <1>1 DEF BeginScan, EmptySample, kernelVars
  <2>2. scans \in Nat
    BY Bounds DEF CInv, TypeOK
  <2>3. sample # None => sample.scan \in Nat
    BY Bounds DEF CInv, TypeOK, IsSample
  <2>. QED  BY <2>1, <2>2, <2>3 DEF Numbered
<1>2. CASE ReadFile
  <2>1. sample' = sample /\ size' = size /\ scans' = scans /\ cur'.scan = cur.scan
    BY <1>2 DEF ReadFile, SystemReadFails, ListPid, SkipEntry, EndList, StatGone, StatMalformed,
                StatUnreadable, StatRead, ReadIo, kernelVars, CInv, TypeOK, IsSample
  <2>2. pc # "idle"
    BY <1>2 DEF ReadFile, SystemReadFails, ListPid, SkipEntry, EndList, StatGone, StatMalformed,
                StatReadable, StatUnreadable, StatRead, ReadIo
  <2>3. scans \in Nat
    BY Bounds DEF CInv, TypeOK
  <2>. QED  BY <2>1, <2>2, <2>3 DEF Numbered
<1>3. CASE KernelStep
  <2>1. UNCHANGED scanVars /\ size' = size
    BY <1>3, KernelNextKeeps DEF KernelStep, TableKept, CInv, TypeOK
  <2>2. scans \in Nat
    BY Bounds DEF CInv, TypeOK
  <2>. QED  BY <2>1, <2>2 DEF Numbered, scanVars
<1>4. CASE UNCHANGED vars
  <2>1. scans \in Nat
    BY Bounds DEF CInv, TypeOK
  <2>. QED  BY <1>4, <2>1 DEF Numbered, vars, scanVars, kernelVars
<1>. QED  BY <1>1, <1>2, <1>3, <1>4

LEMMA NoSampleKeeps ==
  ASSUME MInv, BeginScan \/ ReadFile \/ KernelStep \/ UNCHANGED vars,
         Kept, events' = events \/ events' = {}
  PROVE  MInv'
<1>. USE DEF Kept
<1>1. CInv /\ CInv'
  BY NextKeepsCInv DEF MInv, Next
<1>2. /\ Numbered' /\ sample' = sample /\ size' = size
      /\ scans \in Nat /\ scans' \in Nat /\ scans <= scans'
  BY <1>1, ScanKeepsSample DEF MInv
<1>3. Baselined' /\ Witnessed(sample, last)' /\ Witnessed(before, then)' /\ Compared'
  BY DEF MInv, Baselined, Witnessed, Compared, Follows
<1>4. before' = None \/ IsSample(before)'
  BY <1>2, SampleKept DEF MInv
<1>5. \A k \in DOMAIN since' : since'[k] \in 1 .. scans'
  BY <1>2 DEF MInv
<1>6. Metered(cur)' /\ (sample # None => Metered(sample)' /\ Follows(sample, cur)')
  <2>1. CASE BeginScan \/ ReadFile
    <3>1. /\ Metered(cur)'
          /\ \A s : IsSample(s) /\ Metered(s) /\ Follows(s, cur) => Follows(s, cur')
      BY <1>1, <2>1, ScanMeters DEF MInv
    <3>2. UNCHANGED kernelVars
      BY <2>1 DEF BeginScan, ReadFile, SystemReadFails, ListPid, SkipEntry, EndList, StatGone,
                  StatMalformed, StatUnreadable, StatRead, ReadIo
    <3>3. sample # None => IsSample(sample) /\ Metered(sample) /\ Follows(sample, cur)
      BY <1>1 DEF MInv, CInv, TypeOK
    <3>4. \A s : Metered(s) => Metered(s)'
      BY <1>1, <3>2, StillMetered
    <3>5. Metered(sample) => Metered(sample)'
      BY <1>2, <3>4 DEF Metered
    <3>6. sample # None => Follows(sample, cur')
      BY <3>1, <3>3
    <3>. QED  BY <1>2, <3>1, <3>3, <3>5, <3>6 DEF Follows
  <2>2. CASE KernelStep
    <3>1. cur' = cur
      BY <2>2 DEF KernelStep, scanVars
    <3>2. IsSample(cur) /\ (sample # None => IsSample(sample))
      BY <1>1 DEF CInv, TypeOK
    <3>3. \A s : IsSample(s) /\ Metered(s) => Metered(s)'
      BY <1>1, <2>2, KernelStepMeters
    <3>4. /\ Metered(cur) => Metered(cur)'
          /\ sample # None /\ Metered(sample) => Metered(sample)'
      BY <1>2, <3>1, <3>2, <3>3 DEF Metered
    <3>. QED  BY <1>2, <3>1, <3>4 DEF MInv, Follows
  <2>3. CASE UNCHANGED vars
    <3>1. cur' = cur /\ UNCHANGED kernelVars
      BY <2>3 DEF vars, scanVars
    <3>2. \A s : Metered(s) => Metered(s)'
      BY <1>1, <3>1, StillMetered
    <3>3. (Metered(cur) => Metered(cur)') /\ (Metered(sample) => Metered(sample)')
      BY <1>2, <3>1, <3>2 DEF Metered
    <3>. QED  BY <1>2, <3>1, <3>3 DEF MInv, Follows
  <2>. QED  BY <2>1, <2>2, <2>3
<1>7. Facts!TypeOK' /\ Facts!LiveSubjects'
  BY DEF MInv, Facts!TypeOK, Facts!LiveSubjects
<1>8. Earned' /\ AlertsAreEarned' /\ DeadAlertsAreReaped' /\ NewProcessesAreIgnored'
  BY DEF MInv, Earned, AlertsAreEarned, RuleOf, DeadAlertsAreReaped, NewProcessesAreIgnored
<1>. QED  BY <1>1, <1>2, <1>3, <1>4, <1>5, <1>6, <1>7, <1>8 DEF MInv

-----------------------------------------------------------------------------
(* A sample is returned: diff and the engine. *)
LEMMA RateMeans ==
  ASSUME KernelTypeOK, NEW prev, IsSample(prev), NEW now, IsSample(now),
         Follows(prev, now), NEW k \in DOMAIN now.procs
  PROVE  LET rate == ProcRate(prev, now, k) IN
         /\ rate.is_new = (k \notin DOMAIN prev.procs)
         /\ rate.write_bps \in (0 .. size.bytes) \cup {None}
         /\ rate.write_bps \notin {None, 0} =>
              /\ WroteBetween(prev, now, k)
              /\ rate.write_bps <= now.procs[k].io.odometer - prev.procs[k].io.odometer
<1>. DEFINE seen    == Previous(prev, k)
            later   == now.procs[k].io
            earlier == IF seen = {} THEN None ELSE prev.procs[CHOOSE j \in seen : TRUE].io
            rate    == ProcRate(prev, now, k)
<1>1. /\ seen = IF k \in DOMAIN prev.procs THEN {k} ELSE {}
      /\ earlier = IF k \in DOMAIN prev.procs THEN prev.procs[k].io ELSE None
  BY DEF Previous
<1>2. rate.is_new = (seen = {}) /\ rate.write_bps = IoRate(later, earlier)
  BY DEF ProcRate
<1>3. size.bytes \in Nat
  BY Bounds
<1>4. later # None => later.bytes \in 0 .. size.bytes /\ later.odometer \in Nat
  BY ReadingType
<1>5. earlier # None =>
        /\ k \in DOMAIN prev.procs /\ earlier = prev.procs[k].io
        /\ earlier.bytes \in 0 .. size.bytes /\ earlier.odometer \in Nat
  BY <1>1, ReadingType
<1>6. later # None /\ earlier # None =>
        /\ earlier.odometer <= later.odometer
        /\ later.bytes <= earlier.bytes + (later.odometer - earlier.odometer)
  BY <1>1 DEF Follows
<1>. HIDE DEF seen, later, earlier, rate
<1>7. rate.is_new = (k \notin DOMAIN prev.procs)
  BY <1>1, <1>2
<1>8. rate.write_bps \in (0 .. size.bytes) \cup {None}
  BY <1>2, <1>3, <1>4, <1>5 DEF IoRate, SaturatingSub
<1>9. ASSUME rate.write_bps \notin {None, 0}
      PROVE  /\ later # None /\ earlier # None
             /\ earlier.odometer < later.odometer
             /\ rate.write_bps <= later.odometer - earlier.odometer
  BY <1>2, <1>3, <1>4, <1>5, <1>6, <1>9 DEF IoRate, SaturatingSub
<1>. QED  BY <1>5, <1>7, <1>8, <1>9 DEF WroteBetween, later, rate

LEMMA WitnessOf ==
  ASSUME CInv, Return
  PROVE  Witnessed(cur, Witness)
<1>1. \A k \in stayed : table[k[1]].stat = "good" => k \in DOMAIN cur.procs
  BY CInvImplies DEF Return, NothingMissed
<1>2. \A k \in DOMAIN cur.procs : k \in met /\ k[2] <= births
  BY DEF CInv, NothingInvented, Met
<1>. QED  BY <1>1, <1>2 DEF Witnessed, Witness

(* A sample follows itself. *)
LEMMA FollowsItself ==
  ASSUME KernelTypeOK, NEW s, IsSample(s)
  PROVE  Follows(s, s)
BY ReadingType DEF Follows

(* What both kinds of return do to the samples. *)
LEMMA ReturnSample ==
  ASSUME MInv, Return
  PROVE  /\ CInv' /\ Numbered'
         /\ sample' = cur /\ IsSample(cur) /\ size' = size /\ scans' = scans
         /\ scans \in Nat /\ scans >= 1 /\ cur.scan = scans
         /\ DOMAIN cur.procs \subseteq (1 .. MostPids) \X (1 .. MostBirths)
         /\ Metered(cur)' /\ Metered(sample)' /\ Follows(sample, cur)'
<1>1. CInv' /\ CInv
  BY NextKeepsCInv DEF MInv, Next
<1>2. cur' = cur /\ sample' = cur /\ scans' = scans /\ pc # "idle" /\ UNCHANGED kernelVars
  BY DEF Return
<1>3. KernelTypeOK /\ IsSample(cur) /\ scans \in Nat
  BY <1>1, Bounds DEF CInv, TypeOK
<1>4. Numbered' /\ cur.scan = scans /\ scans >= 1
  BY <1>2, <1>3 DEF MInv, Numbered
<1>5. DOMAIN cur.procs \subseteq (1 .. MostPids) \X (1 .. MostBirths)
  <2>1. DOMAIN cur.procs \subseteq (1 .. size.pids) \X (1 .. size.births)
    BY <1>3 DEF IsSample, Keys, Pids
  <2>. QED  BY <1>3, <2>1, Bounds
<1>6. Metered(cur)' /\ Metered(sample)'
  <2>1. \A s : Metered(s) => Metered(s)'
    BY <1>1, <1>2, StillMetered
  <2>2. Metered(cur)
    BY DEF MInv
  <2>. QED  BY <1>2, <2>1, <2>2 DEF Metered
<1>7. Follows(sample, cur)'
  BY <1>2, <1>3, FollowsItself DEF Follows
<1>. QED  BY <1>1, <1>2, <1>3, <1>4, <1>5, <1>6, <1>7 DEF kernelVars

LEMMA BaselineKeeps ==
  ASSUME MInv, Baseline
  PROVE  MInv'
<1>. USE DEF Baseline
<1>1. /\ CInv /\ sample = None /\ before = None /\ DOMAIN states = {} /\ snapshot = None
      /\ before' = None /\ snapshot' = None /\ states' = states
      /\ DOMAIN since' = DOMAIN since
  BY DEF MInv, Baselined
<1>2. /\ Baselined' /\ Compared' /\ Earned'
      /\ AlertsAreEarned' /\ DeadAlertsAreReaped' /\ NewProcessesAreIgnored'
  BY <1>1 DEF Baselined, Compared, Earned, AlertsAreEarned, DeadAlertsAreReaped,
              NewProcessesAreIgnored
<1>3. Witnessed(sample, last)' /\ Witnessed(before, then)'
  BY <1>1, WitnessOf, ReturnSample DEF Witnessed
<1>4. \A k \in DOMAIN since' : since'[k] \in 1 .. scans'
  BY ReturnSample DEF MInv
<1>5. Facts!TypeOK' /\ Facts!LiveSubjects'
  BY <1>1, ReturnSample DEF MInv, Facts!TypeOK, Facts!LiveSubjects
<1>. QED  BY <1>1, <1>2, <1>3, <1>4, <1>5, ReturnSample DEF MInv

LEMMA EngineAssumptions ==
  /\ Facts!RulesAssumption /\ Facts!DomainAssumption
  /\ Facts!SubjectIds = [rule : DOMAIN Rules,
                         proc_key : (1 .. MostPids) \X (1 .. MostBirths) \cup {System}]
  /\ Engine!Phases = Facts!Phases
BY KernelAssumption, MonitorAssumption
   DEF Facts!RulesAssumption, Facts!DomainAssumption, Facts!SubjectIds, Facts!Phases,
       Facts!UsableRule, Facts!Rule, Facts!Sane, Facts!WellScoped,
       Facts!SystemMetrics, Facts!ProcessMetrics, Facts!AnyComm,
       Engine!UsableRule, Engine!Rule, Engine!Sane, Engine!WellScoped,
       Engine!SystemMetrics, Engine!ProcessMetrics, Engine!AnyComm, Engine!Phases

(* The engine of the monitor is the one of the engine's proofs. *)
LEMMA SameEngine ==
  ASSUME NEW s, NEW t, Engine!Evaluate(s, t)
  PROVE  Facts!Evaluate(s, t)
<1>1. /\ \A id : Engine!Observed(id, s) = Facts!Observed(id, s)
      /\ \A id : Engine!Breaching(id, s) = Facts!Breaching(id, s)
      /\ \A id : Engine!StillActive(id, s) = Facts!StillActive(id, s)
      /\ \A id, phase : Engine!InPhase(id, phase) = Facts!InPhase(id, phase)
      /\ \A id : Engine!Held(id, t) = Facts!Held(id, t)
      /\ \A from : Engine!Elapsed(from, t) = Facts!Elapsed(from, t)
      /\ \A kind, id, held : Engine!Event(kind, id, held) = Facts!Event(kind, id, held)
      /\ Engine!SubjectIds = Facts!SubjectIds
      /\ \A x : Engine!Unseen(x) = Facts!Unseen(x)
  BY DEF Engine!Event, Engine!SubjectIds, Engine!Observed, Engine!Matches, Engine!AnyComm,
         Engine!Breaching, Engine!StillActive, Engine!Reading,
         Engine!Beyond, Engine!InPhase, Engine!Held, Engine!Elapsed, Engine!Unseen,
         Facts!Event, Facts!SubjectIds, Facts!Observed, Facts!Matches, Facts!AnyComm,
         Facts!Breaching, Facts!StillActive, Facts!Reading,
         Facts!Beyond, Facts!InPhase, Facts!Held, Facts!Elapsed, Facts!Unseen
<1>2. /\ \A id : Engine!Opens(id, s) = Facts!Opens(id, s)
      /\ \A id : Engine!FiresAtOnce(id, s) = Facts!FiresAtOnce(id, s)
      /\ \A id : Engine!FiresHeld(id, s, t) = Facts!FiresHeld(id, s, t)
      /\ \A id : Engine!Drops(id, s) = Facts!Drops(id, s)
      /\ \A id : Engine!Clears(id, s) = Facts!Clears(id, s)
  BY <1>1 DEF Engine!Opens, Engine!FiresAtOnce, Engine!FiresHeld, Engine!Drops, Engine!Clears,
              Facts!Opens, Facts!FiresAtOnce, Facts!FiresHeld, Facts!Drops, Facts!Clears
<1>3. \A id : Engine!StateAfter(id, s, t) = Facts!StateAfter(id, s, t)
  BY <1>2 DEF Engine!StateAfter, Facts!StateAfter, Engine!Fires, Facts!Fires
<1>4. Engine!Stepped(s, t) = Facts!Stepped(s, t)
  BY <1>1, <1>2, <1>3 DEF Engine!Stepped, Facts!Stepped
<1>5. Engine!EventsOf(s, t) = Facts!EventsOf(s, t)
  BY <1>1, <1>2, <1>4 DEF Engine!EventsOf, Facts!EventsOf
<1>6. LET stepped == Facts!Stepped(s, t)
      IN  Engine!Restrict(stepped, DOMAIN stepped \ Facts!Unseen(stepped))
            = Facts!Restrict(stepped, DOMAIN stepped \ Facts!Unseen(stepped))
  BY DEF Engine!Restrict, Facts!Restrict
<1>. QED  BY <1>1, <1>4, <1>5, <1>6 DEF Engine!Evaluate, Facts!Evaluate

(* The snapshot that diff makes and the engine evaluates. *)
Rates    == ProcRates(sample, cur)
Observed == Observation(Rates)

LEMMA EngineStep ==
  ASSUME MInv, DiffAndEvaluate
  PROVE  /\ Facts!IInv /\ Facts!Evaluate(Observed, scans)
         /\ scans \in Nat
         /\ DOMAIN Observed.procs = DOMAIN cur.procs
         /\ DOMAIN Observed.procs \subseteq (1 .. MostPids) \X (1 .. MostBirths)
<1>1. Engine!Evaluate(Observed, scans) /\ scans \in Nat
  BY ReturnSample DEF DiffAndEvaluate, Observed, Rates
<1>2. DOMAIN Observed.procs = DOMAIN cur.procs
  BY DEF Observed, Observation, Rates, ProcRates
<1>. QED  BY <1>1, <1>2, SameEngine, ReturnSample DEF MInv, Facts!IInv, DiffAndEvaluate

LEMMA EngineKeeps ==
  ASSUME MInv, DiffAndEvaluate
  PROVE  Facts!TypeOK' /\ Facts!LiveSubjects'
BY EngineStep, EngineAssumptions, Facts!EvaluateType, Facts!EvaluateLive

(* What the engine holds, and what it fires, it has observed. *)
LEMMA EngineObserves ==
  ASSUME MInv, DiffAndEvaluate
  PROVE  /\ \A id \in DOMAIN states' :
              /\ id \in Facts!SubjectIds /\ Facts!Observed(id, Observed)
              /\ \/ Facts!Opens(id, Observed) \/ Facts!FiresAtOnce(id, Observed)
                 \/ Facts!Kept(id, Observed)
              /\ states'[id] = Facts!StateAfter(id, Observed, scans)
         /\ \A e \in events' : e.kind = "Fired" =>
              /\ e.subject \in Facts!SubjectIds /\ Facts!Observed(e.subject, Observed)
              /\ Facts!Fires(e.subject, Observed, scans)
<1>1. /\ Facts!TypeOK /\ Facts!LiveSubjects /\ Facts!Evaluate(Observed, scans)
      /\ scans \in Nat
  BY EngineStep DEF Facts!IInv
<1>2. \A id \in DOMAIN states' :
        /\ id \in Facts!SubjectIds /\ Facts!Observed(id, Observed)
        /\ \/ Facts!Opens(id, Observed) \/ Facts!FiresAtOnce(id, Observed)
           \/ Facts!Kept(id, Observed)
        /\ states'[id] = Facts!StateAfter(id, Observed, scans)
  BY <1>1, EngineAssumptions, Facts!NextMap
<1>3. \A e \in events' : e.kind = "Fired" =>
        /\ e.subject \in Facts!SubjectIds /\ Facts!Observed(e.subject, Observed)
        /\ Facts!Fires(e.subject, Observed, scans)
  BY <1>1, EngineAssumptions, Facts!FiredEvents
<1>. QED  BY <1>2, <1>3

LEMMA RateFields ==
  ASSUME NEW prev, NEW now, NEW k
  PROVE  ProcRate(prev, now, k).is_new = (Previous(prev, k) = {})
BY DEF ProcRate

(* A subject the engine observes is a process of the snapshot with a rate; *)
(* one over a threshold that is not negative has written something.        *)
LEMMA ObservedHasRate ==
  ASSUME MInv, DiffAndEvaluate, NEW id, Facts!Observed(id, Observed)
  PROVE  /\ id.proc_key \in DOMAIN cur.procs /\ id.proc_key \in DOMAIN sample.procs
         /\ Facts!Reading(id, Observed) = ProcRate(sample, cur, id.proc_key).write_bps
         /\ Facts!Reading(id, Observed) # None
<1>. DEFINE k == id.proc_key  rule == Rules[id.rule]
<1>1. Observed.system = <<>> /\ DOMAIN Observed.system = {}
  BY DEF Observed, Observation
<1>2. /\ rule.target = "process" /\ k \in DOMAIN Observed.procs
      /\ rule.metric \in DOMAIN Observed.procs[k].readings
  BY <1>1 DEF Facts!Observed
<1>3. /\ k \in DOMAIN cur.procs /\ Rates[k] = ProcRate(sample, cur, k)
      /\ Observed.procs[k].readings =
           IF Rates[k].write_bps = None THEN <<>>
           ELSE [metric \in {"write_bps"} |-> Rates[k].write_bps]
  BY <1>2 DEF Observed, Observation, Rates, ProcRates
<1>4. Rates[k].write_bps # None /\ rule.metric = "write_bps"
  <2>1. DOMAIN <<>> = {}
    OBVIOUS
  <2>. QED  BY <1>2, <1>3, <2>1
<1>5. Facts!Reading(id, Observed) = Rates[k].write_bps
  BY <1>2, <1>3, <1>4 DEF Facts!Reading
<1>6. k \in DOMAIN sample.procs
  <2>1. ~ Observed.procs[k].is_new
    BY <1>2 DEF Facts!Observed
  <2>2. Observed.procs[k].is_new = Rates[k].is_new
    BY <1>2 DEF Observed, Observation, Rates, ProcRates
  <2>3. Rates[k].is_new = (Previous(sample, k) = {})
    BY <1>3, RateFields
  <2>. QED  BY <2>1, <2>2, <2>3 DEF Previous
<1>. QED  BY <1>3, <1>4, <1>5, <1>6

LEMMA BreachingWrites ==
  ASSUME MInv, DiffAndEvaluate, NEW id \in Facts!SubjectIds,
         Facts!Observed(id, Observed), Facts!Breaching(id, Observed),
         Rules[id.rule].op = ">", Rules[id.rule].threshold >= 0
  PROVE  LET k == id.proc_key IN
         /\ k \in DOMAIN since' /\ since'[k] \in Nat /\ since'[k] <= scans
         /\ k \in DOMAIN since => since'[k] = since[k]
<1>. DEFINE k == id.proc_key  rate == Facts!Reading(id, Observed)
<1>1. /\ KernelTypeOK /\ sample # None /\ IsSample(sample) /\ IsSample(cur)
      /\ Follows(sample, cur) /\ scans \in Nat /\ cur.scan = scans
  BY ReturnSample DEF MInv, CInv, TypeOK, DiffAndEvaluate
<1>2. k \in DOMAIN cur.procs /\ rate = ProcRate(sample, cur, k).write_bps /\ rate # None
  BY ObservedHasRate
<1>3. rate > Rules[id.rule].threshold
  BY DEF Facts!Breaching, Facts!Beyond
<1>4. Rules[id.rule].threshold \in Int
  <2>1. id.rule \in DOMAIN Rules
    BY EngineAssumptions
  <2>2. Rules[id.rule] \in Engine!UsableRule
    BY <2>1, MonitorAssumption
  <2>. QED  BY <2>2 DEF Engine!UsableRule, Engine!Rule
<1>5. rate \in Nat
  BY <1>1, <1>2, RateMeans, Bounds
<1>6. rate # 0
  BY <1>3, <1>4, <1>5
<1>7. WroteBetween(sample, cur, k)
  BY <1>1, <1>2, <1>6, RateMeans
<1>8. since' = Since(sample, cur)
  BY DEF DiffAndEvaluate
<1>9. /\ k \in DOMAIN since'
      /\ since'[k] = IF k \in DOMAIN since THEN since[k] ELSE scans
  BY <1>1, <1>2, <1>7, <1>8 DEF Since
<1>10. k \in DOMAIN since => since[k] \in 1 .. scans
  BY DEF MInv
<1>. QED  BY <1>1, <1>9, <1>10

LEMMA EarnedStep ==
  ASSUME MInv, DiffAndEvaluate
  PROVE  Earned'
<1>. SUFFICES ASSUME NEW id \in DOMAIN states', states'[id].phase = "Pending",
                     Rules[id.rule].op = ">", Rules[id.rule].threshold >= 0
              PROVE  id.proc_key \in DOMAIN since' /\ since'[id.proc_key] <= states'[id].since
  BY DEF Earned
<1>1. /\ id \in Facts!SubjectIds /\ Facts!Observed(id, Observed)
      /\ \/ Facts!Opens(id, Observed) \/ Facts!FiresAtOnce(id, Observed)
         \/ Facts!Kept(id, Observed)
      /\ states'[id] = Facts!StateAfter(id, Observed, scans)
  BY EngineObserves
<1>2. CASE Facts!Opens(id, Observed)
  <2>1. Facts!Breaching(id, Observed) /\ states'[id].since = scans
    BY <1>1, <1>2 DEF Facts!Opens, Facts!StateAfter
  <2>. QED  BY <1>1, <2>1, BreachingWrites
<1>3. CASE ~ Facts!Opens(id, Observed)
  <2>1. ~ Facts!Fires(id, Observed, scans)
    BY <1>1, <1>3 DEF Facts!StateAfter
  <2>2. id \in DOMAIN states /\ ~ Facts!Drops(id, Observed)
    BY <1>1, <1>3, <2>1 DEF Facts!Fires, Facts!Kept
  <2>3. states[id] \in [phase : Facts!Phases, since : Nat, seen : Nat]
    BY <2>2 DEF MInv, Facts!TypeOK
  <2>4. states'[id].phase = states[id].phase /\ states'[id].since = states[id].since
    BY <1>1, <1>3, <2>1, <2>3 DEF Facts!StateAfter
  <2>5. Facts!Breaching(id, Observed)
    BY <2>2, <2>4 DEF Facts!Drops, Facts!InPhase
  <2>6. id.proc_key \in DOMAIN since /\ since[id.proc_key] <= states[id].since
    BY <2>2, <2>4 DEF MInv, Earned
  <2>. QED  BY <1>1, <2>4, <2>5, <2>6, BreachingWrites
<1>. QED  BY <1>2, <1>3

LEMMA AlertsStep ==
  ASSUME MInv, DiffAndEvaluate
  PROVE  AlertsAreEarned'
<1>1. sample' = cur /\ cur.scan = scans /\ scans \in Nat
  BY ReturnSample DEF DiffAndEvaluate
<1>. SUFFICES ASSUME NEW e \in events', e.kind = "Fired",
                     Rules[e.subject.rule].op = ">", Rules[e.subject.rule].threshold >= 0
              PROVE  /\ e.subject.proc_key \in DOMAIN since'
                     /\ scans - since'[e.subject.proc_key] >= Rules[e.subject.rule].sustain
  BY <1>1 DEF AlertsAreEarned, RuleOf
<1>. DEFINE id == e.subject  sustain == Rules[id.rule].sustain
<1>2. /\ id \in Facts!SubjectIds /\ Facts!Observed(id, Observed)
      /\ Facts!Fires(id, Observed, scans)
  BY EngineObserves
<1>3. Facts!Breaching(id, Observed)
  BY <1>2 DEF Facts!Fires, Facts!FiresAtOnce, Facts!FiresHeld
<1>4. /\ id.proc_key \in DOMAIN since'
      /\ since'[id.proc_key] \in Nat /\ since'[id.proc_key] <= scans
      /\ id.proc_key \in DOMAIN since => since'[id.proc_key] = since[id.proc_key]
  BY <1>2, <1>3, BreachingWrites
<1>5. CASE Facts!FiresAtOnce(id, Observed)
  <2>1. sustain = 0
    BY <1>5 DEF Facts!FiresAtOnce
  <2>. QED  BY <1>1, <1>4, <2>1
<1>6. CASE Facts!FiresHeld(id, Observed, scans)
  <2>1. /\ id \in DOMAIN states /\ states[id].phase = "Pending"
        /\ Facts!Elapsed(states[id].since, scans) >= sustain
    BY <1>6 DEF Facts!FiresHeld, Facts!InPhase, Facts!Held
  <2>2. id.proc_key \in DOMAIN since /\ since[id.proc_key] <= states[id].since
    BY <2>1 DEF MInv, Earned
  <2>3. states[id].since \in Nat
    BY <2>1 DEF MInv, Facts!TypeOK
  <2>4. sustain \in Nat
    <3>1. id.rule \in DOMAIN Rules
      BY <1>2, EngineAssumptions
    <3>2. Rules[id.rule] \in Engine!UsableRule
      BY <3>1, MonitorAssumption
    <3>. QED  BY <3>2 DEF Engine!UsableRule, Engine!Rule
  <2>. HIDE DEF id, sustain
  <2>5. scans - since'[id.proc_key] >= sustain
    BY <1>1, <1>4, <2>1, <2>2, <2>3, <2>4 DEF Facts!Elapsed
  <2>. QED  BY <1>4, <2>5 DEF id, sustain
<1>. QED  BY <1>2, <1>5, <1>6 DEF Facts!Fires

LEMMA EvaluateKeeps ==
  ASSUME MInv, DiffAndEvaluate
  PROVE  MInv'
<1>1. /\ Return /\ sample # None /\ before' = sample /\ snapshot' = ProcRates(sample, cur)
      /\ then' = last /\ last' = Witness /\ since' = Since(sample, cur)
  BY DEF DiffAndEvaluate
<1>2. /\ CInv' /\ Numbered' /\ sample' = cur /\ size' = size /\ scans' = scans
      /\ scans \in Nat /\ scans >= 1 /\ cur.scan = scans
      /\ Metered(cur)' /\ Metered(sample)' /\ Follows(sample, cur)'
  BY <1>1, ReturnSample
<1>3. sample' # None
  <2>1. (IF sample = None THEN 0 ELSE sample.scan)' = scans
    BY EngineStep DEF Facts!Evaluate
  <2>. QED  BY <1>2, <2>1
<1>4. Baselined' /\ (before = None \/ IsSample(before))'
  BY <1>1, <1>2, <1>3, SampleKept DEF Baselined, MInv, CInv, TypeOK
<1>5. \A k \in DOMAIN since' : since'[k] \in 1 .. scans'
  <2>1. \A k \in DOMAIN since : since[k] \in 1 .. scans
    BY DEF MInv
  <2>. QED  BY <1>1, <1>2, <2>1 DEF Since
<1>6. Witnessed(sample, last)' /\ Witnessed(before, then)'
  BY <1>1, <1>2, WitnessOf DEF MInv, Witnessed
<1>7. Compared'
  <2>1. snapshot' = ProcRates(before', sample') /\ Follows(before', sample')
    BY <1>1, <1>2 DEF MInv
  <2>. QED  BY <1>1, <1>3, <2>1
            DEF Compared, Follows, ProcRates, ProcRate, Previous, IoRate, SaturatingSub
<1>8. DeadAlertsAreReaped'
  <2>1. \A id \in DOMAIN states' : id.proc_key \in DOMAIN cur.procs
    BY EngineObserves, ObservedHasRate
  <2>2. DOMAIN cur.procs \subseteq last'.met
    BY <1>1 DEF Witness, MInv, CInv, NothingInvented
  <2>. QED  BY <2>1, <2>2 DEF DeadAlertsAreReaped
<1>9. NewProcessesAreIgnored'
  <2>1. \A id \in DOMAIN states' : id.proc_key \in DOMAIN sample.procs
    BY EngineObserves, ObservedHasRate
  <2>2. DOMAIN sample.procs \subseteq then'.met
    BY <1>1 DEF MInv, Witnessed
  <2>. QED  BY <2>1, <2>2 DEF NewProcessesAreIgnored
<1>. QED  BY <1>2, <1>4, <1>5, <1>6, <1>7, <1>8, <1>9, EngineKeeps, EarnedStep, AlertsStep DEF MInv

LEMMA MInitMInv == MInit => MInv
<1>. SUFFICES ASSUME MInit
              PROVE  MInv
  OBVIOUS
<1>1. /\ CInv /\ Init /\ sample = None /\ before = None /\ snapshot = None
      /\ DOMAIN states = {} /\ tick = 0 /\ events = {} /\ DOMAIN since = {}
  BY InitCInv DEF MInit, Init, Engine!Init
<1>2. Numbered /\ Metered(cur)
  BY <1>1 DEF Init, Numbered, Metered, EmptySample
<1>3. Baselined /\ Compared /\ Witnessed(sample, last) /\ Witnessed(before, then)
  BY <1>1 DEF Baselined, Compared, Witnessed
<1>4. Facts!TypeOK /\ Facts!LiveSubjects
  BY <1>1, KernelAssumption DEF Facts!TypeOK, Facts!LiveSubjects
<1>5. Earned /\ AlertsAreEarned /\ DeadAlertsAreReaped /\ NewProcessesAreIgnored
  BY <1>1 DEF Earned, AlertsAreEarned, DeadAlertsAreReaped, NewProcessesAreIgnored
<1>. QED  BY <1>1, <1>2, <1>3, <1>4, <1>5 DEF MInv

THEOREM MonitorInvariance == MSpec => []MInv
<1>1. MInv /\ [MNext]_mvars => MInv'
  <2>. SUFFICES ASSUME MInv, [MNext]_mvars
                PROVE  MInv'
    OBVIOUS
  <2>1. CASE Baseline
    BY <2>1, BaselineKeeps
  <2>2. CASE DiffAndEvaluate
    BY <2>2, EvaluateKeeps
  <2>3. CASE MReadFile
    <3>1. ReadFile /\ (events' = events \/ events' = {})
      BY <2>3 DEF MReadFile
    <3>2. Kept
      BY <2>3, <3>1, ScanKeepsSample DEF MReadFile, Kept, MInv
    <3>. QED  BY <3>1, <3>2, NoSampleKeeps
  <2>4. CASE Elsewhere
    <3>1. Kept
      BY <2>4, ScanKeepsSample DEF Elsewhere, Kept, MInv
    <3>. QED  BY <2>4, <3>1, NoSampleKeeps DEF Elsewhere
  <2>5. CASE UNCHANGED mvars
    <3>1. Kept /\ UNCHANGED vars /\ events' = events
      BY <2>5 DEF mvars, Kept, vars, scanVars
    <3>. QED  BY <3>1, NoSampleKeeps
  <2>. QED  BY <2>1, <2>2, <2>3, <2>4, <2>5 DEF MNext
<1>. QED  BY <1>1, MInitMInv, PTL DEF MSpec

LEMMA MInvImplies ==
  MInv => MTypeOK /\ NoPhantomTraffic /\ NewMeansStartedSince
<1>. SUFFICES ASSUME MInv
              PROVE  MTypeOK /\ NoPhantomTraffic /\ NewMeansStartedSince
  OBVIOUS
<1>1. ASSUME snapshot # None, NEW k \in DOMAIN snapshot
      PROVE  /\ k \in DOMAIN sample.procs /\ k \in Keys
             /\ snapshot[k].is_new = (k \notin DOMAIN before.procs)
             /\ snapshot[k].write_bps \in (0 .. size.bytes) \cup {None}
             /\ snapshot[k].write_bps \notin {None, 0} =>
                  /\ WroteBetween(before, sample, k)
                  /\ snapshot[k].write_bps <=
                       sample.procs[k].io.odometer - before.procs[k].io.odometer
  <2>1. /\ KernelTypeOK /\ IsSample(before) /\ IsSample(sample)
        /\ Follows(before, sample) /\ snapshot = ProcRates(before, sample)
    BY <1>1 DEF MInv, Compared, CInv, TypeOK
  <2>2. k \in DOMAIN sample.procs /\ snapshot[k] = ProcRate(before, sample, k)
    BY <1>1, <2>1 DEF ProcRates
  <2>3. k \in Keys
    BY <2>1, <2>2 DEF IsSample
  <2>. QED  BY <2>1, <2>2, <2>3, RateMeans
<1>2. MTypeOK
  <2>1. \A id \in DOMAIN states : states[id].phase \in Engine!Phases
    BY EngineAssumptions DEF MInv, Facts!TypeOK
  <2>2. snapshot # None =>
          /\ DOMAIN snapshot \subseteq Keys
          /\ \A k \in DOMAIN snapshot :
               /\ snapshot[k].is_new \in BOOLEAN
               /\ snapshot[k].write_bps \in (0 .. size.bytes) \cup {None}
    BY <1>1
  <2>. QED  BY <2>1, <2>2 DEF MTypeOK, MInv, CInv
<1>3. NoPhantomTraffic
  BY <1>1 DEF NoPhantomTraffic
<1>4. NewMeansStartedSince
  <2>. SUFFICES ASSUME snapshot # None, NEW k \in DOMAIN snapshot
                PROVE  IF snapshot[k].is_new THEN k \notin then.lasted ELSE k[2] <= then.born
    BY DEF NewMeansStartedSince
  <2>1. snapshot[k].is_new = (k \notin DOMAIN before.procs)
    BY <1>1
  <2>2. /\ then.lasted \subseteq DOMAIN before.procs
        /\ \A j \in DOMAIN before.procs : j[2] <= then.born
    BY DEF MInv, Compared, Witnessed
  <2>. QED  BY <2>1, <2>2
<1>. QED  BY <1>2, <1>3, <1>4

-----------------------------------------------------------------------------
(* The collector of the monitor is the collector. *)
THEOREM MonitorCollects == MSpec => Spec
<1>1. MInit => Init
  BY DEF MInit
<1>2. [MNext]_mvars => [Next]_vars
  BY DEF MNext, Baseline, DiffAndEvaluate, MReadFile, Elsewhere, Next, mvars
<1>. QED  BY <1>1, <1>2, PTL DEF MSpec, Spec

(* Samples, snapshots, engine states and timers are what their types say,  *)
(* whatever the bounds, names and rules.                                   *)
THEOREM MonitorTypes == MSpec => []MTypeOK
BY MonitorInvariance, MInvImplies, PTL

(* A write rate never exceeds what was written under the pid between the   *)
(* two io readings, however often the pid changed hands in between: a      *)
(* smaller counter saturates, a larger one was written since.              *)
THEOREM RatesAreTraffic == MSpec => []NoPhantomTraffic
BY MonitorInvariance, MInvImplies, PTL

(* is_new is decided by the key alone, and that decides it rightly: what   *)
(* was in the earlier sample had started before it, and what lived through *)
(* the earlier scan, listed by readdir, is in its sample.                  *)
THEOREM NewIsNew == MSpec => []NewMeansStartedSince
BY MonitorInvariance, MInvImplies, PTL

LEMMA MInvAlerts == MInv => AlertsAreEarned /\ DeadAlertsAreReaped /\ NewProcessesAreIgnored
BY DEF MInv

(* An alert on a high write rate has been written for, all through its     *)
(* sustain, for any rules and any processes.                               *)
THEOREM FiredAlertsAreEarned == MSpec => []AlertsAreEarned
BY MonitorInvariance, MInvAlerts, PTL

(* Nothing the engine holds is of a process that had died before the last  *)
(* successful scan began.                                                  *)
THEOREM TheDeadAreReaped == MSpec => []DeadAlertsAreReaped
BY MonitorInvariance, MInvAlerts, PTL

(* Nothing the engine holds is of a process that only the last scan saw.   *)
THEOREM TheNewAreIgnored == MSpec => []NewProcessesAreIgnored
BY MonitorInvariance, MInvAlerts, PTL
=============================================================================
