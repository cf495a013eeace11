------------------------------- MODULE Kernel -------------------------------
(***************************************************************************)
(* The part of Linux that vitals reads of its processes: the table behind  *)
(* /proc.  External to the repository; modelled from the ways              *)
(* src/sample.rs reads it and the failures it provides for.  Processes     *)
(* start, write, change who may read their io file (an exec can), exit,    *)
(* and leave their pid to be used again.                                   *)
(***************************************************************************)
EXTENDS ProcFiles, FiniteSets

CONSTANTS
  Sizes,  \* bounds: what one behaviour may have of each kind, chosen at its start
  Names   \* Names[n]: the name of the n-th process started, spelled in tokens

StatKinds == {"good", "malformed", "unreadable"}

MostPids   == Max({s.pids : s \in Sizes})
MostBirths == Max({s.births : s \in Sizes})
MostScans  == Max({s.scans : s \in Sizes})

ASSUME KernelAssumption ==
  /\ Names \in Seq(Seq(Token))
  /\ \A s \in Sizes : s.pids <= MostPids /\ s.births <= MostBirths  \* there are such
  /\ MostPids \in Nat /\ MostBirths \in Nat /\ MostScans \in Nat
  /\ \A s \in Sizes :
       /\ s.pids \in Nat /\ s.pids <= s.births  \* pids in use: 1 .. pids
       /\ s.births \in Nat                      \* processes ever started
       /\ s.births <= Len(Names)
       /\ s.bytes \in Nat                       \* bytes a process writes
       /\ s.scans \in Nat                       \* scans begun
       /\ s.stats \subseteq StatKinds           \* what a stat file may be like
       /\ s.access \subseteq BOOLEAN            \* whether an io file may be read

VARIABLES
  size,    \* the bounds of this behaviour
  table,   \* pid -> the process that has it, or Nobody
  births,  \* processes started so far; the last one's start time
  written  \* pid -> bytes written under it, by all its processes

kernelVars == <<size, table, births, written>>

Pids    == 1 .. size.pids
Process == [start : 1 .. size.births, bytes : 0 .. size.bytes, readable : size.access,
            stat : size.stats]
Nobody  == [start |-> 0]

KernelTypeOK ==
  /\ size \in Sizes
  /\ table \in [Pids -> Process \cup {Nobody}]
  /\ births \in 0 .. size.births
  /\ written \in [Pids -> Nat]

Alive       == {pid \in Pids : table[pid] # Nobody}
KeyOf(pid)  == <<pid, table[pid].start>>
LiveKeys    == {KeyOf(pid) : pid \in Alive}

(* The two files, as the kernel prints them.  The name is copied verbatim; *)
(* a malformed line breaks off.                                            *)
StatLine(pid, start, whole) ==
  LET columns == [c \in 1 .. 22 |->
                    IF c = 1 THEN Mark("S") ELSE Num(IF c = StartTime THEN start ELSE 0)]
  IN <<Num(pid), Space, Mark("(")>> \o Names[start] \o <<Mark(")")>>
     \o IF whole THEN columns ELSE SubSeq(columns, 1, 5)

StatLines == [of \in (1 .. MostPids) \X (1 .. MostBirths) \X BOOLEAN |->
                StatLine(of[1], of[2], of[3])]

StatText(pid) == StatLines[<<pid, table[pid].start, table[pid].stat # "malformed">>]

IoText(pid) ==
  <<[key |-> "wchar", n |-> 2 * table[pid].bytes],
    [key |-> "write_bytes", n |-> table[pid].bytes]>>

-----------------------------------------------------------------------------
KernelInit ==
  /\ size \in Sizes
  /\ births = size.pids
  /\ table \in {t \in [Pids -> Process \cup {Nobody}] :
                  \A pid \in Pids : t[pid] # Nobody => t[pid].start = pid /\ t[pid].bytes = 0}
  /\ written = [pid \in Pids |-> 0]

Spawn(pid) ==
  /\ table[pid] = Nobody
  /\ births < size.births
  /\ births' = births + 1
  /\ \E readable \in size.access, stat \in size.stats :
       table' = [table EXCEPT ![pid] = [start |-> births + 1, bytes |-> 0,
                                        readable |-> readable, stat |-> stat]]
  /\ UNCHANGED <<size, written>>

Exit(pid) ==
  /\ table[pid] # Nobody
  /\ table' = [table EXCEPT ![pid] = Nobody]
  /\ UNCHANGED <<size, births, written>>

Write(pid) ==
  /\ table[pid] # Nobody
  /\ table[pid].bytes < size.bytes
  /\ table' = [table EXCEPT ![pid].bytes = @ + 1]
  /\ written' = [written EXCEPT ![pid] = @ + 1]
  /\ UNCHANGED <<size, births>>

ChangeAccess(pid) ==
  /\ table[pid] # Nobody
  /\ (~ table[pid].readable) \in size.access
  /\ table' = [table EXCEPT ![pid].readable = ~ @]
  /\ UNCHANGED <<size, births, written>>

KernelNext == \E pid \in Pids : Spawn(pid) \/ Exit(pid) \/ Write(pid) \/ ChangeAccess(pid)
=============================================================================
