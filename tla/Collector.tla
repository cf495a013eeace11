----------------------------- MODULE Collector -----------------------------
(***************************************************************************)
(* Collector::collect of src/sample.rs: one scan of /proc, file by file,   *)
(* while the process table changes between any two reads.  Each read of a  *)
(* file is one step.  What the system-wide files hold is the subject of    *)
(* SystemRates; of a process's files the key and the name, from stat, and  *)
(* the bytes it wrote, from io, are kept.  Socket attribution is left out. *)
(***************************************************************************)
EXTENDS Kernel

CONSTANT None \* the absence of a sample, of a stat or of an io reading

VARIABLES
  pc,       \* "idle", or the next read of the scan: "list", "stat", "io"
  cursor,   \* where readdir stands: pids up to it have been passed
  pids,     \* what list_pids returned and the scan has still to read
  stat,     \* what the stat file just read says
  cur,      \* the sample being built
  sample,   \* the last sample collect returned, or None
  failed,   \* whether the last collect returned an error
  scans,    \* scans begun
  stayed,   \* history: keys alive since the scan began, whose directory
            \* entry no error has hidden
  met       \* history: keys alive at some time since the scan began

scanVars == <<pc, cursor, pids, stat, cur, sample, failed, scans>>
vars     == <<kernelVars, scanVars, stayed, met>>

(* A reading of an io file notes whose it was, and how much had been       *)
(* written under the pid by then; the code sees only bytes.                *)
Keys    == Pids \X (1 .. size.births)
Reading == [bytes : 0 .. size.bytes, owner : Keys, odometer : Nat]
IsSample(s) ==
  /\ DOMAIN s = {"scan", "procs", "vanished", "io_denied"}
  /\ DOMAIN s.procs \subseteq Keys
  /\ \A k \in DOMAIN s.procs :
       /\ DOMAIN s.procs[k] = {"comm", "io"}
       /\ s.procs[k].io \in Reading \cup {None}
  /\ s.scan \in 0 .. size.scans
  /\ s.vanished \in Nat /\ s.io_denied \in Nat
  /\ s.vanished + s.io_denied <= Cardinality(Pids)

TypeOK ==
  /\ KernelTypeOK
  /\ pc \in {"idle", "list", "stat", "io"}
  /\ cursor \in Pids \cup {0}
  /\ pids \in Seq(Pids)
  /\ stat = None \/ DOMAIN stat = {"pid", "comm", "starttime"}
  /\ IsSample(cur)
  /\ sample = None \/ IsSample(sample)
  /\ failed \in BOOLEAN
  /\ scans \in 0 .. size.scans
  /\ stayed \subseteq met /\ met \subseteq Keys

-----------------------------------------------------------------------------
EmptySample(scan) == [scan |-> scan, procs |-> [k \in {} |-> None], vanished |-> 0, io_denied |-> 0]

Init ==
  /\ KernelInit
  /\ pc = "idle"
  /\ cursor = 0
  /\ pids = <<>>
  /\ stat = None
  /\ scans = 0
  /\ cur = EmptySample(0)
  /\ sample = None
  /\ failed = FALSE
  /\ stayed = {}
  /\ met = {}

(* The system-wide files are read first. *)
BeginScan ==
  /\ pc = "idle"
  /\ scans < size.scans
  /\ scans' = scans + 1
  /\ cur' = EmptySample(scans + 1)
  /\ cursor' = 0
  /\ pids' = <<>>
  /\ pc' = "list"
  /\ stayed' = LiveKeys
  /\ met' = LiveKeys
  /\ UNCHANGED <<kernelVars, stat, sample, failed>>

(* stat, meminfo or the directory itself cannot be read: no sample. *)
SystemReadFails ==
  /\ pc = "list" /\ cursor = 0
  /\ failed' = TRUE
  /\ pc' = "idle"
  /\ UNCHANGED <<kernelVars, cursor, pids, stat, cur, sample, scans, stayed, met>>

(* The kernel lists processes in ascending order of pid, as it finds them. *)
ListPid ==
  /\ pc = "list"
  /\ cursor + 1 \in Pids
  /\ cursor' = cursor + 1
  /\ pids' = IF cursor' \in Alive THEN Append(pids, cursor') ELSE pids
  /\ UNCHANGED <<kernelVars, pc, stat, cur, sample, failed, scans, stayed, met>>

(* readdir fails at an entry: "continue", and the scan goes on without it. *)
(* (The iterator may end there instead: then every later entry is skipped.)*)
SkipEntry ==
  /\ pc = "list"
  /\ cursor + 1 \in Alive
  /\ cursor' = cursor + 1
  /\ stayed' = stayed \ {KeyOf(cursor')}
  /\ UNCHANGED <<kernelVars, pc, pids, stat, cur, sample, failed, scans, met>>

EndList ==
  /\ pc = "list"
  /\ cursor + 1 \notin Pids
  /\ pc' = "stat"
  /\ UNCHANGED <<kernelVars, cursor, pids, stat, cur, sample, failed, scans, stayed, met>>

(* What parse_pid_stat makes of each line, as a table for TLC's sake. *)
Parse == [line \in Range(StatLines) |-> ParsePidStat(line)]

Parsed(pid) == Parse[StatText(pid)]

-----------------------------------------------------------------------------
(* Plausible defects, each in place of the action of the same shape. *)
VanishedEndsScan ==
  /\ pc = "stat" /\ pids # <<>>
  /\ Head(pids) \notin Alive
  /\ cur' = [cur EXCEPT !.vanished = @ + 1]
  /\ pids' = <<>>
  /\ UNCHANGED <<kernelVars, pc, cursor, stat, sample, failed, scans, stayed, met>>

MalformedCountsAsVanished ==
  /\ pc = "stat" /\ pids # <<>>
  /\ Head(pids) \in Alive
  /\ table[Head(pids)].stat # "unreadable"
  /\ Parsed(Head(pids)) = {}
  /\ cur' = [cur EXCEPT !.vanished = @ + 1]
  /\ pids' = Tail(pids)
  /\ UNCHANGED <<kernelVars, pc, cursor, stat, sample, failed, scans, stayed, met>>

HalfScanIsKept ==
  /\ pc = "stat" /\ pids # <<>>
  /\ Head(pids) \in Alive
  /\ table[Head(pids)].stat = "unreadable"
  /\ failed' = TRUE
  /\ sample' = IF sample = None THEN None ELSE cur
  /\ pc' = "idle"
  /\ UNCHANGED <<kernelVars, cursor, pids, stat, cur, scans, stayed, met>>

-----------------------------------------------------------------------------
(* The process has gone: NotFound or ESRCH. *)
StatGone ==
  /\ pc = "stat" /\ pids # <<>>
  /\ Head(pids) \notin Alive
  /\ cur' = [cur EXCEPT !.vanished = @ + 1]
  /\ pids' = Tail(pids)
  /\ UNCHANGED <<kernelVars, pc, cursor, stat, sample, failed, scans, stayed, met>>

StatReadable ==
  /\ pc = "stat" /\ pids # <<>>
  /\ Head(pids) \in Alive
  /\ table[Head(pids)].stat # "unreadable"

StatMalformed ==
  /\ StatReadable
  /\ Parsed(Head(pids)) = {}
  /\ pids' = Tail(pids)
  /\ UNCHANGED <<kernelVars, pc, cursor, stat, cur, sample, failed, scans, stayed, met>>

(* Any other error ends the scan. *)
StatUnreadable ==
  /\ pc = "stat" /\ pids # <<>>
  /\ Head(pids) \in Alive
  /\ table[Head(pids)].stat = "unreadable"
  /\ failed' = TRUE
  /\ pc' = "idle"
  /\ UNCHANGED <<kernelVars, cursor, pids, stat, cur, sample, scans, stayed, met>>

StatRead ==
  /\ StatReadable
  /\ stat' \in Parsed(Head(pids))
  /\ pc' = "io"
  /\ UNCHANGED <<kernelVars, cursor, pids, cur, sample, failed, scans, stayed, met>>

(* The io file is opened by pid: it is of whoever has the pid by now. *)
IoReading(pid) ==
  IF pid \in Alive /\ table[pid].readable
    THEN [bytes |-> WriteBytes(IoText(pid)), owner |-> KeyOf(pid), odometer |-> written[pid]]
    ELSE None

(* HashMap::insert *)
Insert(map, key, value) ==
  [k \in DOMAIN map \cup {key} |-> IF k = key THEN value ELSE map[k]]

ReadIo ==
  /\ pc = "io"
  /\ LET pid == Head(pids) IN
       cur' = [cur EXCEPT
                 !.io_denied = IF pid \in Alive /\ ~ table[pid].readable THEN @ + 1 ELSE @,
                 !.procs     = Insert(@, Key(stat), [comm |-> stat.comm, io |-> IoReading(pid)])]
  /\ pids' = Tail(pids)
  /\ stat' = None
  /\ pc' = "stat"
  /\ UNCHANGED <<kernelVars, cursor, sample, failed, scans, stayed, met>>

Return ==
  /\ pc = "stat" /\ pids = <<>>
  /\ sample' = cur
  /\ failed' = FALSE
  /\ pc' = "idle"
  /\ UNCHANGED <<kernelVars, cursor, pids, stat, cur, scans, stayed, met>>

ReadFile ==
  \/ SystemReadFails \/ ListPid \/ SkipEntry \/ EndList
  \/ StatGone \/ StatMalformed \/ StatUnreadable \/ StatRead
  \/ ReadIo

KernelStep ==
  /\ KernelNext
  /\ stayed' = stayed \cap LiveKeys'
  /\ met' = met \cup LiveKeys'
  /\ UNCHANGED scanVars

Next == BeginScan \/ ReadFile \/ Return \/ KernelStep

Spec == Init /\ [][Next]_vars

-----------------------------------------------------------------------------
(* Every process that lived through the whole scan is in the sample, but   *)
(* for those whose directory entry readdir failed at: the processes that   *)
(* exit, that start, that are malformed or skipped around it do not cost   *)
(* it its place, and neither does a name with parentheses in it.           *)
NothingMissed ==
  pc = "stat" /\ pids = <<>> =>
    \A k \in stayed : table[k[1]].stat = "good" => k \in DOMAIN cur.procs

(* The sample holds no process that never was: a pid recycled during the   *)
(* scan lends neither its start time nor its name to another process, and  *)
(* a name with parentheses in it shifts no column.                         *)
NothingInvented ==
  \A k \in DOMAIN cur.procs : k \in met /\ cur.procs[k].comm = Names[k[2]]

(* vanished counts processes that did exit during this scan. *)
VanishedDidExit == cur.vanished <= Cardinality(met \ LiveKeys)
=============================================================================
