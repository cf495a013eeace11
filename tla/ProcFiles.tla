----------------------------- MODULE ProcFiles -----------------------------
(***************************************************************************)
(* The parsers of src/procfs.rs.  The stat file of a process is a sequence *)
(* of tokens: numbers, and marks for every other piece of text.  The other *)
(* files are sequences of lines: a key with a number, or a label with its  *)
(* columns.  That a token which is no number reads as 0 is left out.       *)
(***************************************************************************)
EXTENDS Integers, SequencesExt

Token == [is : STRING, n : Int]

Num(n)  == [is |-> "number", n |-> n]
Mark(c) == [is |-> c, n |-> 0]
Space   == Mark(" ")

IsNumber(token)  == token.is = "number"
Before(text, at) == SubSeq(text, 1, at - 1)
After(text, at)  == SubSeq(text, at + 1, Len(text))

(* The numbers of S in ascending order: the n-th has n-1 before it. *)
Rank(S, i)   == Cardinality({j \in S : j <= i})
Ascending(S) == [n \in 1 .. Cardinality(S) |-> CHOOSE i \in S : Rank(S, i) = n]

(* What of a text passes the test, in the order it had. *)
Passing(text, Test(_)) ==
  LET at == Ascending({i \in DOMAIN text : Test(text[i])})
  IN [n \in DOMAIN at |-> text[at[n]]]

(* split_ascii_whitespace *)
Words(text) == Passing(text, LAMBDA token : token # Space)

Find(text, mark)  == SelectInSeq(text, LAMBDA token : token = mark)
RFind(text, mark) == SelectLastInSeq(text, LAMBDA token : token = mark)

(* The columns after the name that parse_pid_stat reads as numbers.        *)
NumberColumns == {2, 12, 13, 18, 20, 21, 22}
StartTime     == 20

(* A plausible defect: the name ends at the first closing parenthesis. *)
FirstClose(text) == Find(text, Mark(")"))

(* Where the name ends: it may hold spaces and parentheses of its own. *)
Close(text) == RFind(text, Mark(")"))

(* What the line says, or nothing: an Option, as a set. *)
ParsePidStat(text) ==
  LET open == Find(text, Mark("("))
      pid  == Words(Before(text, open))
      rest == Words(After(text, Close(text)))
  IN IF /\ open # 0 /\ open < Close(text)
        /\ Len(pid) = 1 /\ IsNumber(pid[1])
        /\ \A c \in NumberColumns : c <= Len(rest) /\ IsNumber(rest[c])
       THEN {[pid       |-> pid[1].n,
              comm      |-> SubSeq(text, open + 1, Close(text) - 1),
              starttime |-> rest[StartTime].n]}
       ELSE {}

Key(stat) == <<stat.pid, stat.starttime>>

-----------------------------------------------------------------------------
(* A file of "key: number" lines; of two lines with one key the later wins. *)
Value(file, key) ==
  LET at == SelectLastInSeq(file, LAMBDA line : line.key = key)
  IN IF at = 0 THEN 0 ELSE file[at].n

(* A plausible defect: what was handed to write(2), cached or not. *)
SyscallBytes(file) == Value(file, "wchar")

(* Of the counters of /proc/<pid>/io, the one the models follow. *)
WriteBytes(file) == Value(file, "write_bytes")

(* A plausible defect: what is not free is used. *)
FreeIsAvailable(file) ==
  [total |-> Value(file, "MemTotal"), available |-> Value(file, "MemFree")]

(* MemAvailable as the kernel gives it, or an approximation for the kernels *)
(* that do not: a kernel that says 0 counts as one of them.                 *)
ParseMeminfo(file) ==
  LET total     == Value(file, "MemTotal")
      available == Value(file, "MemAvailable")
  IN [total     |-> total,
      available |-> IF available = 0 /\ total > 0
                      THEN Value(file, "MemFree") + Value(file, "Buffers") + Value(file, "Cached")
                      ELSE available]

-----------------------------------------------------------------------------
(* A line of /proc/stat has its label and the columns user, nice, system,  *)
(* idle, iowait, irq, softirq, steal, guest, guest_nice; old kernels have  *)
(* fewer of them.                                                          *)
Column(columns, i) == IF i <= Len(columns) THEN columns[i] ELSE 0

SumOf(columns, S) == SumFunctionOnSet([i \in S |-> Column(columns, i)], S)

(* A plausible defect: guest time is in user time already. *)
TotalWithGuest(columns) == SumOf(columns, 1 .. 10)

(* CpuTimes::total and busy.  iowait, the fifth column, counts as idle. *)
Total(columns) == SumOf(columns, 1 .. 8)
Busy(columns)  == Total(columns) - Column(columns, 4) - Column(columns, 5)

(* A plausible defect: every line that starts with "cpu" is a core. *)
AnyCpuLine(line) == line.label \in {"cpu", "cpuN"}

IsCore(line) == line.label = "cpuN"

ParseProcStat(file) ==
  LET at    == SelectLastInSeq(file, LAMBDA line : line.label = "cpu")
      cores == Passing(file, IsCore)
  IN [total   |-> IF at = 0 THEN <<>> ELSE file[at].columns,
      per_cpu |-> [i \in DOMAIN cores |-> cores[i].columns]]

(* Two header lines, then one line for each interface. *)
Headers == 2

ParseNetDev(file) ==
  LET lines == Passing(SubSeq(file, Headers + 1, Len(file)),
                       LAMBDA line : Len(line.columns) >= 16)
  IN [i \in DOMAIN lines |-> [name |-> lines[i].label, rx_bytes |-> lines[i].columns[1]]]
=============================================================================
