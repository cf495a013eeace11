---------------------------- MODULE SystemRates ----------------------------
(***************************************************************************)
(* The system-wide half of a sample: /proc/stat, /proc/meminfo and         *)
(* /proc/net/dev as Collector::collect reads them (src/sample.rs), and the *)
(* rates diff makes of two samples (src/delta.rs), against what the        *)
(* machine really did in between.  The machine is external: cores that     *)
(* come and go, time they spend on four things, interfaces that come and   *)
(* go and whose counters wrap, and memory.                                 *)
(*                                                                         *)
(* No property relates one file to another, so that a scan reads the three *)
(* at one instant; one that fails changes nothing here.                    *)
(***************************************************************************)
EXTENDS Delta

CONSTANTS
  Cores,     \* numbers of the cores
  Links,     \* names of the network interfaces
  Memories,  \* states of the memory: pages free, in cache, shared, of processes
  Wrap,      \* an interface's counter is kept modulo this
  MaxEvents  \* bound: things that happen to the machine

ASSUME SystemAssumption ==
  /\ Cores \subseteq Nat /\ IsFiniteSet(Cores)
  /\ IsFiniteSet(Links)
  /\ \A m \in Memories :
       m \in [free : Nat, cache : Nat, shared : Nat, used : Nat, reports : BOOLEAN]
  /\ Wrap \in Nat \ {0}
  /\ MaxEvents \in Nat

(* Guest time is the time a core runs a virtual machine. *)
Kinds == {"run", "guest", "idle", "iowait"}

VARIABLES
  ticks,    \* core -> kind -> ticks really spent on it
  slips,    \* core -> ticks its iowait counter has gone back
  online,   \* cores that /proc/stat lists
  carried,  \* interface -> bytes it really received
  offset,   \* interface -> bytes received before its counter started
  present,  \* interfaces there are
  memory,   \* the state of the memory, which no difference is taken of
  events,   \* things that happened so far
  sample,   \* the last sample, or None
  rates,    \* what diff made of the last two, or None
  then,     \* history: the machine at the sample before the last
  last      \* history: the machine at the last sample

machineVars == <<ticks, slips, online, carried, offset, present, memory>>
vars        == <<machineVars, events, sample, rates, then, last>>

TypeOK ==
  /\ ticks \in [Cores -> [Kinds -> 1 .. MaxEvents + 1]]
  /\ \A c \in Cores : slips[c] \in 0 .. ticks[c]["iowait"]
  /\ online \subseteq Cores
  /\ \A l \in Links : carried[l] \in 1 .. MaxEvents + 1 /\ offset[l] \in 0 .. carried[l]
  /\ present \subseteq Links
  /\ memory \in Memories
  /\ events \in 0 .. MaxEvents
  /\ sample = None \/ DOMAIN sample = {"cpu", "mem", "nets"}
  /\ rates = None \/
       /\ rates.cpu_pct \in Nat
       /\ rates.per_cpu_pct \in Seq(Nat)
       /\ rates.mem_used \in Nat
       /\ rates.net_rx_bps \in Nat

-----------------------------------------------------------------------------
(* The files, as the kernel prints them.  User time includes guest time;   *)
(* the first line adds up all cores, those off line included.              *)
CpuColumns(S) ==
  LET sum(kind) == SumFunctionOnSet([c \in Cores |-> ticks[c][kind]], S)
      slipped   == SumFunctionOnSet(slips, S)
  IN <<sum("run") + sum("guest"), 0, 0, sum("idle"), sum("iowait") - slipped, 0, 0, 0,
       sum("guest"), 0>>

StatFile ==
  LET cores == Ascending(online) IN
  <<[label |-> "cpu", columns |-> CpuColumns(Cores)]>>
  \o [i \in DOMAIN cores |-> [label |-> "cpuN", columns |-> CpuColumns({cores[i]})]]

Counter(l) == (carried[l] - offset[l]) % Wrap

NetDevFile ==
  LET header == [label |-> "header", columns |-> <<>>]
      links  == SetToSeq(present)
  IN <<header, header>>
     \o [i \in DOMAIN links |->
           [label |-> links[i], columns |-> <<Counter(links[i])>> \o [n \in 1 .. 15 |-> 0]]]

(* Shared pages are counted as cached, and cannot be reclaimed. *)
MemFile ==
  LET m == memory IN
  <<[key |-> "MemTotal", n |-> m.free + m.cache + m.shared + m.used],
    [key |-> "MemFree",  n |-> m.free],
    [key |-> "Cached",   n |-> m.cache + m.shared]>>
  \o IF m.reports THEN <<[key |-> "MemAvailable", n |-> m.free + m.cache]>> ELSE <<>>

-----------------------------------------------------------------------------
(* The machine has been up for a while. *)
Init ==
  /\ ticks = [c \in Cores |-> [kind \in Kinds |-> 1]]
  /\ slips = [c \in Cores |-> 0]
  /\ online = Cores
  /\ carried = [l \in Links |-> 1]
  /\ offset = [l \in Links |-> 0]
  /\ present = Links
  /\ memory \in Memories
  /\ events = 0
  /\ sample = None
  /\ rates = None
  /\ then = None
  /\ last = None

Happens ==
  /\ events < MaxEvents
  /\ events' = events + 1
  /\ UNCHANGED <<sample, rates, then, last>>

Tick(c, kind) ==
  /\ Happens
  /\ c \in online
  /\ ticks' = [ticks EXCEPT ![c][kind] = @ + 1]
  /\ UNCHANGED <<slips, online, carried, offset, present, memory>>

(* proc(5), of iowait: "the value in this field may decrease".  *)
SlipBack(c) ==
  /\ Happens
  /\ c \in online
  /\ slips[c] < ticks[c]["iowait"]
  /\ slips' = [slips EXCEPT ![c] = @ + 1]
  /\ UNCHANGED <<ticks, online, carried, offset, present, memory>>

(* A core goes off line or comes back. *)
Plug(c) ==
  /\ Happens
  /\ online' = SymDiff(online, {c})
  /\ online' # {}
  /\ UNCHANGED <<ticks, slips, carried, offset, present, memory>>

Receive(l) ==
  /\ Happens
  /\ l \in present
  /\ carried' = [carried EXCEPT ![l] = @ + 1]
  /\ UNCHANGED <<ticks, slips, online, offset, present, memory>>

(* An interface is removed, or made again with a counter of its own. *)
Rewire(l) ==
  /\ Happens
  /\ l # "lo"
  /\ present' = SymDiff(present, {l})
  /\ offset' = [offset EXCEPT ![l] = carried[l]]
  /\ UNCHANGED <<ticks, slips, online, carried, memory>>

-----------------------------------------------------------------------------
(* collect, and diff against the sample before.  A failed read of net/dev  *)
(* counts as no interfaces.                                                *)
Scan(readable) ==
  /\ sample' = [cpu  |-> ParseProcStat(StatFile),
                mem  |-> ParseMeminfo(MemFile),
                nets |-> IF readable THEN ParseNetDev(NetDevFile) ELSE <<>>]
  /\ rates' = IF sample = None THEN None ELSE SystemRate(sample, sample')
  /\ then' = last
  /\ last' = [ticks |-> ticks, slips |-> slips, online |-> online, carried |-> carried,
              offset |-> offset, present |-> present, net_read |-> readable]
  /\ UNCHANGED <<machineVars, events>>

Next ==
  \/ \E c \in Cores : (\E kind \in Kinds : Tick(c, kind)) \/ SlipBack(c) \/ Plug(c)
  \/ \E l \in Links : Receive(l) \/ Rewire(l)
  \/ \E readable \in BOOLEAN : Scan(readable)

Spec == Init /\ [][Next]_vars

-----------------------------------------------------------------------------
(* No percentage leaves 0 .. 100, even when iowait goes back and busy time *)
(* outgrows the total.                                                     *)
PercentsAreBounded ==
  rates # None =>
    \A p \in {rates.cpu_pct} \cup Range(rates.per_cpu_pct) : p \in 0 .. 100

Spent(S, kinds) ==
  SumFunctionOnSet(
    [c \in Cores |-> SumFunctionOnSet([k \in Kinds |-> last.ticks[c][k] - then.ticks[c][k]], kinds)],
    S)

BusyShare(S) ==
  LET total == Spent(S, Kinds)
  IN IF total = 0 THEN 0 ELSE (100 * Spent(S, {"run", "guest"})) \div total

Steady(S) == \A c \in S : last.slips[c] = then.slips[c]

(* cpu_pct is the share of the time between the samples that the machine   *)
(* was busy: waiting for a disk is idle, and a guest's time counts once    *)
(* though the kernel gives it twice.                                       *)
CpuIsBusyShare == rates # None /\ Steady(Cores) => rates.cpu_pct = BusyShare(Cores)

(* The core at a position of per_cpu_pct has its own share there whenever  *)
(* both samples list it at that position.  Cores are paired by position,   *)
(* so that one which leaves or returns moves those after it.               *)
CoresAreTheirOwn ==
  rates # None =>
    LET now == Ascending(last.online)  was == Ascending(then.online) IN
    /\ Len(rates.per_cpu_pct) = Min({Len(now), Len(was)})
    /\ \A i \in DOMAIN rates.per_cpu_pct :
         now[i] = was[i] /\ Steady({now[i]}) => rates.per_cpu_pct[i] = BusyShare({now[i]})

(* Bytes really received between the samples, by all interfaces but lo. *)
Received ==
  SumFunctionOnSet([l \in Links |-> last.carried[l] - then.carried[l]], Links \ {"lo"})

(* Every interface counted on, and no counter passed its width. *)
Undisturbed ==
  \A l \in Links \ {"lo"} :
    /\ l \in then.present <=> l \in last.present
    /\ then.offset[l] = last.offset[l]
    /\ l \in last.present =>
         (last.carried[l] - last.offset[l]) \div Wrap = (then.carried[l] - last.offset[l]) \div Wrap

(* The network rate never exceeds the traffic of the interval, whatever    *)
(* becomes of the interfaces, and is that traffic if nothing does.  The    *)
(* earlier sample must have read net/dev.                                  *)
NetRateIsTraffic ==
  rates # None /\ then.net_read =>
    /\ rates.net_rx_bps <= Received
    /\ Undisturbed /\ last.net_read => rates.net_rx_bps = Received

(* Memory that can be handed out is never counted as used.  All the rest   *)
(* is with a kernel that says how much there is; with one that does not,   *)
(* or that says there is none, what is shared is not: a reported 0 is not  *)
(* "total minus MemAvailable" (procfs.rs:241) but taken for a very old     *)
(* kernel (procfs.rs:285).                                                 *)
UsedCannotBeHandedOut ==
  rates # None =>
    rates.mem_used = IF memory.reports /\ memory.free + memory.cache > 0
                       THEN memory.shared + memory.used
                       ELSE memory.used

(* Of the differences delta.rs says: "Saturating to zero yields a wrong-   *)
(* but-harmless single sample instead of ... a garbage spike".             *)
NoSpike == rates # None => rates.net_rx_bps <= Received
=============================================================================
