------------------------------- MODULE Delta -------------------------------
(***************************************************************************)
(* diff of src/delta.rs: rates from two samples.  The seconds a rate is    *)
(* divided by are left out, so that a rate is what was counted between the *)
(* samples; of a process's rates one of its io counters is kept, and of    *)
(* the network the bytes received.  Percentages are whole, rounded down.   *)
(***************************************************************************)
EXTENDS ProcFiles

CONSTANT None  \* no rate, or no reading

(* A plausible defect: a difference of signed numbers. *)
PlainSub(a, b) == a - b

SaturatingSub(a, b) == IF a > b THEN a - b ELSE 0

-----------------------------------------------------------------------------
(* A plausible defect: a process is known by its pid. *)
PreviousByPid(prev, k) == {j \in DOMAIN prev.procs : j[1] = k[1]}

(* Where the earlier sample has this process: keyed by pid and start time. *)
Previous(prev, k) == {j \in DOMAIN prev.procs : j = k}

(* The rate of one io counter, None when the file is unreadable now, 0     *)
(* when there is no earlier reading to compare with.                       *)
IoRate(now, before) ==
  IF now = None THEN None
  ELSE IF before = None THEN 0
  ELSE SaturatingSub(now.bytes, before.bytes)

ProcRate(prev, cur, k) ==
  LET seen   == Previous(prev, k)
      before == IF seen = {} THEN None ELSE prev.procs[CHOOSE j \in seen : TRUE].io
  IN [is_new    |-> seen = {},
      comm      |-> cur.procs[k].comm,
      write_bps |-> IoRate(cur.procs[k].io, before)]

ProcRates(prev, cur) == [k \in DOMAIN cur.procs |-> ProcRate(prev, cur, k)]

-----------------------------------------------------------------------------
(* A plausible defect: the two columns are taken to agree. *)
UnclampedPct(busy, total) == IF total = 0 THEN 0 ELSE (100 * busy) \div total

Pct(busy, total) == IF total = 0 THEN 0 ELSE Min({(100 * busy) \div total, 100})

CpuPct(now, before) ==
  Pct(SaturatingSub(Busy(now), Busy(before)), SaturatingSub(Total(now), Total(before)))

(* The i-th line of one sample with the i-th of the other, as zip does. *)
PerCpuPct(now, before) ==
  [i \in 1 .. Min({Len(now), Len(before)}) |-> CpuPct(now[i], before[i])]

(* A plausible defect: local traffic counts too. *)
EveryInterface(net) == TRUE

CountsAsNetwork(net) == net.name # "lo"

SumNet(nets) ==
  SumFunctionOnSet([i \in DOMAIN nets |-> nets[i].rx_bytes],
                   {i \in DOMAIN nets : CountsAsNetwork(nets[i])})

MemUsed(mem) == SaturatingSub(mem.total, mem.available)

SystemRate(prev, cur) ==
  [cpu_pct     |-> CpuPct(cur.cpu.total, prev.cpu.total),
   per_cpu_pct |-> PerCpuPct(cur.cpu.per_cpu, prev.cpu.per_cpu),
   mem_used    |-> MemUsed(cur.mem),
   net_rx_bps  |-> SaturatingSub(SumNet(cur.nets), SumNet(prev.nets))]
=============================================================================
