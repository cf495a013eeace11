----------------------------- MODULE RuleTypes ------------------------------
(***************************************************************************)
(* The shape of an alert rule, shared by the parser that accepts rules and *)
(* the engine that evaluates them (src/rules.rs).  Readings and thresholds *)
(* are f64 in the code; only their order matters, so they are integers     *)
(* here.  The rule's name serves display only and is left out.             *)
(***************************************************************************)
EXTENDS Integers

CONSTANT Comms   \* the names a process may carry

SystemMetrics  == {"cpu_pct", "mem_pct", "net_rx_bps", "net_tx_bps", "proc_count"}
ProcessMetrics == {"cpu_pct", "rss", "read_bps", "write_bps", "threads"}
IoMetrics      == {"read_bps", "write_bps"}  \* absent when /proc/[pid]/io is unreadable
AnyComm        == "*"

Rule == [target    : {"system", "process"},
         pattern   : {AnyComm} \cup Comms,
         metric    : SystemMetrics \cup ProcessMetrics,
         op        : {">", "<"},
         threshold : Int,
         clear     : Int,
         sustain   : Nat]

(* What parse_rules guarantees of an accepted rule beyond its type: the    *)
(* clear boundary is not on the alert side of the threshold, and a process *)
(* rule names a metric a process has.                                      *)
Sane(rule) == IF rule.op = ">" THEN rule.clear <= rule.threshold
                               ELSE rule.clear >= rule.threshold
WellScoped(rule) == rule.target = "process" => rule.metric \in ProcessMetrics

UsableRule == {rule \in Rule : Sane(rule) /\ WellScoped(rule)}
=============================================================================
