---------------------------- MODULE MCRuleEngine ----------------------------
(***************************************************************************)
(* Small instances of the alert engine for TLC.                            *)
(***************************************************************************)
EXTENDS RuleEngineHistory

MCValues == 0 .. 2

HighCpu == [target |-> "system", pattern |-> AnyComm, metric |-> "cpu_pct",
            op |-> ">", threshold |-> 1, clear |-> 0, sustain |-> 2]
ChattyWriter == [target |-> "process", pattern |-> AnyComm, metric |-> "write_bps",
                 op |-> ">", threshold |-> 1, clear |-> 0, sustain |-> 1]
IdleNode == [target |-> "process", pattern |-> "node", metric |-> "write_bps",
             op |-> "<", threshold |-> 1, clear |-> 2, sustain |-> 0]

(* A rising system rule that waits, and a falling rule on the processes of *)
(* one name that fires at once; both have a deadband.                      *)
MixedRules == <<HighCpu, IdleNode>>

ChattyRule == <<ChattyWriter>>
=============================================================================
