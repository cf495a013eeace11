----------------------------- MODULE MCMonitor ------------------------------
(***************************************************************************)
(* Small instances of the monitor for TLC.                                 *)
(***************************************************************************)
EXTENDS Monitor

(* One scan of two pids that change hands under it, with any stat file;    *)
(* four scans of one pid that changes hands, whose processes write; and    *)
(* three scans of two pids, any of which may fail half way, at a stat file *)
(* that cannot be read.                                                    *)
Churn   == [pids |-> 2, births |-> 4, bytes |-> 0, scans |-> 1,
            stats |-> StatKinds, access |-> BOOLEAN]
Long    == [pids |-> 1, births |-> 2, bytes |-> 2, scans |-> 4,
            stats |-> {"good"}, access |-> BOOLEAN]
Halfway == [pids |-> 2, births |-> 3, bytes |-> 0, scans |-> 3,
            stats |-> {"good", "unreadable"}, access |-> {TRUE}]

AllSizes == {Churn, Long, Halfway}
OnlyLong == {Long}

(* "sh", and names the parser might stumble over: "a) b 7", "" and "(".    *)
MCNames == <<<<Mark("sh")>>,
             <<Mark("a"), Mark(")"), Space, Mark("b"), Space, Num(7)>>,
             <<>>, <<Mark("(")>>>>

Writes == [target |-> "process", pattern |-> "*", metric |-> "write_bps",
           op |-> ">", threshold |-> 0, clear |-> 0, sustain |-> 1]
Rests  == [target |-> "process", pattern |-> "*", metric |-> "write_bps",
           op |-> "<", threshold |-> 1, clear |-> 1, sustain |-> 0]

(* More than nothing for a while, and nothing at once. *)
MCRules == <<Writes, Rests>>
=============================================================================
