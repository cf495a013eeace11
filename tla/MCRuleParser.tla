---------------------------- MODULE MCRuleParser ----------------------------
(***************************************************************************)
(* Rule files for TLC: the lines that differ from a good one in one or two *)
(* fields, with every kind of ending, and blank and short lines.           *)
(***************************************************************************)
EXTENDS RuleParser, TLC

MCComms   == {"node"}
MCPattern == "process:node" :> "node" @@ "process:*" :> AnyComm @@ "process:" :> ""
MCNumeral == "0" :> [n |-> 0, unit |-> ""] @@ "2" :> [n |-> 2, unit |-> ""]
          @@ "-1" :> [n |-> -1, unit |-> ""] @@ "2K" :> [n |-> 2, unit |-> "K"]
          @@ "1s" :> [n |-> 1, unit |-> "s"] @@ "-1s" :> [n |-> -1, unit |-> "s"]

Fields ==
  <<{"alert", "warn"}, {"name"}, {"system", "process:node", "process:", "disk"},
    {"cpu", "mem_pct", "rss", "disk_bps"}, {">", "<", "="}, {"2", "2K", "-1", "many"},
    {"for", "during"}, {"1s", "0", "-1s", "soon"}>>
Tails ==
  {<<>>, <<"clear", "0">>, <<"clear", "2K">>, <<"clear", "-1">>, <<"clear">>,
   <<"clear", "soon">>, <<"until", "0">>, <<"clear", "2", "please">>}

Heads ==
  {<<a, b, c, d, e, f, g, h>> :
     a \in Fields[1], b \in Fields[2], c \in Fields[3], d \in Fields[4],
     e \in Fields[5], f \in Fields[6], g \in Fields[7], h \in Fields[8]}

Differ(s, t) == Cardinality({i \in DOMAIN s : s[i] # t[i]})

Busy == <<"alert", "name", "system", "cpu", ">", "2", "for", "1s">>
Idle == <<"alert", "name", "process:node", "rss", "<", "2K", "for", "1s">>

MCLines ==
  {h \in Heads : Differ(Busy, h) <= 2}
  \cup {Busy \o tail : tail \in Tails}
  \cup {h \o tail : h \in {x \in Heads : Differ(Idle, x) <= 1}, tail \in Tails}
  \cup {<<>>, <<"warn">>, <<"alert", "name", "system", "cpu", ">", "2", "for">>}
=============================================================================
