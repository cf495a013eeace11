----------------------------- MODULE RuleParser -----------------------------
(***************************************************************************)
(* parse_rules of src/rules.rs and the start of the program on its result  *)
(* (src/bin/vitals.rs).  A rule file is read a line at a time; a line is a *)
(* sequence of tokens, its comment already cut off, and gives a rule, an   *)
(* error, or nothing when it is blank:                                     *)
(*                                                                         *)
(*   alert <name> <target> <metric> <op> <value> for <dur> [clear <value>] *)
(*                                                                         *)
(* The characters of a token are left out.  Numeral says which tokens are  *)
(* a number with a suffix, and Pattern which ones begin with process:.     *)
(* Numbers are whole, in bytes or in milliseconds.                         *)
(***************************************************************************)
EXTENDS RuleTypes, Sequences, FiniteSets

CONSTANTS
  Lines,     \* the lines a file is made of
  Pattern,   \* what follows process:, for the tokens that begin so
  Numeral,   \* token -> [n, unit], for the tokens that are numbers
  MaxLines   \* bound: lines in a file

ASSUME LinesAssumption == Lines \subseteq Seq(STRING)
ASSUME NumeralAssumption ==
  \A tok \in DOMAIN Numeral : Numeral[tok].n \in Int
ASSUME BoundAssumption == MaxLines \in Nat
ASSUME PatternAssumption ==
  \A tok \in DOMAIN Pattern : Pattern[tok] \in Comms \cup {AnyComm, ""}

VARIABLES
  text,      \* the lines read so far; the loop's line_no is its length
  rules,     \* the rules accepted
  errs,      \* the errors reported, [line_no, reason]
  program    \* what main does: "reading", "started" or "exited"

vars == <<text, rules, errs, program>>

ByteMetrics == {"rss", "read_bps", "write_bps", "net_rx_bps", "net_tx_bps"}

MetricName == [tok \in SystemMetrics \cup ProcessMetrics
                         \cup {"cpu", "rss_bytes", "mem"} |->
                 IF tok = "cpu" THEN "cpu_pct"
                 ELSE IF tok \in {"rss_bytes", "mem"} THEN "rss"
                 ELSE tok]

Kilo == 1024

SizeUnit == [u \in {"", "B", "K", "KB", "M", "MB", "G", "GB"} |->
               IF u \in {"", "B"} THEN 1
               ELSE IF u \in {"K", "KB"} THEN Kilo
               ELSE IF u \in {"M", "MB"} THEN Kilo * Kilo
               ELSE Kilo * Kilo * Kilo]

Second == 1000
Minute == 60 * Second
Hour   == 60 * Minute

TimeUnit == [u \in {"", "ms", "s", "m", "h"} |->
               IF u = "ms" THEN 1
               ELSE IF u \in {"", "s"} THEN Second
               ELSE IF u = "m" THEN Minute
               ELSE Hour]

(* An Option is a set of at most one value. *)
Scaled(tok, units) ==
  {Numeral[x].n * units[Numeral[x].unit] :
     x \in {y \in {tok} \cap DOMAIN Numeral :
              Numeral[y].unit \in DOMAIN units /\ Numeral[y].n >= 0}}

ParseSize(tok)     == Scaled(tok, SizeUnit)
ParseDuration(tok) == Scaled(tok, TimeUnit)
ParsePlain(tok)    ==
  {Numeral[x].n : x \in {y \in {tok} \cap DOMAIN Numeral : Numeral[y].unit = ""}}

(* Plausible defects, each in place of a definition below. *)
DeadbandUnchecked(op, clear, threshold) == TRUE
SizeAsPlain(tok, metric) == ParsePlain(tok)

(* A byte metric takes a size, or a bare number where the size is refused. *)
ParseValue(tok, metric) ==
  IF metric \in ByteMetrics /\ ParseSize(tok) # {} THEN ParseSize(tok)
                                                   ELSE ParsePlain(tok)

The(option) == CHOOSE x \in option : TRUE

RightSide(op, clear, threshold) ==
  IF op = ">" THEN clear <= threshold ELSE clear >= threshold

-----------------------------------------------------------------------------
(* The reason a nonblank line is refused, "" when it is accepted: the      *)
(* first of the code's checks that fails.                                  *)
ClearRefusal(t, metric, threshold) ==
  IF t[9] # "clear" \/ Len(t) < 10 THEN "trailing tokens"
  ELSE IF ParseValue(t[10], metric) = {} THEN "clear value"
  ELSE IF ~RightSide(t[5], The(ParseValue(t[10], metric)), threshold)
    THEN "wrong side"
  ELSE ""

FieldRefusal(t, metric) ==
  IF t[3] # "system" /\ metric \notin ProcessMetrics THEN "system-wide"
  ELSE IF t[5] \notin {">", "<"} THEN "operator"
  ELSE IF ParseValue(t[6], metric) = {} THEN "threshold"
  ELSE IF t[7] # "for" THEN "for"
  ELSE IF ParseDuration(t[8]) = {} THEN "duration"
  ELSE IF Len(t) > 8 THEN ClearRefusal(t, metric, The(ParseValue(t[6], metric)))
  ELSE ""

Refusal(t) ==
  IF t[1] # "alert" THEN "not an alert"
  ELSE IF Len(t) < 8 THEN "too few fields"
  ELSE IF t[3] # "system" /\ t[3] \notin DOMAIN Pattern THEN "target"
  ELSE IF t[3] # "system" /\ Pattern[t[3]] = "" THEN "empty pattern"
  ELSE IF t[4] \notin DOMAIN MetricName THEN "metric"
  ELSE FieldRefusal(t, MetricName[t[4]])

(* The rule of an accepted line.  A system rule has no pattern; it carries *)
(* AnyComm here.                                                           *)
RuleOf(t) ==
  LET metric    == MetricName[t[4]]
      threshold == The(ParseValue(t[6], metric))
  IN [target    |-> IF t[3] = "system" THEN "system" ELSE "process",
      pattern   |-> IF t[3] = "system" THEN AnyComm ELSE Pattern[t[3]],
      metric    |-> metric,
      op        |-> t[5],
      threshold |-> threshold,
      clear     |-> IF Len(t) > 8 THEN The(ParseValue(t[10], metric)) ELSE threshold,
      sustain   |-> The(ParseDuration(t[8]))]

NextLine(t) ==
  /\ program = "reading"
  /\ Len(text) < MaxLines
  /\ text' = Append(text, t)

SkipBlank(t) ==
  /\ NextLine(t)
  /\ t = <<>>
  /\ UNCHANGED <<rules, errs, program>>

(* A third defect: only the first error is kept. *)
RefuseFirstOnly(t) ==
  /\ NextLine(t)
  /\ t # <<>>
  /\ Refusal(t) # ""
  /\ errs' = IF errs = <<>> THEN <<[line_no |-> 1, reason |-> Refusal(t)]>> ELSE errs
  /\ UNCHANGED <<rules, program>>

Refuse(t) ==
  /\ NextLine(t)
  /\ t # <<>>
  /\ Refusal(t) # ""
  /\ errs' = Append(errs, [line_no |-> Len(text'), reason |-> Refusal(t)])
  /\ UNCHANGED <<rules, program>>

Accept(t) ==
  /\ NextLine(t)
  /\ t # <<>>
  /\ Refusal(t) = ""
  /\ rules' = Append(rules, RuleOf(t))
  /\ UNCHANGED <<errs, program>>

(* The file has ended.  main refuses to run only when every line of it     *)
(* that says something is in error.                                        *)
ExitUnusable ==
  /\ program = "reading"
  /\ errs # <<>> /\ rules = <<>>
  /\ program' = "exited"
  /\ UNCHANGED <<text, rules, errs>>

StartProgram ==
  /\ program = "reading"
  /\ errs = <<>> \/ rules # <<>>
  /\ program' = "started"
  /\ UNCHANGED <<text, rules, errs>>

Init ==
  /\ text = <<>>
  /\ rules = <<>>
  /\ errs = <<>>
  /\ program = "reading"

Next ==
  \/ \E t \in Lines : SkipBlank(t) \/ Refuse(t) \/ Accept(t)
  \/ ExitUnusable
  \/ StartProgram

Spec == Init /\ [][Next]_vars

-----------------------------------------------------------------------------
(* The parser's state is well formed, and every rule it has accepted is    *)
(* one the engine can use: the engine's assumption on its rules.  With a   *)
(* clear boundary on the wrong side an alert would be on and off at every  *)
(* other evaluation, and a process rule on a system metric would never     *)
(* fire (rules.rs:212, 260).                                               *)
TypeOK ==
  /\ Len(text) <= MaxLines
  /\ rules \in Seq(UsableRule)
  /\ \A e \in DOMAIN errs : errs[e].line_no \in DOMAIN text
  /\ program \in {"reading", "started", "exited"}

(* No line is lost: each line that says something gave one rule or one     *)
(* error that carries its number, never both, in file order; and the       *)
(* program starts without a rule only on a file that says nothing          *)
(* (rules.rs:166-274, bin/vitals.rs:76).                                   *)
EveryLineAnswered ==
  /\ \A i, j \in DOMAIN errs : i < j => errs[i].line_no < errs[j].line_no
  /\ \A i \in DOMAIN errs : text[errs[i].line_no] # <<>>
  /\ Len(rules) + Len(errs) = Cardinality({i \in DOMAIN text : text[i] # <<>>})
  /\ program = "started" /\ rules = <<>> => \A i \in DOMAIN text : text[i] = <<>>

(* The rules a line says by the grammar in the head of rules.rs: eight     *)
(* fields, or ten with a clear value, and the product of what each says.   *)
Meant(tok, metric) ==
  LET nums == {Numeral[x] : x \in {tok} \cap DOMAIN Numeral}
  IN {num.n : num \in {x \in nums : x.unit = ""}}
     \cup {num.n * SizeUnit[num.unit] :
             num \in {x \in nums : /\ metric \in ByteMetrics
                                   /\ x.unit \in DOMAIN SizeUnit
                                   /\ x.n >= 0}}

Scopes(tok) ==
  {<<"system", AnyComm>> : x \in {tok} \cap {"system"}}
  \cup {<<"process", Pattern[x]>> : x \in {y \in {tok} \cap DOMAIN Pattern : Pattern[y] # ""}}

Metrics(tok)   == {MetricName[x] : x \in {tok} \cap DOMAIN MetricName}
Durations(tok) ==
  {Numeral[x].n * TimeUnit[Numeral[x].unit] :
     x \in {y \in {tok} \cap DOMAIN Numeral :
              Numeral[y].unit \in DOMAIN TimeUnit /\ Numeral[y].n >= 0}}

Worded(t) ==
  /\ Len(t) = 8 \/ Len(t) = 10
  /\ t[1] = "alert" /\ t[7] = "for"
  /\ Len(t) = 10 => t[9] = "clear"

Read(t, scope, metric) ==
  [target : {scope[1]}, pattern : {scope[2]}, metric : {metric},
   op : {t[5]} \cap {">", "<"},
   threshold : Meant(t[6], metric),
   clear : Meant(t[IF Len(t) = 8 THEN 6 ELSE 10], metric),
   sustain : Durations(t[8])]

Said(t) ==
  IF Worded(t)
    THEN {r \in UNION {Read(t, scope, metric) : scope \in Scopes(t[3]), metric \in Metrics(t[4])} :
            Sane(r) /\ WellScoped(r)}
    ELSE {}

(* The lines accepted, and the rule each gave. *)
Accepted  == {i \in DOMAIN text : text[i] # <<>>} \ {errs[e].line_no : e \in DOMAIN errs}
RuleAt(i) == rules[Cardinality({j \in Accepted : j <= i})]

(* A line is refused only when it says no usable rule by the grammar, and  *)
(* the rule of an accepted one is the rule the line says (rules.rs:174-    *)
(* 271), with one departure.  No line of the grammar goes on after its     *)
(* clear value, and rules.rs:250 speaks of "trailing tokens; expected      *)
(* `clear <value>`", but the code does not look that far: it accepts such  *)
(* a line and takes it for its first ten tokens.                           *)
RulesSayWhatLinesSay ==
  /\ \A e \in DOMAIN errs : Said(text[errs[e].line_no]) = {}
  /\ \A i \in Accepted :
       IF Len(text[i]) <= 10
         THEN RuleAt(i) \in Said(text[i])
         ELSE Said(text[i]) = {} /\ RuleAt(i) \in Said(SubSeq(text[i], 1, 10))
=============================================================================
