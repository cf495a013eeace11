-------------------------- MODULE RuleParserProofs --------------------------
(***************************************************************************)
(* Every rule the parser accepts is one the engine can use, every line of  *)
(* a file is answered, and as the grammar has it: whatever the lines, the  *)
(* tokens and their readings.                                              *)
(***************************************************************************)
EXTENDS RuleParser, FiniteSetTheorems, TLAPS

(* A chosen value is a member of the option it is chosen from. *)
LEMMA TheIsIn ==
  ASSUME NEW option, option # {}
  PROVE  The(option) \in option
BY DEF The

LEMMA ScaledType ==
  ASSUME NEW tok, NEW units,
         \A u \in DOMAIN units : units[u] \in Nat
  PROVE  Scaled(tok, units) \subseteq Nat
<1> SUFFICES ASSUME NEW x \in {tok} \cap DOMAIN Numeral,
                    Numeral[x].unit \in DOMAIN units, Numeral[x].n >= 0
             PROVE  Numeral[x].n * units[Numeral[x].unit] \in Nat
  BY DEF Scaled
<1>1. Numeral[x].n \in Nat
  BY NumeralAssumption
<1>2. units[Numeral[x].unit] \in Nat
  OBVIOUS
<1>3. \A a, b \in Nat : a * b \in Nat
  OBVIOUS
<1>. QED  BY <1>1, <1>2, <1>3

LEMMA ParsedType ==
  ASSUME NEW tok
  PROVE  /\ ParseDuration(tok) \subseteq Nat
         /\ \A metric : ParseValue(tok, metric) \subseteq Int
<1>1. \A u \in DOMAIN SizeUnit : SizeUnit[u] \in Nat
  <2>1. Kilo \in Nat
    BY DEF Kilo
  <2>2. \A a, b \in Nat : a * b \in Nat
    OBVIOUS
  <2>3. Kilo * Kilo \in Nat /\ Kilo * Kilo * Kilo \in Nat
    BY <2>1, <2>2
  <2>. QED  BY <2>1, <2>3 DEF SizeUnit
<1>2. \A u \in DOMAIN TimeUnit : TimeUnit[u] \in Nat
  <2>1. Second \in Nat
    BY DEF Second
  <2>2. Minute \in Nat
    BY <2>1 DEF Minute
  <2>3. Hour \in Nat
    BY <2>2 DEF Hour
  <2>. QED  BY <2>1, <2>2, <2>3 DEF TimeUnit
<1>3. ParseSize(tok) \subseteq Nat
  BY <1>1, ScaledType DEF ParseSize
<1>4. ParseDuration(tok) \subseteq Nat
  BY <1>2, ScaledType DEF ParseDuration
<1>5. ParsePlain(tok) \subseteq Int
  BY NumeralAssumption DEF ParsePlain
<1>. QED  BY <1>3, <1>4, <1>5 DEF ParseValue

LEMMA MetricType ==
  ASSUME NEW tok \in DOMAIN MetricName
  PROVE  MetricName[tok] \in SystemMetrics \cup ProcessMetrics
BY DEF MetricName, SystemMetrics, ProcessMetrics

LEMMA EqualIsRightSide ==
  ASSUME NEW op, NEW n \in Int
  PROVE  RightSide(op, n, n)
BY DEF RightSide

LEMMA UsableRecord ==
  ASSUME NEW target \in {"system", "process"}, NEW pattern \in Comms \cup {AnyComm},
         NEW metric \in SystemMetrics \cup ProcessMetrics,
         NEW op \in {">", "<"}, NEW threshold \in Int, NEW clear \in Int,
         NEW sustain \in Nat,
         target = "process" => metric \in ProcessMetrics,
         RightSide(op, clear, threshold)
  PROVE  [target |-> target, pattern |-> pattern, metric |-> metric, op |-> op,
          threshold |-> threshold, clear |-> clear, sustain |-> sustain] \in UsableRule
BY DEF UsableRule, Rule, Sane, WellScoped, RightSide

(* The rule of a line that passes every check is usable. *)
LEMMA RuleOfType ==
  ASSUME NEW t, Refusal(t) = ""
  PROVE  RuleOf(t) \in UsableRule
<1>. DEFINE met == MetricName[t[4]]
            thr == The(ParseValue(t[6], met))
            clr == The(ParseValue(t[10], met))
<1>1. /\ t[3] # "system" => t[3] \in DOMAIN Pattern /\ Pattern[t[3]] # ""
      /\ t[4] \in DOMAIN MetricName
      /\ FieldRefusal(t, met) = ""
  BY DEF Refusal
<1>2. /\ t[3] # "system" => met \in ProcessMetrics
      /\ t[5] \in {">", "<"}
      /\ ParseValue(t[6], met) # {}
      /\ ParseDuration(t[8]) # {}
      /\ Len(t) > 8 => ClearRefusal(t, met, thr) = ""
  BY <1>1 DEF FieldRefusal
<1>3. met \in SystemMetrics \cup ProcessMetrics
  BY <1>1, MetricType
<1>4. thr \in Int
  BY <1>2, TheIsIn, ParsedType
<1>5. The(ParseDuration(t[8])) \in Nat
  BY <1>2, TheIsIn, ParsedType
<1>6. ASSUME Len(t) > 8
      PROVE  clr \in Int /\ RightSide(t[5], clr, thr)
  <2>1. ParseValue(t[10], met) # {} /\ RightSide(t[5], clr, thr)
    BY <1>2, <1>6 DEF ClearRefusal
  <2>. QED  BY <2>1, TheIsIn, ParsedType
<1>7. RightSide(t[5], thr, thr)
  BY <1>4, EqualIsRightSide
<1>8. t[3] # "system" => Pattern[t[3]] \in Comms \cup {AnyComm}
  BY <1>1, PatternAssumption
<1>9. RuleOf(t) =
        [target    |-> IF t[3] = "system" THEN "system" ELSE "process",
         pattern   |-> IF t[3] = "system" THEN AnyComm ELSE Pattern[t[3]],
         metric    |-> met,
         op        |-> t[5],
         threshold |-> thr,
         clear     |-> IF Len(t) > 8 THEN clr ELSE thr,
         sustain   |-> The(ParseDuration(t[8]))]
  BY DEF RuleOf
<1>. DEFINE target  == IF t[3] = "system" THEN "system" ELSE "process"
            pattern == IF t[3] = "system" THEN AnyComm ELSE Pattern[t[3]]
            clear   == IF Len(t) > 8 THEN clr ELSE thr
<1>. HIDE DEF met, thr, clr
<1>10. /\ target \in {"system", "process"}
       /\ target = "process" => met \in ProcessMetrics
       /\ pattern \in Comms \cup {AnyComm}
  BY <1>2, <1>8
<1>11. clear \in Int /\ RightSide(t[5], clear, thr)
  <2>1. CASE Len(t) > 8
    BY <2>1, <1>6
  <2>2. CASE ~(Len(t) > 8)
    BY <2>2, <1>4, <1>7
  <2>. QED  BY <2>1, <2>2
<1>12. RuleOf(t) = [target |-> target, pattern |-> pattern, metric |-> met,
                    op |-> t[5], threshold |-> thr, clear |-> clear,
                    sustain |-> The(ParseDuration(t[8]))]
  BY <1>9
<1>13. t[5] \in {">", "<"}
  BY <1>2
<1>. DEFINE op == t[5]  sustain == The(ParseDuration(t[8]))
<1>. HIDE DEF target, pattern, clear, op, sustain
<1>14. op \in {">", "<"} /\ sustain \in Nat /\ RightSide(op, clear, thr)
  BY <1>5, <1>11, <1>13 DEF op, sustain
<1>15. [target |-> target, pattern |-> pattern, metric |-> met, op |-> op,
        threshold |-> thr, clear |-> clear, sustain |-> sustain] \in UsableRule
  BY <1>3, <1>4, <1>10, <1>11, <1>14, UsableRecord
<1>. QED  BY <1>12, <1>15 DEF op, sustain

-----------------------------------------------------------------------------
IInv ==
  /\ text \in Seq(Lines)
  /\ errs \in Seq([line_no : Nat, reason : {Refusal(t) : t \in Lines}])
  /\ TypeOK

LEMMA IInvInit == Init => IInv
BY BoundAssumption DEF Init, IInv, TypeOK

LEMMA IInvNext == IInv /\ [Next]_vars => IInv'
<1> SUFFICES ASSUME IInv, [Next]_vars PROVE IInv'
  OBVIOUS
<1>. USE DEF IInv, TypeOK
<1>1. ASSUME NEW t \in Lines, NextLine(t)
      PROVE  /\ text' \in Seq(Lines)
             /\ Len(text') <= MaxLines
             /\ DOMAIN text' = 1 .. Len(text) + 1
             /\ Len(text') = Len(text) + 1
             /\ DOMAIN text = 1 .. Len(text) /\ Len(text) \in Nat
  BY <1>1, BoundAssumption DEF NextLine
<1>2. ASSUME NEW t \in Lines, SkipBlank(t) PROVE IInv'
  BY <1>2, <1>1 DEF SkipBlank
<1>3. ASSUME NEW t \in Lines, Refuse(t) PROVE IInv'
  <2>. DEFINE e == [line_no |-> Len(text'), reason |-> Refusal(t)]
  <2>1. NextLine(t) /\ errs' = Append(errs, e) /\ UNCHANGED <<rules, program>>
    BY <1>3 DEF Refuse
  <2>2. e \in [line_no : Nat, reason : {Refusal(x) : x \in Lines}]
    BY <2>1, <1>1
  <2>3. e.line_no \in DOMAIN text'
    BY <2>1, <1>1
  <2>. HIDE DEF e
  <2>4. errs' \in Seq([line_no : Nat, reason : {Refusal(x) : x \in Lines}])
    BY <2>1, <2>2
  <2>5. \A i \in DOMAIN errs' : errs'[i].line_no \in DOMAIN text'
    <3>. SUFFICES ASSUME NEW i \in DOMAIN errs' PROVE errs'[i].line_no \in DOMAIN text'
      OBVIOUS
    <3>1. i \in DOMAIN errs \/ i = Len(errs) + 1
      BY <2>1, <2>2
    <3>2. CASE i \in DOMAIN errs
      BY <3>2, <2>1, <2>2, <1>1
    <3>3. CASE i = Len(errs) + 1
      BY <3>3, <2>1, <2>2, <2>3
    <3>. QED  BY <3>1, <3>2, <3>3
  <2>. QED  BY <2>1, <2>4, <2>5, <1>1
<1>4. ASSUME NEW t \in Lines, Accept(t) PROVE IInv'
  <2>1. NextLine(t) /\ rules' = Append(rules, RuleOf(t)) /\ UNCHANGED <<errs, program>>
    BY <1>4 DEF Accept
  <2>2. RuleOf(t) \in UsableRule
    BY <1>4, RuleOfType DEF Accept
  <2>3. rules' \in Seq(UsableRule)
    BY <2>1, <2>2
  <2>4. \A i \in DOMAIN errs' : errs'[i].line_no \in DOMAIN text'
    BY <2>1, <1>1
  <2>. QED  BY <2>1, <2>3, <2>4, <1>1
<1>5. CASE ExitUnusable
  BY <1>5 DEF ExitUnusable
<1>6. CASE StartProgram
  BY <1>6 DEF StartProgram
<1>7. CASE UNCHANGED vars
  BY <1>7 DEF vars
<1>. QED  BY <1>2, <1>3, <1>4, <1>5, <1>6, <1>7 DEF Next

(* What the engine assumes of its rules holds of every rule file that      *)
(* parse_rules reads: an accepted rule clears on the right side of its     *)
(* threshold, and a process rule reads a metric a process has.             *)
THEOREM AcceptedRulesAreUsable == Spec => []TypeOK
<1>1. IInv => TypeOK
  BY DEF IInv
<1>. QED  BY <1>1, IInvInit, IInvNext, PTL DEF Spec
-----------------------------------------------------------------------------
(* The lines that say something, and the answers given to them so far. *)
Spoken == {i \in DOMAIN text : text[i] # <<>>}

AInv ==
  /\ IInv
  /\ \A i, j \in DOMAIN errs : i < j => errs[i].line_no < errs[j].line_no
  /\ \A i \in DOMAIN errs : text[errs[i].line_no] # <<>>
  /\ Len(rules) + Len(errs) = Cardinality(Spoken)
  /\ program = "started" => errs = <<>> \/ rules # <<>>

LEMMA SpokenFinite ==
  ASSUME text \in Seq(Lines)
  PROVE  IsFiniteSet(Spoken) /\ Cardinality(Spoken) \in Nat
<1>1. IsFiniteSet(1 .. Len(text)) /\ Spoken \in SUBSET (1 .. Len(text))
  BY FS_Interval DEF Spoken
<1>. QED  BY <1>1, FS_Subset, FS_CardinalityType

LEMMA OneMoreLine ==
  ASSUME text \in Seq(Lines), NEW t \in Lines, NextLine(t)
  PROVE  /\ t = <<>> => Spoken' = Spoken
         /\ t # <<>> => Cardinality(Spoken') = Cardinality(Spoken) + 1
         /\ \A i \in DOMAIN text : text'[i] = text[i]
         /\ text'[Len(text')] = t /\ Len(text') = Len(text) + 1 /\ DOMAIN text = 1 .. Len(text)
<1>1. /\ DOMAIN text' = DOMAIN text \cup {Len(text) + 1} /\ Len(text) + 1 \notin DOMAIN text
      /\ \A i \in DOMAIN text : text'[i] = text[i]
      /\ text'[Len(text) + 1] = t /\ Len(text') = Len(text) + 1 /\ DOMAIN text = 1 .. Len(text)
  BY DEF NextLine
<1>2. t = <<>> => Spoken' = Spoken
  BY <1>1 DEF Spoken
<1>3. ASSUME t # <<>> PROVE Cardinality(Spoken') = Cardinality(Spoken) + 1
  <2>1. Spoken' = Spoken \cup {Len(text) + 1} /\ Len(text) + 1 \notin Spoken
    BY <1>1, <1>3 DEF Spoken
  <2>. QED  BY <2>1, SpokenFinite, FS_AddElement
<1>. QED  BY <1>1, <1>2, <1>3

LEMMA AInvInit == Init => AInv
<1>. SUFFICES ASSUME Init PROVE AInv
  OBVIOUS
<1>1. Spoken = {}
  BY DEF Init, Spoken
<1>2. Cardinality(Spoken) = 0
  BY <1>1, FS_EmptySet
<1>. QED  BY <1>2, IInvInit DEF Init, AInv

LEMMA AInvNext == AInv /\ [Next]_vars => AInv'
<1>. SUFFICES ASSUME AInv, [Next]_vars PROVE AInv'
  OBVIOUS
<1>0. IInv'
  BY IInvNext DEF AInv
<1>. text \in Seq(Lines) /\ Len(rules) \in Nat /\ Len(errs) \in Nat /\ Cardinality(Spoken) \in Nat
  BY SpokenFinite DEF AInv, IInv, TypeOK
<1>1. ASSUME NEW t \in Lines, SkipBlank(t) PROVE AInv'
  <2>1. NextLine(t) /\ t = <<>> /\ UNCHANGED <<rules, errs, program>>
    BY <1>1 DEF SkipBlank
  <2>2. \A i \in DOMAIN errs : errs[i].line_no \in DOMAIN text
    BY DEF AInv, IInv, TypeOK
  <2>. QED  BY <1>0, <2>1, <2>2, OneMoreLine DEF AInv
<1>2. ASSUME NEW t \in Lines, Refuse(t) PROVE AInv'
  <2>. DEFINE e == [line_no |-> Len(text'), reason |-> Refusal(t)]
  <2>1. /\ NextLine(t) /\ t # <<>> /\ errs' = Append(errs, e)
        /\ UNCHANGED <<rules, program>> /\ program = "reading"
    BY <1>2 DEF Refuse, NextLine
  <2>2. /\ Len(text') = Len(text) + 1 /\ text'[Len(text')] = t /\ DOMAIN text = 1 .. Len(text)
        /\ \A i \in DOMAIN text : text'[i] = text[i]
    BY <2>1, OneMoreLine
  <2>3. Cardinality(Spoken') = Cardinality(Spoken) + 1
    BY <2>1, OneMoreLine
  <2>4. e.line_no = Len(text) + 1
    BY <2>2
  <2>. HIDE DEF e
  <2>5. /\ Len(errs') = Len(errs) + 1 /\ DOMAIN errs' = 1 .. Len(errs) + 1 /\ DOMAIN errs = 1 .. Len(errs)
        /\ errs'[Len(errs) + 1] = e /\ \A i \in 1 .. Len(errs) : errs'[i] = errs[i]
    BY <2>1 DEF AInv, IInv
  <2>6. \A i \in 1 .. Len(errs) : errs[i].line_no \in 1 .. Len(text)
    BY <2>2, <2>5 DEF AInv, IInv, TypeOK
  <2>7. \A i, j \in DOMAIN errs' : i < j => errs'[i].line_no < errs'[j].line_no
    <3>. SUFFICES ASSUME NEW i \in 1 .. Len(errs) + 1, NEW j \in 1 .. Len(errs) + 1, i < j
                  PROVE  errs'[i].line_no < errs'[j].line_no
      BY <2>5
    <3>1. i \in 1 .. Len(errs)
      OBVIOUS
    <3>2. CASE j = Len(errs) + 1
      BY <2>4, <2>5, <2>6, <3>1, <3>2
    <3>3. CASE j \in 1 .. Len(errs)
      BY <2>5, <3>1, <3>3 DEF AInv
    <3>. QED  BY <3>2, <3>3
  <2>8. \A i \in DOMAIN errs' : text'[errs'[i].line_no] # <<>>
    <3>. SUFFICES ASSUME NEW i \in 1 .. Len(errs) + 1 PROVE text'[errs'[i].line_no] # <<>>
      BY <2>5
    <3>1. CASE i = Len(errs) + 1
      BY <2>1, <2>2, <2>4, <2>5, <3>1
    <3>2. CASE i \in 1 .. Len(errs)
      BY <2>2, <2>5, <2>6, <3>2 DEF AInv
    <3>. QED  BY <3>1, <3>2
  <2>. QED  BY <1>0, <2>1, <2>3, <2>5, <2>7, <2>8 DEF AInv
<1>3. ASSUME NEW t \in Lines, Accept(t) PROVE AInv'
  <2>1. /\ NextLine(t) /\ t # <<>> /\ rules' = Append(rules, RuleOf(t))
        /\ UNCHANGED <<errs, program>> /\ program = "reading"
    BY <1>3 DEF Accept, NextLine
  <2>2. Len(rules') = Len(rules) + 1
    <3>1. RuleOf(t) \in UsableRule
      BY <1>3, RuleOfType DEF Accept
    <3>2. rules \in Seq(UsableRule)
      BY DEF AInv, IInv, TypeOK
    <3>. QED  BY <2>1, <3>1, <3>2
  <2>3. \A i \in DOMAIN errs : errs[i].line_no \in DOMAIN text
    BY DEF AInv, IInv, TypeOK
  <2>. QED  BY <1>0, <2>1, <2>2, <2>3, OneMoreLine DEF AInv
<1>4. CASE ExitUnusable \/ StartProgram \/ UNCHANGED vars
  <2>1. UNCHANGED <<text, rules, errs>>
    BY <1>4 DEF ExitUnusable, StartProgram, vars
  <2>. QED  BY <1>0, <1>4, <2>1 DEF AInv, Spoken, ExitUnusable, StartProgram, vars
<1>. QED  BY <1>1, <1>2, <1>3, <1>4 DEF Next

(* However many lines the file has, each that says something is accepted   *)
(* or refused, never both and never neither, and the program starts with   *)
(* no rule only on a file of blank lines (rules.rs, parse_rules; main).    *)
THEOREM LinesAreAnswered == Spec => []EveryLineAnswered
<1>1. AInv => EveryLineAnswered
  <2>. SUFFICES ASSUME AInv, program = "started", rules = <<>>
                PROVE  \A i \in DOMAIN text : text[i] = <<>>
    BY DEF AInv, EveryLineAnswered, Spoken
  <2>1. Len(errs) = 0 /\ Len(rules) = 0
    BY DEF AInv
  <2>2. Cardinality(Spoken) = 0 /\ IsFiniteSet(Spoken)
    BY <2>1, SpokenFinite DEF AInv, IInv
  <2>. QED  BY <2>2, FS_EmptySet DEF Spoken
<1>. QED  BY <1>1, AInvInit, AInvNext, PTL DEF Spec

-----------------------------------------------------------------------------
(* A token is read as at most one value, and as what the grammar says. *)
LEMMA AtMostOne ==
  ASSUME NEW tok, NEW units
  PROVE  /\ \A a, b \in Scaled(tok, units) : a = b
         /\ \A a, b \in ParsePlain(tok) : a = b
BY DEF Scaled, ParsePlain

LEMMA OneValue ==
  ASSUME NEW tok, NEW metric
  PROVE  /\ \A a, b \in ParseValue(tok, metric) : a = b
         /\ \A a, b \in ParseDuration(tok) : a = b
BY AtMostOne DEF ParseValue, ParseSize, ParseDuration

LEMMA ParseIsMeant ==
  ASSUME NEW tok, NEW metric
  PROVE  ParseValue(tok, metric) = Meant(tok, metric)
<1>. DEFINE unit == Numeral[tok].unit
            n    == Numeral[tok].n
<1>1. CASE tok \notin DOMAIN Numeral
  BY <1>1 DEF ParseValue, ParseSize, ParsePlain, Scaled, Meant
<1>2. CASE tok \in DOMAIN Numeral
  <2>1. n \in Int /\ SizeUnit[""] = 1
    BY <1>2, NumeralAssumption DEF SizeUnit
  <2>2. ParsePlain(tok) = IF unit = "" THEN {n} ELSE {}
    BY <1>2 DEF ParsePlain
  <2>3. ParseSize(tok) = IF unit \in DOMAIN SizeUnit /\ n >= 0 THEN {n * SizeUnit[unit]} ELSE {}
    BY <1>2 DEF ParseSize, Scaled
  <2>4. Meant(tok, metric) =
          (IF unit = "" THEN {n} ELSE {})
          \cup (IF metric \in ByteMetrics /\ unit \in DOMAIN SizeUnit /\ n >= 0
                  THEN {n * SizeUnit[unit]} ELSE {})
    BY <1>2 DEF Meant
  <2>5. unit = "" => n * SizeUnit[unit] = n
    <3>1. \A k \in Int : k * 1 = k
      OBVIOUS
    <3>. QED  BY <2>1, <3>1
  <2>. HIDE DEF unit, n
  <2>. DEFINE size == n * SizeUnit[unit]
  <2>. HIDE DEF size
  <2>6. unit = "" => size = n
    BY <2>5 DEF size
  <2>. QED  BY <2>2, <2>3, <2>4, <2>6 DEF ParseValue, size
<1>. QED  BY <1>1, <1>2

(* The checks of the parser, all of them passed. *)
Passes(t) ==
  LET metric == MetricName[t[4]] IN
  /\ t[1] = "alert" /\ Len(t) >= 8
  /\ t[3] # "system" => t[3] \in DOMAIN Pattern /\ Pattern[t[3]] # "" /\ metric \in ProcessMetrics
  /\ t[4] \in DOMAIN MetricName
  /\ t[5] \in {">", "<"}
  /\ ParseValue(t[6], metric) # {}
  /\ t[7] = "for"
  /\ ParseDuration(t[8]) # {}
  /\ Len(t) > 8 =>
       /\ t[9] = "clear" /\ Len(t) >= 10
       /\ ParseValue(t[10], metric) # {}
       /\ RightSide(t[5], The(ParseValue(t[10], metric)), The(ParseValue(t[6], metric)))

LEMMA RefusedUnlessPasses ==
  ASSUME NEW t, Len(t) \in Nat
  PROVE  Refusal(t) = "" <=> Passes(t)
<1>1. \A metric, threshold :
        ClearRefusal(t, metric, threshold) = "" <=>
          /\ t[9] = "clear" /\ Len(t) >= 10
          /\ ParseValue(t[10], metric) # {}
          /\ RightSide(t[5], The(ParseValue(t[10], metric)), threshold)
  BY DEF ClearRefusal
<1>2. \A metric :
        FieldRefusal(t, metric) = "" <=>
          /\ t[3] # "system" => metric \in ProcessMetrics
          /\ t[5] \in {">", "<"}
          /\ ParseValue(t[6], metric) # {}
          /\ t[7] = "for"
          /\ ParseDuration(t[8]) # {}
          /\ Len(t) > 8 => ClearRefusal(t, metric, The(ParseValue(t[6], metric))) = ""
  BY DEF FieldRefusal
<1>. DEFINE Long   == Len(t) >= 8
            Named  == t[3] # "system" => t[3] \in DOMAIN Pattern /\ Pattern[t[3]] # ""
            Fields == FieldRefusal(t, MetricName[t[4]])
<1>3. Refusal(t) = IF t[1] # "alert" THEN "not an alert"
                   ELSE IF ~ Long THEN "too few fields"
                   ELSE IF ~ Named THEN IF t[3] \notin DOMAIN Pattern THEN "target" ELSE "empty pattern"
                   ELSE IF t[4] \notin DOMAIN MetricName THEN "metric"
                   ELSE Fields
  <2>1. Long <=> ~ (Len(t) < 8)
    OBVIOUS
  <2>2. Named <=> ~ (t[3] # "system" /\ t[3] \notin DOMAIN Pattern)
                  /\ ~ (t[3] # "system" /\ Pattern[t[3]] = "")
    OBVIOUS
  <2>. HIDE DEF Long, Named
  <2>3. Refusal(t) = IF t[1] # "alert" THEN "not an alert"
                     ELSE IF ~ Long THEN "too few fields"
                     ELSE IF t[3] # "system" /\ t[3] \notin DOMAIN Pattern THEN "target"
                     ELSE IF t[3] # "system" /\ Pattern[t[3]] = "" THEN "empty pattern"
                     ELSE IF t[4] \notin DOMAIN MetricName THEN "metric"
                     ELSE Fields
    BY <2>1 DEF Refusal
  <2>. QED  BY <2>2, <2>3 DEF Named
<1>. HIDE DEF Long, Named, Fields
<1>4. Refusal(t) = "" <=> t[1] = "alert" /\ Long /\ Named /\ t[4] \in DOMAIN MetricName /\ Fields = ""
  BY <1>3
<1>. QED  BY <1>1, <1>2, <1>4 DEF Passes, Long, Named, Fields

(* The rules a line says, one field at a time. *)
LEMMA SaidIs ==
  ASSUME NEW t, Len(t) \in Nat, NEW r
  PROVE  r \in Said(t) <=>
           /\ Worded(t) /\ Sane(r) /\ WellScoped(r)
           /\ t[4] \in DOMAIN MetricName
           /\ \E scope \in Scopes(t[3]) : r \in Read(t, scope, MetricName[t[4]])
<1>1. \A metric : metric \in Metrics(t[4]) <=>
                    t[4] \in DOMAIN MetricName /\ metric = MetricName[t[4]]
  BY DEF Metrics
<1>2. r \in Said(t) <=>
        /\ Worded(t) /\ Sane(r) /\ WellScoped(r)
        /\ \E scope \in Scopes(t[3]), metric \in Metrics(t[4]) : r \in Read(t, scope, metric)
  BY DEF Said
<1>. QED  BY <1>1, <1>2

LEMMA ScopesOf ==
  ASSUME NEW tok, NEW scope
  PROVE  scope \in Scopes(tok) <=>
           \/ tok = "system" /\ scope = <<"system", AnyComm>>
           \/ tok \in DOMAIN Pattern /\ Pattern[tok] # "" /\ scope = <<"process", Pattern[tok]>>
BY DEF Scopes

(* Eight fields, or ten, or more. *)
LEMMA Counting ==
  ASSUME NEW n \in Nat
  PROVE  /\ (n = 8 \/ n >= 10) => n >= 8
         /\ n > 8 => n # 8
         /\ (n = 8 \/ n >= 10) /\ n > 8 => n >= 10
         /\ n >= 8 /\ ~ (n > 8) => n = 8
         /\ n >= 10 => n > 8
         /\ n >= 8 /\ (n > 8 => n >= 10) /\ n <= 10 => n = 8 \/ n = 10
         /\ n = 10 => n >= 10
         /\ n > 10 => n # 8 /\ n # 10 /\ n >= 10
         /\ ~ (n <= 10) => n > 10
         /\ n = 10 => n > 8 /\ n >= 8 /\ n <= 10
OBVIOUS

(* A line that passes every check says the rule it is read as. *)
LEMMA PassingIsSaid ==
  ASSUME NEW t, Len(t) \in Nat, Len(t) <= 10, Passes(t)
  PROVE  RuleOf(t) \in Said(t)
<1>. DEFINE metric == MetricName[t[4]]
            scope  == IF t[3] = "system" THEN <<"system", AnyComm>> ELSE <<"process", Pattern[t[3]]>>
            thr    == The(ParseValue(t[6], metric))
            clr    == The(ParseValue(t[10], metric))
            rule   == RuleOf(t)
<1>. USE DEF Passes
<1>1. scope \in Scopes(t[3]) /\ scope[1] \in {"system", "process"}
  BY ScopesOf
<1>2. /\ rule.target = scope[1] /\ rule.pattern = scope[2] /\ rule.metric = metric
      /\ rule.op = t[5] /\ rule.threshold = thr
      /\ rule.clear = IF Len(t) > 8 THEN clr ELSE thr
      /\ rule.sustain = The(ParseDuration(t[8]))
  BY DEF RuleOf
<1>3. /\ thr \in Meant(t[6], metric) /\ thr \in Int
      /\ rule.sustain \in Durations(t[8])
  <2>1. thr \in ParseValue(t[6], metric) /\ The(ParseDuration(t[8])) \in ParseDuration(t[8])
    BY TheIsIn
  <2>2. ParseDuration(t[8]) = Durations(t[8])
    BY DEF ParseDuration, Scaled, Durations
  <2>. QED  BY <1>2, <2>1, <2>2, ParseIsMeant, ParsedType
<1>4. /\ rule.clear \in Meant(t[IF Len(t) = 8 THEN 6 ELSE 10], metric)
      /\ RightSide(t[5], rule.clear, thr)
  <2>1. CASE Len(t) > 8
    <3>1. ParseValue(t[10], metric) # {} /\ RightSide(t[5], clr, thr)
      BY <2>1
    <3>2. clr \in Meant(t[10], metric)
      BY <3>1, TheIsIn, ParseIsMeant
    <3>3. rule.clear = clr
      BY <1>2, <2>1
    <3>4. Len(t) # 8
      BY <2>1, Counting
    <3>. QED  BY <3>1, <3>2, <3>3, <3>4
  <2>2. CASE ~ (Len(t) > 8)
    <3>1. Len(t) = 8
      BY <2>2, Counting
    <3>2. rule.clear = thr
      BY <1>2, <2>2
    <3>. QED  BY <1>3, <3>1, <3>2, EqualIsRightSide
  <2>. QED  BY <2>1, <2>2
<1>5. Worded(t)
  <2>1. Len(t) = 8 \/ Len(t) = 10
    BY Counting
  <2>2. Len(t) = 10 => t[9] = "clear"
    BY Counting
  <2>. QED  BY <2>1, <2>2 DEF Worded
<1>6. /\ scope[1] = "process" => metric \in ProcessMetrics
      /\ t[5] \in {">", "<"} /\ t[4] \in DOMAIN MetricName
  BY ScopesOf
<1>. DEFINE clear   == rule.clear
            sustain == rule.sustain
            target  == scope[1]
            pattern == scope[2]
<1>7. rule = [target |-> target, pattern |-> pattern, metric |-> metric, op |-> t[5],
              threshold |-> thr, clear |-> clear, sustain |-> sustain]
  BY DEF RuleOf
<1>. HIDE DEF metric, scope, thr, clr, rule, Passes, target, pattern, clear, sustain
<1>8. rule \in Read(t, scope, metric)
  <2>1. /\ thr \in Meant(t[6], metric) /\ sustain \in Durations(t[8])
        /\ clear \in Meant(t[IF Len(t) = 8 THEN 6 ELSE 10], metric)
        /\ t[5] \in {t[5]} \cap {">", "<"}
        /\ target \in {scope[1]} /\ pattern \in {scope[2]}
    BY <1>3, <1>4, <1>6 DEF target, pattern, clear, sustain
  <2>. QED  BY <1>7, <2>1 DEF Read
<1>9. Sane(rule) /\ WellScoped(rule)
  BY <1>2, <1>4, <1>6 DEF Sane, WellScoped, RightSide
<1>10. rule \in Said(t)
  BY <1>1, <1>5, <1>6, <1>8, <1>9, SaidIs DEF metric
<1>. QED  BY <1>10 DEF rule

(* A line that says a rule passes every check. *)
LEMMA SaidPasses ==
  ASSUME NEW t, Len(t) \in Nat, NEW r \in Said(t)
  PROVE  Passes(t)
<1>. DEFINE metric == MetricName[t[4]]
<1>1. /\ Worded(t) /\ Sane(r) /\ WellScoped(r) /\ t[4] \in DOMAIN MetricName
  BY SaidIs
<1>2. PICK scope \in Scopes(t[3]) : r \in Read(t, scope, metric)
  BY SaidIs
<1>. HIDE DEF metric
<1>3. /\ r.target = scope[1] /\ r.op = t[5] /\ t[5] \in {">", "<"}
      /\ r.metric = metric
      /\ r.threshold \in Meant(t[6], metric) /\ r.sustain \in Durations(t[8])
      /\ r.clear \in Meant(t[IF Len(t) = 8 THEN 6 ELSE 10], metric)
  BY <1>2 DEF Read
<1>4. ASSUME t[3] # "system"
      PROVE  t[3] \in DOMAIN Pattern /\ Pattern[t[3]] # "" /\ r.target = "process"
  <2>1. t[3] \in DOMAIN Pattern /\ Pattern[t[3]] # "" /\ scope = <<"process", Pattern[t[3]]>>
    BY <1>2, <1>4, ScopesOf
  <2>. QED  BY <1>3, <2>1
<1>5. t[3] # "system" => metric \in ProcessMetrics
  BY <1>1, <1>3, <1>4 DEF WellScoped
<1>6. /\ ParseValue(t[6], metric) # {} /\ The(ParseValue(t[6], metric)) = r.threshold
      /\ ParseDuration(t[8]) # {}
  <2>1. r.threshold \in ParseValue(t[6], metric) /\ r.sustain \in ParseDuration(t[8])
    BY <1>3, ParseIsMeant DEF Durations, ParseDuration, Scaled
  <2>2. The(ParseValue(t[6], metric)) \in ParseValue(t[6], metric)
    BY <2>1, TheIsIn
  <2>. QED  BY <2>1, <2>2, OneValue
<1>7. RightSide(r.op, r.clear, r.threshold)
  BY <1>1, <1>3 DEF Sane, RightSide
<1>8. /\ t[1] = "alert" /\ t[7] = "for" /\ (Len(t) = 8 \/ Len(t) = 10)
      /\ Len(t) = 10 => t[9] = "clear"
  BY <1>1 DEF Worded
<1>9. ASSUME Len(t) > 8
      PROVE  /\ t[9] = "clear" /\ Len(t) >= 10
             /\ ParseValue(t[10], metric) # {}
             /\ RightSide(t[5], The(ParseValue(t[10], metric)), The(ParseValue(t[6], metric)))
  <2>1. Len(t) # 8 /\ Len(t) = 10 /\ Len(t) >= 10
    BY <1>8, <1>9, Counting
  <2>2. r.clear \in ParseValue(t[10], metric)
    BY <1>3, <2>1, ParseIsMeant
  <2>3. The(ParseValue(t[10], metric)) = r.clear
    BY <2>2, TheIsIn, OneValue
  <2>. QED  BY <1>3, <1>6, <1>7, <1>8, <2>1, <2>2, <2>3
<1>10. Len(t) >= 8
  BY <1>8, Counting
<1>. QED  BY <1>1, <1>3, <1>4, <1>5, <1>6, <1>8, <1>9, <1>10 DEF Passes, metric

(* The parser's verdict on a line is the grammar's, up to the tail of a    *)
(* line that goes on after its clear value.                                *)
LEMMA VerdictIsTheGrammars ==
  ASSUME NEW t, Len(t) \in Nat
  PROVE  /\ Refusal(t) = "" /\ Len(t) <= 10 => RuleOf(t) \in Said(t)
         /\ Len(t) > 10 => Said(t) = {}
         /\ Refusal(t) # "" => Said(t) = {}
<1>1. Refusal(t) = "" /\ Len(t) <= 10 => RuleOf(t) \in Said(t)
  BY RefusedUnlessPasses, PassingIsSaid
<1>2. ASSUME Refusal(t) # "", NEW r \in Said(t) PROVE FALSE
  BY <1>2, RefusedUnlessPasses, SaidPasses
<1>3. ASSUME Len(t) > 10 PROVE Said(t) = {}
  <2>1. Len(t) # 8 /\ Len(t) # 10
    BY <1>3, Counting
  <2>2. ~ Worded(t)
    BY <2>1 DEF Worded
  <2>. QED  BY <2>2 DEF Said
<1>. QED  BY <1>1, <1>2, <1>3

(* The first ten of a longer sequence. *)
LEMMA FirstTen ==
  ASSUME NEW S, NEW seq \in Seq(S), Len(seq) > 10
  PROVE  LET u == SubSeq(seq, 1, 10) IN
         /\ Len(u) = 10
         /\ u[1] = seq[1] /\ u[3] = seq[3] /\ u[4] = seq[4] /\ u[5] = seq[5] /\ u[6] = seq[6]
         /\ u[7] = seq[7] /\ u[8] = seq[8] /\ u[9] = seq[9] /\ u[10] = seq[10]
<1>. DEFINE u == SubSeq(seq, 1, 10)
<1>1. Len(u) = 10 /\ \A i \in 1 .. 10 : u[i] = seq[i]
  OBVIOUS
<1>2. \A i \in {1, 3, 4, 5, 6, 7, 8, 9, 10} : i \in 1 .. 10
  OBVIOUS
<1>. HIDE DEF u
<1>. QED  BY <1>1, <1>2 DEF u

(* What follows the tenth token is not looked at. *)
LEMMA TailIgnored ==
  ASSUME NEW S, NEW t \in Seq(S), Len(t) \in Nat, Len(t) > 10, Refusal(t) = ""
  PROVE  RuleOf(t) \in Said(SubSeq(t, 1, 10))
<1>. DEFINE u == SubSeq(t, 1, 10)
<1>1. /\ Len(u) = 10
      /\ u[1] = t[1] /\ u[3] = t[3] /\ u[4] = t[4] /\ u[5] = t[5] /\ u[6] = t[6]
      /\ u[7] = t[7] /\ u[8] = t[8] /\ u[9] = t[9] /\ u[10] = t[10]
  BY FirstTen
<1>. HIDE DEF u
<1>2. Len(u) \in Nat /\ Len(u) > 8 /\ Len(t) > 8 /\ Len(u) >= 10 /\ Len(u) >= 8 /\ Len(u) <= 10
  <2>1. 10 \in Nat /\ Len(u) = 10
    BY <1>1
  <2>. QED  BY <2>1, Counting
<1>3. Passes(t)
  BY RefusedUnlessPasses
<1>4. Passes(u)
  BY <1>1, <1>2, <1>3 DEF Passes
<1>5. RuleOf(u) = RuleOf(t)
  BY <1>1, <1>2 DEF RuleOf
<1>6. RuleOf(u) \in Said(u)
  BY <1>2, <1>4, PassingIsSaid
<1>. QED  BY <1>5, <1>6 DEF u

-----------------------------------------------------------------------------
(* The lines refused and accepted so far, and the place of a line among    *)
(* the accepted ones.                                                      *)
Refused  == {errs[e].line_no : e \in DOMAIN errs}
Upto(i)  == {j \in Accepted : j <= i}

(* The rule of an accepted line: what it says, or what its first ten tokens do. *)
Heeded(r, t) ==
  IF Len(t) <= 10 THEN r \in Said(t) ELSE Said(t) = {} /\ r \in Said(SubSeq(t, 1, 10))

RInv ==
  /\ AInv
  /\ \A i \in Refused : Said(text[i]) = {}
  /\ Len(rules) = Cardinality(Accepted)
  /\ \A i \in Accepted : Heeded(rules[Cardinality(Upto(i))], text[i])

LEMMA Appended ==
  ASSUME NEW S, NEW seq \in Seq(S), NEW x \in S
  PROVE  /\ Append(seq, x) \in Seq(S) /\ Len(Append(seq, x)) = Len(seq) + 1
         /\ DOMAIN Append(seq, x) = (1 .. Len(seq)) \cup {Len(seq) + 1}
         /\ Append(seq, x)[Len(seq) + 1] = x
         /\ \A i \in 1 .. Len(seq) : Append(seq, x)[i] = seq[i]
OBVIOUS

LEMMA AcceptedFinite ==
  ASSUME IInv
  PROVE  /\ IsFiniteSet(Accepted) /\ Accepted \subseteq 1 .. Len(text) /\ Refused \subseteq 1 .. Len(text)
         /\ Cardinality(Accepted) \in Nat
         /\ \A i \in Accepted : Cardinality(Upto(i)) \in 1 .. Cardinality(Accepted)
<1>1. IsFiniteSet(1 .. Len(text)) /\ Accepted \subseteq 1 .. Len(text) /\ Refused \subseteq 1 .. Len(text)
  <2>1. Len(text) \in Nat /\ DOMAIN text = 1 .. Len(text)
    BY DEF IInv
  <2>2. \A e \in DOMAIN errs : errs[e].line_no \in DOMAIN text
    BY DEF IInv, TypeOK
  <2>. QED  BY <2>1, <2>2, FS_Interval DEF Accepted, Refused
<1>2. IsFiniteSet(Accepted) /\ Cardinality(Accepted) \in Nat
  BY <1>1, FS_Subset, FS_CardinalityType
<1>3. ASSUME NEW i \in Accepted
      PROVE  Cardinality(Upto(i)) \in 1 .. Cardinality(Accepted)
  <2>1. Upto(i) \in SUBSET Accepted /\ i \in Upto(i)
    BY <1>1 DEF Upto
  <2>2. IsFiniteSet(Upto(i)) /\ Cardinality(Upto(i)) <= Cardinality(Accepted)
    BY <1>2, <2>1, FS_Subset
  <2>3. Cardinality(Upto(i)) \in Nat /\ Cardinality(Upto(i)) # 0
    BY <2>1, <2>2, FS_CardinalityType, FS_EmptySet
  <2>. QED  BY <1>2, <2>2, <2>3
<1>. QED  BY <1>1, <1>2, <1>3

LEMMA LineLength ==
  ASSUME NEW t \in Lines
  PROVE  Len(t) \in Nat
<1>1. t \in Seq(STRING)
  BY LinesAssumption
<1>. QED  BY <1>1

LEMMA RInvInit == Init => RInv
<1>. SUFFICES ASSUME Init PROVE RInv
  OBVIOUS
<1>1. Accepted = {} /\ Refused = {} /\ Len(rules) = 0
  BY DEF Init, Accepted, Refused
<1>. QED  BY <1>1, AInvInit, FS_EmptySet DEF RInv

LEMMA RInvNext == RInv /\ [Next]_vars => RInv'
<1>. SUFFICES ASSUME RInv, [Next]_vars PROVE RInv'
  OBVIOUS
<1>0. AInv' /\ AInv /\ IInv /\ IInv'
  BY AInvNext DEF RInv, AInv
<1>. PICK n \in Nat : n = Len(text) + 1
  BY <1>0 DEF IInv
<1>1. ASSUME NEW t \in Lines, NextLine(t)
      PROVE  /\ \A i \in 1 .. Len(text) : text'[i] = text[i]
             /\ text'[n] = t /\ DOMAIN text' = (1 .. Len(text)) \cup {n} /\ DOMAIN text = 1 .. Len(text)
             /\ n \notin 1 .. Len(text) /\ n \in Nat /\ Len(text') = n
             /\ \A i \in 1 .. Len(text) : ~ (n <= i) /\ i <= n
             /\ n <= n
  BY <1>0, <1>1 DEF NextLine, IInv
<1>2. Len(rules) \in Nat /\ rules \in Seq(UsableRule)
  BY <1>0 DEF IInv, TypeOK
<1>7. /\ Accepted  = {i \in DOMAIN text : text[i] # <<>>} \ Refused
      /\ Accepted' = {i \in DOMAIN text' : text'[i] # <<>>} \ Refused'
  BY DEF Accepted, Refused
<1>3. ASSUME NEW t \in Lines, SkipBlank(t) PROVE RInv'
  <2>1. NextLine(t) /\ t = <<>> /\ rules' = rules /\ errs' = errs
    BY <1>3 DEF SkipBlank
  <2>2. Refused' = Refused
    BY <2>1 DEF Refused
  <2>3. Accepted' = Accepted
    BY <1>1, <1>7, <2>1, <2>2
  <2>4. \A i : Upto(i)' = Upto(i)
    BY <2>3 DEF Upto
  <2>. QED  BY <1>0, <1>1, <2>1, <2>2, <2>3, <2>4, AcceptedFinite DEF RInv
<1>4. ASSUME NEW t \in Lines, Refuse(t) PROVE RInv'
  <2>1. /\ NextLine(t) /\ Refusal(t) # "" /\ rules' = rules
        /\ errs' = Append(errs, [line_no |-> n, reason |-> Refusal(t)])
    BY <1>1, <1>4 DEF Refuse
  <2>2. Refused' = Refused \cup {n}
    <3>1. /\ DOMAIN errs' = DOMAIN errs \cup {Len(errs) + 1} /\ errs'[Len(errs) + 1].line_no = n
          /\ \A e \in DOMAIN errs : errs'[e] = errs[e]
      <4>. DEFINE e == [line_no |-> n, reason |-> Refusal(t)]
                  S == [line_no : Nat, reason : {Refusal(x) : x \in Lines}]
      <4>1. e \in S /\ e.line_no = n /\ errs' = Append(errs, e)
        BY <2>1
      <4>2. errs \in Seq(S) /\ DOMAIN errs = 1 .. Len(errs)
        BY <1>0 DEF IInv
      <4>. HIDE DEF e, S
      <4>. QED  BY <4>1, <4>2, Appended
    <3>. QED  BY <3>1 DEF Refused
  <2>3. Accepted' = Accepted
    BY <1>0, <1>1, <1>7, <2>1, <2>2, AcceptedFinite
  <2>4. \A i : Upto(i)' = Upto(i)
    BY <2>3 DEF Upto
  <2>5. Said(text'[n]) = {}
    BY <1>1, <2>1, LineLength, VerdictIsTheGrammars
  <2>. QED  BY <1>0, <1>1, <2>1, <2>2, <2>3, <2>4, <2>5, AcceptedFinite DEF RInv
<1>5. ASSUME NEW t \in Lines, Accept(t) PROVE RInv'
  <2>1. /\ NextLine(t) /\ t # <<>> /\ Refusal(t) = "" /\ rules' = Append(rules, RuleOf(t))
        /\ errs' = errs
    BY <1>5 DEF Accept
  <2>2. Refused' = Refused
    BY <2>1 DEF Refused
  <2>3. Accepted' = Accepted \cup {n} /\ n \notin Accepted
    <3>1. Refused \subseteq 1 .. Len(text) /\ Accepted \subseteq 1 .. Len(text)
      BY <1>0, AcceptedFinite
    <3>2. /\ \A i \in 1 .. Len(text) : text'[i] = text[i]
          /\ text'[n] # <<>> /\ DOMAIN text' = (1 .. Len(text)) \cup {n}
          /\ DOMAIN text = 1 .. Len(text) /\ n \notin 1 .. Len(text)
      BY <1>1, <2>1
    <3>. QED  BY <1>7, <2>2, <3>1, <3>2
  <2>4. \A i \in Accepted : Upto(i)' = Upto(i)
    <3>1. \A i \in Accepted : ~ (n <= i)
      BY <1>0, <1>1, <2>1, AcceptedFinite
    <3>. QED  BY <2>3, <3>1 DEF Upto
  <2>5. Upto(n)' = Accepted'
    BY <1>0, <1>1, <2>1, <2>3, AcceptedFinite DEF Upto
  <2>6. Cardinality(Accepted') = Cardinality(Accepted) + 1
    BY <1>0, <2>3, AcceptedFinite, FS_AddElement
  <2>7. /\ Len(rules') = Len(rules) + 1 /\ rules'[Len(rules) + 1] = RuleOf(t)
        /\ \A k \in 1 .. Len(rules) : rules'[k] = rules[k]
    <3>1. RuleOf(t) \in UsableRule
      BY <2>1, RuleOfType
    <3>. DEFINE longer == Append(rules, RuleOf(t))
    <3>2. /\ Len(longer) = Len(rules) + 1 /\ longer[Len(rules) + 1] = RuleOf(t)
          /\ \A k \in 1 .. Len(rules) : longer[k] = rules[k]
      BY <1>2, <3>1, Appended
    <3>. HIDE DEF longer
    <3>3. rules' = longer
      BY <2>1 DEF longer
    <3>. QED  BY <3>2, <3>3
  <2>8. Heeded(RuleOf(t), text'[n])
    <3>1. Len(t) \in Nat /\ t \in Seq(STRING) /\ text'[n] = t
      BY <1>1, <2>1, LineLength, LinesAssumption
    <3>2. ~ (Len(t) <= 10) => Len(t) > 10
      BY <3>1, Counting
    <3>3. ~ (Len(t) <= 10) => RuleOf(t) \in Said(SubSeq(t, 1, 10))
      BY <2>1, <3>1, <3>2, TailIgnored
    <3>. QED  BY <2>1, <3>1, <3>2, <3>3, VerdictIsTheGrammars DEF Heeded
  <2>9. \A i \in Accepted : Heeded(rules'[Cardinality(Upto(i)')], text'[i])
    <3>. SUFFICES ASSUME NEW i \in Accepted
                  PROVE  Heeded(rules'[Cardinality(Upto(i)')], text'[i])
      OBVIOUS
    <3>1. Cardinality(Upto(i)) \in 1 .. Len(rules) /\ i \in 1 .. Len(text)
      BY <1>0, AcceptedFinite DEF RInv
    <3>2. rules'[Cardinality(Upto(i))] = rules[Cardinality(Upto(i))] /\ text'[i] = text[i]
      BY <1>1, <2>1, <2>7, <3>1
    <3>. QED  BY <2>4, <3>2 DEF RInv
  <2>10. Heeded(rules'[Cardinality(Upto(n)')], text'[n])
    BY <2>5, <2>6, <2>7, <2>8 DEF RInv
  <2>11. \A i \in Refused' : Said(text'[i]) = {}
    BY <1>0, <1>1, <2>1, <2>2, AcceptedFinite DEF RInv
  <2>12. Len(rules') = Cardinality(Accepted')
    BY <2>6, <2>7 DEF RInv
  <2>. QED  BY <1>0, <2>3, <2>9, <2>10, <2>11, <2>12 DEF RInv
<1>6. CASE ExitUnusable \/ StartProgram \/ UNCHANGED vars
  <2>1. text' = text /\ rules' = rules /\ errs' = errs
    BY <1>6 DEF ExitUnusable, StartProgram, vars
  <2>2. Refused' = Refused /\ Accepted' = Accepted
    BY <2>1 DEF Refused, Accepted
  <2>3. \A i : Upto(i)' = Upto(i)
    BY <2>2 DEF Upto
  <2>. QED  BY <1>0, <2>1, <2>2, <2>3 DEF RInv
<1>. QED  BY <1>3, <1>4, <1>5, <1>6 DEF Next

(* The parser is sound and complete for the grammar in the head of         *)
(* rules.rs, on a file of any length: the k-th rule the engine is given is *)
(* the one the k-th accepted line says, or its first ten tokens if it goes *)
(* on after its clear value, which the grammar does not have; and a        *)
(* refused line says no usable rule (rules.rs, parse_rules).               *)
THEOREM ParserFollowsTheGrammar == Spec => []RulesSayWhatLinesSay
<1>1. RInv => RulesSayWhatLinesSay
  BY DEF RInv, RulesSayWhatLinesSay, Refused, RuleAt, Upto, Heeded
<1>. QED  BY <1>1, RInvInit, RInvNext, PTL DEF Spec
=============================================================================
