\* Files of up to two lines.  The program stops reading when the file ends.
CONSTANTS
  Comms <- MCComms
  Pattern <- MCPattern
  Numeral <- MCNumeral
  Lines <- MCLines
  MaxLines = 2
SPECIFICATION Spec
INVARIANTS TypeOK EveryLineAnswered RulesSayWhatLinesSay
CHECK_DEADLOCK FALSE
