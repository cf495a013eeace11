\* One process; a system rule that waits and a rule on its write rate and name.
SPECIFICATION HSpec
CONSTANTS
  Rules   <- MixedRules
  Keys    = {p1}
  Comms   = {"node", "sh"}
  Values  <- MCValues
  System  = System
  MaxStep = 2
  MaxTick = 5
INVARIANTS
  HTypeOK
  LiveSubjects
  MapMatchesReadings
PROPERTIES
  NewcomersAreIgnored
  ImplementsContract
\* evaluate is called only while the sampler runs: it may stop for good
CHECK_DEADLOCK FALSE
