\* The documentation of ClearedGone, against the reaping pass.
SPECIFICATION HSpec
CONSTANTS
  Rules   <- ChattyRule
  Keys    = {p1}
  Comms   = {"node"}
  Values  <- MCValues
  System  = System
  MaxStep = 1
  MaxTick = 3
PROPERTY GoneMeansExited
CHECK_DEADLOCK FALSE
