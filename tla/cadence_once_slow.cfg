\* vitals --interval 100ms --once, in units of 10 ms; scans of up to 130 ms.
SPECIFICATION Spec
CONSTANTS
  Interval = 10
  Grace    = 12
  Slice    = 5
  Once     = TRUE
  Duration = Forever
  Forever  = Forever
  MaxCost  = 13
  MaxClock = 60
INVARIANT OncePrintsSnapshot
\* the program exits, or the bound on time is reached
CHECK_DEADLOCK FALSE
