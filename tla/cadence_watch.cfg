\* vitals --interval 100ms --duration 200ms, in units of 10 ms; scans of up to 130 ms.
SPECIFICATION Spec
CONSTANTS
  Interval = 10
  Grace    = 12
  Slice    = 5
  Once     = FALSE
  Duration = 20
  Forever  = Forever
  MaxCost  = 13
  MaxClock = 80
INVARIANTS
  TypeOK
  NoDrift
  StopsPromptly
  RunsForDuration
PROPERTY NeverCatchesUp
\* the program exits, or the bound on time is reached
CHECK_DEADLOCK FALSE
