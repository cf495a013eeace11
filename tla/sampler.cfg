\* Two readers, two alerts, an event log that overflows.  Nothing is assumed
\* of scans and sleeps: they may last for ever.
SPECIFICATION LockFairSpec
CONSTANTS
  Readers     = {main, tui}
  Owner       = main
  Alerts      = {cpu, disk}
  HistoryLen  = 2
  EventLogLen = 3
  None        = None
  MaxScans    = 4
INVARIANTS
  TypeOK
  ReadersSeeWholeCycles
  StopLosesNoCycle
PROPERTIES
  ImplementsPublication
  FrozenAfterJoin
  ReadersGetIn
  StopReturns
