\* Two pids that change hands under one scan, one that does under four, and
\* two under three scans that may fail half way; any scan may fail at once.
SPECIFICATION MSpec
CONSTANTS
  Sizes  <- AllSizes
  Names  <- MCNames
  Rules  <- MCRules
  None   = None
  System = System
INVARIANTS
  MTypeOK
  NothingMissed
  NothingInvented
  VanishedDidExit
  NoPhantomTraffic
  NewMeansStartedSince
  AlertsAreEarned
  DeadAlertsAreReaped
  NewProcessesAreIgnored
\* when the bounded scans and births are used up nothing more may happen
CHECK_DEADLOCK FALSE
